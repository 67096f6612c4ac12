----------------------------- MODULE StoreProofs -----------------------------
(***************************************************************************)
(* The invariant of the object store, and what the steps of the store other *)
(* than the start of a save do to it, for every set of objects and what they*)
(* refer to, every size of the arena and of manifests and every limit on    *)
(* dead space.                                                              *)
(*                                                                          *)
(* StoreInv says what is on the device however saves were cut short, what   *)
(* the save in flight has written and has still to write and, while saves   *)
(* append, that the committed image is whole and below all they write.      *)
(***************************************************************************)
EXTENDS MCObjStore, TLAPS

USE SMTT(30), ZenonT(30)

Blocks ==
    {Blank} \cup [kind : {"object"}, id : Objects]
            \cup [kind : {"manifest"}, index : Indexes, part : Nat, parts : Nat]

RootRecords ==
    [generation : Nat \ {0}, vfs_root : Objects, manifest_lba : Lbas,
     manifest_blocks : Nat \ {0}, log_end : Nat]

\* Each root stands in the slot of its parity.
SlotsInv ==
    /\ roots \in [{0, 1} -> RootRecords \cup {NoRoot}]
    /\ \A s \in {0, 1} : roots[s] # NoRoot => roots[s].generation % 2 = s

\* What the device holds, however saves were cut short: each root names a namespace
\* that was saved.
DiskInv ==
    /\ arena \in [Lbas -> Blocks]
    /\ SlotsInv
    /\ \A s \in {0, 1} : roots[s] # NoRoot => \E p \in saved : p.vfs = roots[s].vfs_root

\* What the system has in memory.
MemInv ==
    /\ graph \in SUBSET Objects /\ vfs \in graph
    /\ pc \in {"boot", "running", "objects", "manifest", "return"}
    /\ prior # Nothing =>
         /\ prior \in Manifests /\ pc # "boot"
         /\ DOMAIN prior.index \subseteq graph
         /\ pc # "return" => BestRoot.generation \in {prior.generation, prior.generation + 1}
    /\ savedAck # Nothing => savedAck \in [snapshot : Snapshots, generation : Nat]
    /\ saved \in SUBSET Snapshots
    /\ intact \in BOOLEAN

InFlight == pc \in {"objects", "manifest"}

\* The save in flight: what it is going to write, and where.
JobInv ==
    IF pc \in {"boot", "running"} THEN job = Nothing
    ELSE /\ job \in Jobs /\ job.objects = graph /\ job.vfs_root = vfs /\ job.generation > 0
         /\ job.manifest_blocks > 0 /\ job.log_end = job.manifest_lba + job.manifest_blocks
         /\ Snapshot(graph, vfs) \in saved
         /\ DOMAIN job.index = graph
         /\ \A o \in DOMAIN job.layout :
              o \in graph /\ job.index[o] = job.layout[o] /\ job.layout[o] < job.manifest_lba
         /\ \A o, p \in DOMAIN job.layout : job.layout[o] = job.layout[p] => o = p
         /\ \A o \in graph \ DOMAIN job.layout :
              prior # Nothing /\ o \in DOMAIN prior.index /\ job.index[o] = prior.index[o]
         /\ InFlight =>
              /\ BestRoot.generation \in {job.generation - 1, job.generation}
              /\ prior # Nothing => job.generation = prior.generation + 1

\* The blocks of the save that have landed.
LandedInv ==
    /\ pc = "objects" => \A o \in DOMAIN job.layout :
         job.layout[o] \notin todo => arena[job.layout[o]] = ObjectBlock(o)
    /\ pc \in {"manifest", "return"} =>
         /\ job.log_end <= Cap
         /\ todo \subseteq BlocksOf(job.manifest_lba, job.manifest_blocks)
         /\ \A o \in DOMAIN job.layout : arena[job.layout[o]] = ObjectBlock(o)
         /\ \A i \in 0 .. job.manifest_blocks - 1 : job.manifest_lba + i \notin todo =>
              arena[job.manifest_lba + i] = ManifestBlock(job.index, i, job.manifest_blocks)
    /\ pc = "return" => todo = {} /\ BestRoot = RootRecord

\* The image a root and an index describe is all there, below the root's log end.
Whole(r, x) ==
    /\ x \in Indexes /\ r.vfs_root \in DOMAIN x
    /\ \A i \in 0 .. r.manifest_blocks - 1 :
         arena[r.manifest_lba + i] = ManifestBlock(x, i, r.manifest_blocks)
    /\ r.manifest_lba + r.manifest_blocks <= r.log_end
    /\ \A o \in DOMAIN x : arena[x[o]] = ObjectBlock(o) /\ x[o] < r.log_end

\* The index in the block where the committed root finds its manifest, and the image
\* the two describe.
CommittedIndex == arena[BestRoot.manifest_lba].index
CommittedImage == Snapshot(DOMAIN CommittedIndex, BestRoot.vfs_root)
ImageWhole == BestRoot # NoRoot => Whole(BestRoot, CommittedIndex)

\* The manifest in memory describes the committed image.
PriorMatches ==
    prior # Nothing /\ pc # "return" =>
        /\ BestRoot # NoRoot /\ prior.generation = BestRoot.generation
        /\ prior.log_end = BestRoot.log_end /\ prior.index = CommittedIndex

\* The save in flight is for the next generation and writes above the committed image.
WritesAbove ==
    InFlight =>
        /\ job.generation = BestRoot.generation + 1
        /\ BestRoot # NoRoot =>
             /\ prior # Nothing /\ BestRoot.log_end <= job.manifest_lba
             /\ \A o \in DOMAIN job.layout : BestRoot.log_end <= job.layout[o]

\* What was acknowledged is the committed image, or an earlier one.
AckHeld ==
    savedAck # Nothing =>
        /\ BestRoot # NoRoot /\ savedAck.generation <= BestRoot.generation
        /\ savedAck.generation = BestRoot.generation => savedAck.snapshot = CommittedImage

\* What holds while saves append.
IntactInv == intact => ImageWhole /\ PriorMatches /\ WritesAbove /\ AckHeld

StoreInv == DiskInv /\ MemInv /\ JobInv /\ LandedInv /\ IntactInv

\* An index is a function from a set of objects to block numbers.
LEMMA IndexFacts ==
    /\ \A x \in Indexes : DOMAIN x \in SUBSET Objects /\ x \in [DOMAIN x -> Lbas]
    /\ \A S \in SUBSET Objects : \A x \in [S -> Lbas] : x \in Indexes
  BY Zenon DEF Indexes

\* Merging an index into another one.
LEMMA MergeFacts ==
    ASSUME NEW f \in Indexes, NEW g \in Indexes
    PROVE  /\ Merge(f, g) \in Indexes /\ DOMAIN Merge(f, g) = DOMAIN f \cup DOMAIN g
           /\ \A o \in DOMAIN g : Merge(f, g)[o] = g[o]
           /\ \A o \in DOMAIN f \ DOMAIN g : Merge(f, g)[o] = f[o]
<1>1. /\ DOMAIN Merge(f, g) = DOMAIN f \cup DOMAIN g
      /\ \A o \in DOMAIN g : Merge(f, g)[o] = g[o]
      /\ \A o \in DOMAIN f \ DOMAIN g : Merge(f, g)[o] = f[o]
      /\ Merge(f, g) = [o \in DOMAIN f \cup DOMAIN g |-> Merge(f, g)[o]]
  BY Zenon DEF Merge
<1>2. \A o \in DOMAIN f \cup DOMAIN g : Merge(f, g)[o] \in Lbas
  BY <1>1, IndexFacts, Zenon
<1>3. DOMAIN f \cup DOMAIN g \in SUBSET Objects
  BY IndexFacts, Zenon
<1>4. Merge(f, g) \in [DOMAIN f \cup DOMAIN g -> Lbas]
  BY <1>1, <1>2, Zenon
<1>. QED BY <1>1, <1>3, <1>4, IndexFacts, Zenon

\* read_root finds the slot of the highest generation, or no root at all.
LEMMA BestRootFacts ==
    ASSUME SlotsInv
    PROVE  /\ BestRoot \in RootRecords \cup {NoRoot} /\ BestRoot.generation \in Nat
           /\ BestRoot = NoRoot <=> BestRoot.generation = 0
           /\ BestRoot # NoRoot => BestRoot \in RootRecords
           /\ BestRoot = NoRoot => roots[0] = NoRoot /\ roots[1] = NoRoot
           /\ BestRoot # NoRoot => BestRoot = roots[BestRoot.generation % 2]
           /\ \A s \in {0, 1} : /\ roots[s].generation \in Nat
                                /\ roots[s].generation <= BestRoot.generation
<1>1. \A r \in RootRecords \cup {NoRoot} :
          /\ r.generation \in Nat /\ (r = NoRoot <=> r.generation = 0)
          /\ r # NoRoot => r \in RootRecords
  BY DEF RootRecords, NoRoot
<1>2. roots[0] \in RootRecords \cup {NoRoot} /\ roots[1] \in RootRecords \cup {NoRoot}
  BY Zenon DEF SlotsInv
<1>3. /\ BestRoot = roots[0] \/ BestRoot = roots[1]
      /\ roots[0].generation <= BestRoot.generation /\ roots[1].generation <= BestRoot.generation
  BY <1>1, <1>2 DEF BestRoot
<1>4. BestRoot # NoRoot => BestRoot = roots[BestRoot.generation % 2]
  BY <1>3, Zenon DEF SlotsInv
<1>5. BestRoot = NoRoot => roots[0] = NoRoot /\ roots[1] = NoRoot
  BY <1>1, <1>2, <1>3
<1>6. \A s \in {0, 1} : roots[s].generation \in Nat /\ roots[s].generation <= BestRoot.generation
  BY <1>1, <1>2, <1>3, Zenon
<1>7. BestRoot \in RootRecords \cup {NoRoot}
  BY <1>2, <1>3, Zenon
<1>. QED BY <1>1, <1>4, <1>5, <1>6, <1>7, Zenon

\* A root written one generation up, or again at the same one, becomes the best one:
\* the other slot has the other parity.
LEMMA NewRoot ==
    ASSUME SlotsInv, NEW r \in RootRecords,
           BestRoot.generation \in {r.generation - 1, r.generation},
           roots' = [roots EXCEPT ![r.generation % 2] = r]
    PROVE  SlotsInv' /\ BestRoot' = r
<1>1. /\ r.generation \in Nat /\ r.generation > 0 /\ r.generation % 2 \in {0, 1}
      /\ r # NoRoot
  BY DEF RootRecords, NoRoot
<1>2. PICK s \in {0, 1} : s = r.generation % 2
  BY <1>1, Zenon
<1>3. roots'[s] = r /\ roots'[1 - s] = roots[1 - s] /\ roots' \in [{0, 1} -> RootRecords \cup {NoRoot}]
  BY <1>2 DEF SlotsInv
<1>4. roots[1 - s].generation < r.generation /\ roots[1 - s].generation \in Nat
  <2>1. roots[1 - s].generation \in Nat /\ roots[1 - s].generation <= BestRoot.generation
    BY BestRootFacts
  <2>2. CASE roots[1 - s] = NoRoot
    BY <1>1, <2>2 DEF NoRoot
  <2>3. CASE roots[1 - s] # NoRoot
    <3>1. roots[1 - s].generation % 2 = 1 - s
      BY <2>3 DEF SlotsInv
    <3>2. roots[1 - s].generation # r.generation
      BY <1>1, <1>2, <3>1
    <3>. QED BY <1>1, <2>1, <3>2
  <2>. QED BY <2>2, <2>3, Zenon
<1>5. BestRoot' = r
  BY <1>1, <1>3, <1>4 DEF BestRoot
<1>6. SlotsInv'
  BY <1>2, <1>3, Zenon DEF SlotsInv
<1>. QED BY <1>5, <1>6, Zenon

\* A torn root record costs only what was in its slot, which is not the committed root.
LEMMA TornRoot ==
    ASSUME SlotsInv, NEW g \in Nat, roots' = [roots EXCEPT ![g % 2] = NoRoot]
    PROVE  SlotsInv' /\ (g = BestRoot.generation + 1 => BestRoot' = BestRoot)
<1>1. PICK s \in {0, 1} : s = g % 2
  OBVIOUS
<1>2. /\ roots'[s] = NoRoot /\ roots'[1 - s] = roots[1 - s]
      /\ roots' \in [{0, 1} -> RootRecords \cup {NoRoot}]
  BY <1>1 DEF SlotsInv
<1>3. SlotsInv'
  BY <1>1, <1>2, Zenon DEF SlotsInv
<1>4. ASSUME g = BestRoot.generation + 1 PROVE BestRoot' = BestRoot
  <2>1. CASE BestRoot = NoRoot
    BY <1>2, <2>1, BestRootFacts, Zenon DEF BestRoot
  <2>2. CASE BestRoot # NoRoot
    <3>1. BestRoot.generation \in Nat /\ BestRoot.generation > 0
      BY <2>2, BestRootFacts
    <3>2. BestRoot.generation % 2 = 1 - s
      BY <1>1, <1>4, <3>1
    <3>3. BestRoot = roots[1 - s]
      BY <2>2, <3>2, BestRootFacts, Zenon
    <3>4. roots'[s].generation = 0
      BY <1>2 DEF NoRoot
    <3>. QED BY <1>2, <3>1, <3>3, <3>4 DEF BestRoot
  <2>. QED BY <2>1, <2>2, Zenon
<1>. QED BY <1>3, <1>4, Zenon

\* A manifest block in the arena holds an index.
LEMMA ManifestBlocks ==
    ASSUME arena \in [Lbas -> Blocks], NEW b \in Lbas, arena[b].kind = "manifest"
    PROVE  arena[b].index \in Indexes
<1>1. arena[b] \in Blocks
  BY Zenon
<1>2. \A c \in Blocks : c.kind = "manifest" => c.index \in Indexes
  BY DEF Blocks, Blank
<1>. QED BY <1>1, <1>2, Zenon

\* The fields of a snapshot.
LEMMA SnapshotFields == \A g, v : Snapshot(g, v).objects = g /\ Snapshot(g, v).vfs = v
  BY Zenon DEF Snapshot

\* A boot restores what some manifest blocks list, those of the block the committed
\* root names if the manifest is in one piece.
LEMMA DecodedFacts ==
    ASSUME DiskInv, NEW index \in Decoded, RestoreFrom(index) # Nothing
    PROVE  /\ BestRoot # NoRoot /\ BestRoot \in RootRecords /\ index \in Indexes
           /\ BestRoot.vfs_root \in DOMAIN index
           /\ RestoreFrom(index) = Snapshot(DOMAIN index, BestRoot.vfs_root)
           /\ \A o \in DOMAIN index :
                \E b \in Lbas : arena[b].kind = "manifest" /\ o \in DOMAIN arena[b].index
           /\ WholeIndex # Nothing =>
                /\ index = CommittedIndex /\ BestRoot.manifest_lba \in Lbas
                /\ arena[BestRoot.manifest_lba].kind = "manifest"
<1>1. /\ LoadImage(index) # Nothing /\ RestoreFrom(index) = LoadImage(index)
      /\ LoadImage(index).vfs \in LoadImage(index).objects
  BY Zenon DEF RestoreFrom
<1>2. index # Nothing /\ LoadImage(index) = Snapshot(DOMAIN index, BestRoot.vfs_root)
  BY <1>1, Zenon DEF LoadImage
<1>3. BestRoot.vfs_root \in DOMAIN index
  BY <1>1, <1>2, SnapshotFields, Zenon
<1>4. BestRoot # NoRoot
  BY <1>2, Zenon DEF Decoded, WholeIndex
<1>5. BestRoot \in RootRecords /\ BestRoot.manifest_lba \in Lbas
  BY <1>4, BestRootFacts, Zenon DEF DiskInv, RootRecords
<1>6. CASE WholeIndex # Nothing
  <2>1. index = WholeIndex /\ index = ReadManifest(BestRoot)
    BY <1>4, <1>6, Zenon DEF Decoded, WholeIndex
  <2>2. /\ index = arena[BestRoot.manifest_lba].index
        /\ arena[BestRoot.manifest_lba].kind = "manifest"
    BY <1>2, <2>1, Zenon DEF ReadManifest, StartsManifest
  <2>3. index \in Indexes /\ index = CommittedIndex
    BY <1>5, <2>2, ManifestBlocks, Zenon DEF DiskInv, CommittedIndex
  <2>. QED BY <1>1, <1>2, <1>3, <1>4, <1>5, <2>2, <2>3, Zenon
<1>7. CASE WholeIndex = Nothing
  <2>1. index \in TornIndexes(BestRoot)
    BY <1>2, <1>4, <1>7, Zenon DEF Decoded
  <2>2. /\ index \in Indexes
        /\ \A o \in DOMAIN index :
             \E b \in Lbas : arena[b].kind = "manifest" /\ o \in DOMAIN arena[b].index
    BY <2>1, Zenon DEF TornIndexes
  <2>. QED BY <1>1, <1>2, <1>3, <1>4, <1>5, <1>7, <2>2, Zenon
<1>. QED BY <1>6, <1>7, Zenon

\* A whole image is what a boot restores.
LEMMA WholeLoads ==
    ASSUME SlotsInv, BestRoot # NoRoot, NEW x, Whole(BestRoot, x)
    PROVE  /\ CommittedIndex = x /\ ReadManifest(BestRoot) = x /\ Decoded = {x}
           /\ Restored = Snapshot(DOMAIN x, BestRoot.vfs_root) /\ Restored # Nothing
           /\ Restored \in Snapshots
<1>. DEFINE first == arena[BestRoot.manifest_lba]
<1>1. /\ BestRoot.manifest_blocks \in Nat /\ BestRoot.manifest_blocks > 0
      /\ BestRoot.manifest_lba \in Nat /\ BestRoot.vfs_root \in Objects
  BY BestRootFacts, StoreAssumption DEF RootRecords, Lbas
<1>2. first = ManifestBlock(x, 0, BestRoot.manifest_blocks)
  <2>1. 0 \in 0 .. BestRoot.manifest_blocks - 1 /\ BestRoot.manifest_lba + 0 = BestRoot.manifest_lba
    BY <1>1
  <2>. QED BY <2>1, Zenon DEF Whole
<1>3. /\ first.kind = "manifest" /\ first.part = 0 /\ first.index = x
      /\ first.parts = BestRoot.manifest_blocks
  BY <1>2 DEF ManifestBlock
<1>4. CommittedIndex = x
  BY <1>3, Zenon DEF CommittedIndex
<1>5. ReadManifest(BestRoot) = x
  <2>1. InOnePiece(BestRoot) /\ StartsManifest(first)
    BY <1>3, Zenon DEF Whole, InOnePiece, StartsManifest
  <2>2. first.parts <= BestRoot.manifest_blocks
    BY <1>1, <1>3
  <2>. QED BY <1>3, <2>1, <2>2, Zenon DEF ReadManifest
<1>6. x # Nothing /\ DOMAIN x \in SUBSET Objects
  BY StoreAssumption, IndexFacts, Zenon DEF Whole
<1>7. ~ \E o \in DOMAIN x : arena[x[o]] # ObjectBlock(o)
  BY Zenon DEF Whole
<1>8. WholeIndex = x /\ LoadImage(x) = Snapshot(DOMAIN x, BestRoot.vfs_root)
  BY <1>5, <1>6, <1>7, Zenon DEF LoadImage, WholeIndex
<1>9. Snapshot(DOMAIN x, BestRoot.vfs_root) \in Snapshots
  BY <1>1, <1>6, Zenon DEF Snapshot, Snapshots
<1>10. Snapshot(DOMAIN x, BestRoot.vfs_root) # Nothing
  BY <1>9, StoreAssumption, Zenon
<1>11. /\ Snapshot(DOMAIN x, BestRoot.vfs_root).vfs = BestRoot.vfs_root
       /\ Snapshot(DOMAIN x, BestRoot.vfs_root).objects = DOMAIN x
       /\ BestRoot.vfs_root \in DOMAIN x
  BY Zenon DEF Snapshot, Whole
<1>12. Restored = Snapshot(DOMAIN x, BestRoot.vfs_root)
  BY <1>8, <1>10, <1>11, Zenon DEF Restored, RestoreFrom
<1>13. Decoded = {x}
  BY <1>6, <1>8, Zenon DEF Decoded
<1>. QED BY <1>4, <1>5, <1>9, <1>10, <1>12, <1>13, Zenon

\* Without a root there is nothing to restore.
LEMMA NoRootLoadsNothing == BestRoot = NoRoot => Restored = Nothing
  BY Zenon DEF Restored, RestoreFrom, LoadImage, WholeIndex

\* Steps that leave the device alone leave the committed image alone.
LEMMA SameDisk ==
    ASSUME UNCHANGED <<arena, roots>>
    PROVE  /\ BestRoot' = BestRoot /\ CommittedIndex' = CommittedIndex
           /\ CommittedImage' = CommittedImage /\ Restored' = Restored
           /\ ImageWhole => ImageWhole'
           /\ SlotsInv => SlotsInv'
<1>1. BestRoot' = BestRoot /\ (SlotsInv => SlotsInv')
  BY Zenon DEF BestRoot, SlotsInv
<1>2. CommittedIndex' = CommittedIndex
  BY <1>1, Zenon DEF CommittedIndex
<1>3. CommittedImage' = CommittedImage
  BY <1>1, <1>2, Zenon DEF CommittedImage, Snapshot
<1>4. Restored' = Restored
  <2>1. WholeIndex' = WholeIndex
    BY <1>1, Zenon DEF WholeIndex, ReadManifest, InOnePiece, StartsManifest, ManifestBlock
  <2>2. LoadImage(WholeIndex)' = LoadImage(WholeIndex)
    BY <1>1, <2>1, Zenon DEF LoadImage, ObjectBlock, Snapshot
  <2>. QED BY <2>2, Zenon DEF Restored, RestoreFrom
<1>5. ImageWhole => ImageWhole'
  BY <1>1, <1>2, Zenon DEF ImageWhole, Whole, ManifestBlock, ObjectBlock
<1>. QED BY <1>1, <1>2, <1>3, <1>4, <1>5, Zenon

\* A block written at or above the end of the committed image does not touch it.
LEMMA WriteAbove ==
    ASSUME SlotsInv, ImageWhole, BestRoot # NoRoot, DOMAIN arena = Lbas,
           NEW b \in Lbas, BestRoot.log_end <= b, NEW v, arena' = [arena EXCEPT ![b] = v],
           roots' = roots
    PROVE  /\ BestRoot' = BestRoot /\ CommittedIndex' = CommittedIndex
           /\ CommittedImage' = CommittedImage /\ ImageWhole'
<1>1. BestRoot' = BestRoot
  BY Zenon DEF BestRoot
<1>2. PICK r : r = BestRoot
  BY Zenon
<1>3. PICK x : x = CommittedIndex
  BY Zenon
<1>4. /\ r \in RootRecords /\ r.manifest_lba \in Nat /\ r.manifest_blocks \in Nat
      /\ r.manifest_blocks > 0 /\ r.log_end \in Nat /\ b \in Nat
      /\ r.manifest_lba \in Lbas
  BY <1>2, BestRootFacts, StoreAssumption DEF RootRecords, Lbas
<1>5. Whole(r, x)
  BY <1>2, <1>3, Zenon DEF ImageWhole
<1>6. \A c : c # b => arena'[c] = arena[c]
  OBVIOUS
<1>7. \A i \in 0 .. r.manifest_blocks - 1 : r.manifest_lba + i # b
  BY <1>2, <1>4, <1>5 DEF Whole
<1>8. \A o \in DOMAIN x : x[o] # b
  <2>. SUFFICES ASSUME NEW o \in DOMAIN x PROVE x[o] # b
    BY Zenon
  <2>1. x[o] \in Nat /\ x[o] < r.log_end
    BY <1>5, IndexFacts, StoreAssumption DEF Whole, Lbas
  <2>. QED BY <1>2, <1>4, <2>1
<1>9. CommittedIndex' = CommittedIndex
  <2>1. r.manifest_lba # b
    BY <1>2, <1>4, <1>5 DEF Whole
  <2>. QED BY <1>1, <1>2, <1>6, <2>1, Zenon DEF CommittedIndex
<1>10. Whole(r, x)'
  <2>1. \A i \in 0 .. r.manifest_blocks - 1 :
           arena'[r.manifest_lba + i] = ManifestBlock(x, i, r.manifest_blocks)
    BY <1>5, <1>6, <1>7, Zenon DEF Whole
  <2>2. \A o \in DOMAIN x : arena'[x[o]] = ObjectBlock(o)
    BY <1>5, <1>6, <1>8, Zenon DEF Whole
  <2>. QED BY <1>5, <2>1, <2>2, Zenon DEF Whole, ManifestBlock, ObjectBlock
<1>11. ImageWhole'
  BY <1>1, <1>2, <1>3, <1>9, <1>10, Zenon DEF ImageWhole
<1>. QED BY <1>1, <1>9, <1>11, Zenon DEF CommittedImage, Snapshot

LEMMA StoreInvInit == HistoryInit => StoreInv
<1>. SUFFICES ASSUME HistoryInit PROVE StoreInv
  BY Zenon
<1>1. /\ arena = [b \in Lbas |-> Blank] /\ roots = [s \in {0, 1} |-> NoRoot]
      /\ graph = {Seed} /\ vfs = Seed /\ prior = Nothing /\ pc = "boot" /\ job = Nothing
      /\ todo = {} /\ savedAck = Nothing /\ saved = {} /\ intact = TRUE
  BY Zenon DEF HistoryInit, StoreInit
<1>2. BestRoot = NoRoot
  BY <1>1, Zenon DEF BestRoot
<1>3. DiskInv
  BY <1>1, Zenon DEF DiskInv, SlotsInv, Blocks
<1>4. MemInv
  BY <1>1, StoreAssumption, Zenon DEF MemInv
<1>5. JobInv /\ LandedInv
  BY <1>1, Zenon DEF JobInv, LandedInv
<1>6. IntactInv
  BY <1>1, <1>2, Zenon DEF IntactInv, ImageWhole, PriorMatches, WritesAbove, AckHeld, InFlight
<1>. QED BY <1>3, <1>4, <1>5, <1>6, Zenon DEF StoreInv

\* A boot adopts the image with its manifest, or starts from the seed without one.
LEMMA BootKeeps ==
    ASSUME StoreInv, Boot \/ BootFault, saved' = saved, intact' \in BOOLEAN, intact' => intact
    PROVE  StoreInv'
<1>1. /\ pc = "boot" /\ pc' = "running" /\ UNCHANGED <<arena, roots, job, todo, savedAck>>
      /\ job = Nothing /\ prior = Nothing /\ DiskInv /\ MemInv
  BY Zenon DEF StoreInv, MemInv, JobInv, Boot, BootFault
<1>2. \/ graph' = {Seed} /\ vfs' = Seed /\ prior' = Nothing
      \/ \E index \in Decoded :
           /\ RestoreFrom(index) # Nothing
           /\ graph' = RestoreFrom(index).objects /\ vfs' = RestoreFrom(index).vfs
           /\ prior' = [log_end |-> BestRoot.log_end, index |-> index,
                        generation |-> BestRoot.generation]
  BY Zenon DEF Boot, BootFault
<1>3. BestRoot' = BestRoot /\ CommittedIndex' = CommittedIndex /\ CommittedImage' = CommittedImage
      /\ (ImageWhole => ImageWhole') /\ (SlotsInv => SlotsInv')
  BY <1>1, SameDisk, Zenon
<1>4. DiskInv'
  BY <1>1, <1>3, Zenon DEF DiskInv, Blocks, Blank
<1>5. /\ graph' \in SUBSET Objects /\ vfs' \in graph'
      /\ prior' # Nothing =>
           /\ prior' \in Manifests /\ DOMAIN prior'.index = graph'
           /\ BestRoot # NoRoot /\ prior'.generation = BestRoot.generation
           /\ prior'.log_end = BestRoot.log_end /\ prior'.index \in Decoded
  <2>1. CASE graph' = {Seed} /\ vfs' = Seed /\ prior' = Nothing
    BY <2>1, StoreAssumption, Zenon
  <2>2. ASSUME NEW index \in Decoded, RestoreFrom(index) # Nothing,
               graph' = RestoreFrom(index).objects, vfs' = RestoreFrom(index).vfs,
               prior' = [log_end |-> BestRoot.log_end, index |-> index,
                         generation |-> BestRoot.generation]
        PROVE  /\ graph' \in SUBSET Objects /\ vfs' \in graph'
               /\ prior' \in Manifests /\ DOMAIN prior'.index = graph'
               /\ BestRoot # NoRoot /\ prior'.generation = BestRoot.generation
               /\ prior'.log_end = BestRoot.log_end /\ prior'.index \in Decoded
    <3>1. /\ BestRoot # NoRoot /\ BestRoot \in RootRecords /\ index \in Indexes
          /\ BestRoot.vfs_root \in DOMAIN index
          /\ RestoreFrom(index) = Snapshot(DOMAIN index, BestRoot.vfs_root)
      BY <1>1, <2>2, DecodedFacts, Zenon
    <3>2. BestRoot.log_end \in Nat /\ BestRoot.generation \in Nat
      BY <3>1, Zenon DEF RootRecords
    <3>3. graph' = DOMAIN index /\ vfs' = BestRoot.vfs_root
      <4>1. RestoreFrom(index).objects = DOMAIN index
        BY <3>1, SnapshotFields, Zenon
      <4>2. RestoreFrom(index).vfs = BestRoot.vfs_root
        <5>1. Snapshot(DOMAIN index, BestRoot.vfs_root).vfs = BestRoot.vfs_root
          BY SnapshotFields, Zenon
        <5>. QED BY <3>1, <5>1, Zenon
      <4>. QED BY <2>2, <4>1, <4>2, Zenon
    <3>4. /\ prior'.log_end = BestRoot.log_end /\ prior'.index = index
          /\ prior'.generation = BestRoot.generation /\ prior' \in Manifests
      BY <2>2, <3>1, <3>2, Zenon DEF Manifests
    <3>. QED BY <2>2, <3>1, <3>3, <3>4, IndexFacts, Zenon
  <2>. QED BY <1>2, <2>1, <2>2, Zenon
<1>6. BestRoot.generation \in Nat
  BY <1>1, BestRootFacts, Zenon DEF DiskInv
<1>7. MemInv'
  BY <1>1, <1>3, <1>5, <1>6, Zenon DEF MemInv
<1>8. JobInv' /\ LandedInv'
  BY <1>1, Zenon DEF JobInv, LandedInv
<1>9. IntactInv'
  <2>. SUFFICES ASSUME intact' PROVE (ImageWhole /\ PriorMatches /\ WritesAbove /\ AckHeld)'
    BY Zenon DEF IntactInv
  <2>1. ImageWhole' /\ AckHeld
    BY <1>3, Zenon DEF StoreInv, IntactInv
  <2>2. PriorMatches'
    <3>1. ASSUME BestRoot # NoRoot PROVE Decoded = {CommittedIndex}
      <4>1. SlotsInv /\ Whole(BestRoot, CommittedIndex)
        BY <3>1, Zenon DEF StoreInv, DiskInv, IntactInv, ImageWhole
      <4>. QED BY <3>1, <4>1, WholeLoads, Zenon
    <3>. QED BY <1>3, <1>5, <3>1, Zenon DEF PriorMatches
  <2>3. WritesAbove'
    BY <1>1, Zenon DEF WritesAbove, InFlight
  <2>4. AckHeld'
    BY <1>1, <1>3, <2>1, Zenon DEF AckHeld
  <2>. QED BY <2>1, <2>2, <2>3, <2>4, Zenon
<1>. QED BY <1>4, <1>7, <1>8, <1>9, Zenon DEF StoreInv

\* A file operation adds an object whose references are there.
LEMMA EditKeeps ==
    ASSUME StoreInv, NEW o \in Objects, Edit(o), saved' = saved, intact' \in BOOLEAN,
           intact' => intact
    PROVE  StoreInv'
<1>1. /\ pc = "running" /\ Refs[o] \subseteq graph /\ graph' = graph \cup {o} /\ vfs' = o
      /\ UNCHANGED <<arena, roots, prior, pc, job, todo, savedAck>>
      /\ job = Nothing /\ DiskInv /\ MemInv
  BY Zenon DEF StoreInv, JobInv, Edit
<1>2. BestRoot' = BestRoot /\ CommittedIndex' = CommittedIndex /\ CommittedImage' = CommittedImage
      /\ (ImageWhole => ImageWhole') /\ (SlotsInv => SlotsInv')
  BY <1>1, SameDisk, Zenon
<1>3. DiskInv'
  BY <1>1, <1>2, Zenon DEF DiskInv, Blocks, Blank
<1>5. MemInv'
  BY <1>1, <1>2, Zenon DEF MemInv
<1>6. JobInv' /\ LandedInv'
  BY <1>1, Zenon DEF JobInv, LandedInv
<1>7. IntactInv'
  BY <1>1, <1>2, Zenon DEF StoreInv, IntactInv, PriorMatches, WritesAbove, AckHeld, InFlight
<1>. QED BY <1>3, <1>5, <1>6, <1>7, Zenon DEF StoreInv

\* Saves are noted when they start.
SavesNoted ==
    saved' = IF job = Nothing /\ job' # Nothing
             THEN saved \cup {Snapshot(job'.objects, job'.vfs_root)}
             ELSE saved

\* What a save that starts has to bring along.
LEMMA StartKeeps ==
    ASSUME StoreInv, pc = "running", NEW gen \in Nat, NEW layout \in Indexes, NEW index \in Indexes,
           NEW mlba \in Nat, NEW mb \in ManifestSizes,
           StartWrites(gen, layout, index, mlba, mb),
           SavesNoted, intact' \in BOOLEAN, intact' => intact,
           gen > 0, DOMAIN index = graph,
           \A o \in DOMAIN layout : o \in graph /\ index[o] = layout[o] /\ layout[o] < mlba,
           \A o, p \in DOMAIN layout : layout[o] = layout[p] => o = p,
           \A o \in graph \ DOMAIN layout :
               prior # Nothing /\ o \in DOMAIN prior.index /\ index[o] = prior.index[o],
           BestRoot.generation \in {gen - 1, gen},
           prior # Nothing => gen = prior.generation + 1,
           intact' => /\ gen = BestRoot.generation + 1
                      /\ BestRoot # NoRoot =>
                           /\ prior # Nothing /\ BestRoot.log_end <= mlba
                           /\ \A o \in DOMAIN layout : BestRoot.log_end <= layout[o]
    PROVE  StoreInv'
<1>1. /\ job' = [generation |-> gen, vfs_root |-> vfs, objects |-> graph, layout |-> layout,
                 index |-> index, manifest_lba |-> mlba, manifest_blocks |-> mb,
                 log_end |-> mlba + mb]
      /\ todo' = {layout[o] : o \in DOMAIN layout} /\ pc' = "objects"
      /\ UNCHANGED <<arena, roots, graph, vfs, prior, savedAck>>
  BY Zenon DEF StartWrites
<1>2. mb \in Nat /\ mb > 0
  BY StoreAssumption
<1>3. /\ job'.generation = gen /\ job'.vfs_root = vfs /\ job'.objects = graph
      /\ job'.layout = layout /\ job'.index = index /\ job'.manifest_lba = mlba
      /\ job'.manifest_blocks = mb /\ job'.log_end = mlba + mb
  BY <1>1, Zenon
<1>4. /\ graph \in SUBSET Objects /\ vfs \in graph /\ vfs \in Objects /\ Snapshot(graph, vfs) \in Snapshots
      /\ saved \in SUBSET Snapshots
  BY Zenon DEF StoreInv, MemInv, Snapshot, Snapshots
<1>5. job' \in Jobs /\ saved' = saved \cup {Snapshot(graph, vfs)}
  <2>1. job' \in Jobs
    BY <1>1, <1>2, <1>4 DEF Jobs
  <2>2. job = Nothing /\ job' # Nothing
    BY <2>1, StoreAssumption, Zenon DEF StoreInv, JobInv
  <2>. QED BY <1>3, <2>1, <2>2, Zenon DEF SavesNoted
<1>6. BestRoot' = BestRoot /\ CommittedIndex' = CommittedIndex /\ CommittedImage' = CommittedImage
      /\ (ImageWhole => ImageWhole') /\ (SlotsInv => SlotsInv')
  BY <1>1, SameDisk, Zenon
<1>7. DiskInv'
  <2>1. /\ arena \in [Lbas -> Blocks] /\ SlotsInv
        /\ \A s \in {0, 1} : roots[s] # NoRoot => \E p \in saved : p.vfs = roots[s].vfs_root
    BY Zenon DEF StoreInv, DiskInv
  <2>2. saved \subseteq saved'
    BY <1>5, Zenon
  <2>. QED BY <1>1, <1>6, <2>1, <2>2, Zenon DEF DiskInv, Blocks, Blank
<1>8. MemInv'
  BY <1>1, <1>4, <1>5, <1>6, Zenon DEF StoreInv, MemInv
<1>9. JobInv'
  <2>1. Snapshot(graph, vfs)' \in saved'
    BY <1>1, <1>5, Zenon DEF Snapshot
  <2>. QED BY <1>1, <1>2, <1>3, <1>5, <1>6, <2>1, Zenon DEF JobInv, InFlight
<1>10. LandedInv'
  <2>1. \A o \in DOMAIN job'.layout : job'.layout[o] \in todo'
    BY <1>1, <1>3, Zenon
  <2>. QED BY <1>1, <2>1, Zenon DEF LandedInv
<1>11. IntactInv'
  <2>. SUFFICES ASSUME intact' PROVE (ImageWhole /\ PriorMatches /\ WritesAbove /\ AckHeld)'
    BY Zenon DEF IntactInv
  <2>1. ImageWhole' /\ PriorMatches /\ AckHeld
    BY <1>6, Zenon DEF StoreInv, IntactInv
  <2>2. PriorMatches'
    BY <1>1, <1>6, <2>1, Zenon DEF PriorMatches
  <2>3. WritesAbove'
    BY <1>1, <1>3, <1>6, Zenon DEF WritesAbove
  <2>4. AckHeld'
    BY <1>1, <1>6, <2>1, Zenon DEF AckHeld
  <2>. QED BY <2>1, <2>2, <2>3, <2>4, Zenon
<1>. QED BY <1>7, <1>8, <1>9, <1>10, <1>11, Zenon DEF StoreInv

\* The save in flight, field by field.
LEMMA JobFacts ==
    ASSUME StoreInv, pc \in {"objects", "manifest", "return"}
    PROVE  /\ job \in Jobs /\ job # Nothing /\ job.layout \in Indexes /\ job.index \in Indexes
           /\ job.generation \in Nat /\ job.generation > 0
           /\ job.objects = graph /\ job.vfs_root = vfs
           /\ graph \in SUBSET Objects /\ vfs \in graph /\ vfs \in Objects
           /\ job.manifest_lba \in Nat /\ job.manifest_blocks \in Nat /\ job.manifest_blocks > 0
           /\ job.log_end \in Nat /\ job.log_end = job.manifest_lba + job.manifest_blocks
           /\ Snapshot(graph, vfs) \in saved /\ DOMAIN job.index = graph
           /\ \A o \in DOMAIN job.layout :
                /\ o \in Objects /\ o \in graph /\ job.layout[o] \in Lbas /\ job.layout[o] \in Nat
                /\ job.index[o] = job.layout[o] /\ job.layout[o] < job.manifest_lba
           /\ \A o, p \in DOMAIN job.layout : job.layout[o] = job.layout[p] => o = p
           /\ \A o \in graph \ DOMAIN job.layout :
                prior # Nothing /\ o \in DOMAIN prior.index /\ job.index[o] = prior.index[o]
           /\ InFlight => /\ BestRoot.generation \in {job.generation - 1, job.generation}
                          /\ prior # Nothing => job.generation = prior.generation + 1
<1>1. JobInv /\ MemInv /\ pc \notin {"boot", "running"}
  BY Zenon DEF StoreInv
<1>2. job \in Jobs
  BY <1>1, Zenon DEF JobInv
<1>3. /\ job.layout \in Indexes /\ job.index \in Indexes /\ job.generation \in Nat
      /\ job.manifest_lba \in Nat /\ job.manifest_blocks \in Nat /\ job.log_end \in Nat
  BY <1>2, Zenon DEF Jobs
<1>4. job # Nothing
  BY <1>2, StoreAssumption, Zenon
<1>5. graph \in SUBSET Objects /\ vfs \in graph /\ vfs \in Objects
  BY <1>1, Zenon DEF MemInv
<1>6. \A o \in DOMAIN job.layout : o \in Objects /\ job.layout[o] \in Lbas /\ job.layout[o] \in Nat
  <2>1. \A b \in Lbas : b \in Nat
    BY DEF Lbas
  <2>2. DOMAIN job.layout \in SUBSET Objects /\ \A o \in DOMAIN job.layout : job.layout[o] \in Lbas
    BY <1>3, IndexFacts, Zenon
  <2>. QED BY <2>1, <2>2, Zenon
<1>. QED BY <1>1, <1>2, <1>3, <1>4, <1>5, <1>6, Zenon DEF JobInv

\* An object block lands where nothing that is committed, and no other object, is.
LEMMA LandObjectKeeps ==
    ASSUME StoreInv, NEW o \in Objects, LandObject(o), saved' = saved, intact' \in BOOLEAN,
           intact' => intact
    PROVE  /\ StoreInv'
           /\ BestRoot' = BestRoot
           /\ intact' /\ BestRoot # NoRoot => CommittedImage' = CommittedImage
<1>1. /\ pc = "objects" /\ o \in DOMAIN job.layout /\ job.layout[o] \in todo
      /\ todo' = todo \ {job.layout[o]}
      /\ UNCHANGED <<roots, graph, vfs, prior, pc, job, savedAck>>
  BY Zenon DEF LandObject
<1>2. PICK b \in Lbas : b = job.layout[o]
  BY <1>1, JobFacts, Zenon
<1>3. arena' = [arena EXCEPT ![b] = ObjectBlock(o)]
  BY <1>2, Zenon DEF LandObject
<1>4. arena \in [Lbas -> Blocks] /\ SlotsInv /\ DiskInv
  BY Zenon DEF StoreInv, DiskInv
<1>5. ObjectBlock(o) \in Blocks
  BY Zenon DEF ObjectBlock, Blocks
<1>6. BestRoot' = BestRoot /\ SlotsInv'
  BY <1>1, <1>4, Zenon DEF BestRoot, SlotsInv
<1>7. DiskInv'
  <2>1. arena' \in [Lbas -> Blocks]
    BY <1>3, <1>4, <1>5, Zenon
  <2>. QED BY <1>1, <1>4, <1>6, <2>1, Zenon DEF DiskInv, Blocks, Blank
<1>8. MemInv'
  BY <1>1, <1>6, Zenon DEF StoreInv, MemInv
<1>9. JobInv'
  BY <1>1, <1>6, Zenon DEF StoreInv, JobInv, InFlight, Snapshot
<1>10. LandedInv'
  <2>1. ASSUME NEW p \in DOMAIN job.layout, job.layout[p] \notin todo'
        PROVE  arena'[job.layout[p]] = ObjectBlock(p)
    <3>1. CASE p = o
      BY <1>2, <1>3, <1>4, <3>1, Zenon
    <3>2. CASE p # o
      <4>1. job.layout[p] # b /\ job.layout[p] \notin todo
        BY <1>1, <1>2, <2>1, <3>2, JobFacts, Zenon
      <4>2. arena[job.layout[p]] = ObjectBlock(p)
        BY <1>1, <4>1, Zenon DEF StoreInv, LandedInv
      <4>. QED BY <1>3, <1>4, <4>1, <4>2
    <3>. QED BY <3>1, <3>2, Zenon
  <2>. QED BY <1>1, <2>1, Zenon DEF LandedInv, ObjectBlock
<1>11. ASSUME intact'
       PROVE  /\ (ImageWhole /\ PriorMatches /\ WritesAbove /\ AckHeld)'
              /\ BestRoot # NoRoot => CommittedImage' = CommittedImage
  <2>1. ImageWhole /\ PriorMatches /\ WritesAbove /\ AckHeld
    BY <1>11, Zenon DEF StoreInv, IntactInv
  <2>2. CASE BestRoot = NoRoot
    BY <1>1, <1>6, <2>1, <2>2, Zenon DEF ImageWhole, PriorMatches, WritesAbove, AckHeld, InFlight
  <2>3. CASE BestRoot # NoRoot
    <3>1. BestRoot.log_end <= b /\ DOMAIN arena = Lbas
      BY <1>1, <1>2, <1>4, <2>1, <2>3, Zenon DEF WritesAbove, InFlight
    <3>2. CommittedIndex' = CommittedIndex /\ CommittedImage' = CommittedImage /\ ImageWhole'
      BY <1>1, <1>3, <1>4, <2>1, <2>3, <3>1, WriteAbove, Zenon
    <3>. QED BY <1>1, <1>6, <2>1, <3>2, Zenon DEF PriorMatches, WritesAbove, AckHeld, InFlight
  <2>. QED BY <2>2, <2>3, Zenon
<1>. QED BY <1>6, <1>7, <1>8, <1>9, <1>10, <1>11, Zenon DEF StoreInv, IntactInv

\* A save that fails leaves the manifest of the last one.
LEMMA StopKeeps ==
    ASSUME StoreInv, InFlight, pc' = "running", job' = Nothing,
           UNCHANGED <<arena, roots, graph, vfs, prior, savedAck, saved>>,
           intact' \in BOOLEAN, intact' => intact
    PROVE  StoreInv'
<1>1. BestRoot' = BestRoot /\ CommittedIndex' = CommittedIndex /\ CommittedImage' = CommittedImage
      /\ (ImageWhole => ImageWhole') /\ (SlotsInv => SlotsInv')
  BY SameDisk, Zenon
<1>2. pc # "boot" /\ pc # "return" /\ pc' # "boot" /\ pc' # "return"
  BY Zenon DEF InFlight
<1>3. DiskInv'
  BY <1>1, Zenon DEF StoreInv, DiskInv, Blocks, Blank
<1>4. MemInv'
  BY <1>1, <1>2, Zenon DEF StoreInv, MemInv
<1>5. JobInv' /\ LandedInv'
  BY Zenon DEF JobInv, LandedInv
<1>6. IntactInv'
  BY <1>1, <1>2, Zenon DEF StoreInv, IntactInv, PriorMatches, WritesAbove, AckHeld, InFlight
<1>. QED BY <1>3, <1>4, <1>5, <1>6, Zenon DEF StoreInv

\* The manifest starts where the objects end, or is refused.
LEMMA BeginManifestKeeps ==
    ASSUME StoreInv, BeginManifest, saved' = saved, intact' \in BOOLEAN, intact' => intact
    PROVE  StoreInv'
<1>1. /\ pc = "objects" /\ todo = {} /\ InFlight
      /\ UNCHANGED <<arena, roots, graph, vfs, prior, savedAck>>
  BY Zenon DEF BeginManifest, InFlight
<1>2. CASE job.log_end > Cap
  <2>1. pc' = "running" /\ job' = Nothing
    BY <1>2, Zenon DEF BeginManifest
  <2>. QED BY <1>1, <2>1, StopKeeps, Zenon
<1>3. CASE ~(job.log_end > Cap)
  <2>1. /\ pc' = "manifest" /\ todo' = BlocksOf(job.manifest_lba, job.manifest_blocks)
        /\ job' = job
    BY <1>3, Zenon DEF BeginManifest
  <2>2. BestRoot' = BestRoot /\ CommittedIndex' = CommittedIndex /\ CommittedImage' = CommittedImage
        /\ (ImageWhole => ImageWhole') /\ (SlotsInv => SlotsInv')
    BY <1>1, SameDisk, Zenon
  <2>3. DiskInv'
    BY <1>1, <2>2, Zenon DEF StoreInv, DiskInv, Blocks, Blank
  <2>4. MemInv'
    BY <1>1, <2>1, <2>2, Zenon DEF StoreInv, MemInv
  <2>5. JobInv'
    BY <1>1, <2>1, <2>2, Zenon DEF StoreInv, JobInv, InFlight, Snapshot
  <2>6. LandedInv'
    <3>1. \A o \in DOMAIN job.layout : arena[job.layout[o]] = ObjectBlock(o)
      BY <1>1, Zenon DEF StoreInv, LandedInv
    <3>2. \A i \in 0 .. job.manifest_blocks - 1 : job.manifest_lba + i \in todo'
      BY <1>1, <2>1, JobFacts DEF BlocksOf
    <3>3. job.log_end <= Cap
      BY <1>1, <1>3, JobFacts, StoreAssumption
    <3>. QED BY <1>1, <2>1, <3>1, <3>2, <3>3, Zenon DEF LandedInv, ObjectBlock, BlocksOf
  <2>7. IntactInv'
    BY <1>1, <2>1, <2>2, Zenon DEF StoreInv, IntactInv, PriorMatches, WritesAbove, AckHeld, InFlight
  <2>. QED BY <2>3, <2>4, <2>5, <2>6, <2>7, Zenon DEF StoreInv
<1>. QED BY <1>2, <1>3, Zenon

\* A block of the manifest lands above the objects and above what is committed.
LEMMA LandManifestKeeps ==
    ASSUME StoreInv, NEW b \in Lbas, LandManifest(b), saved' = saved, intact' \in BOOLEAN,
           intact' => intact
    PROVE  /\ StoreInv'
           /\ BestRoot' = BestRoot
           /\ intact' /\ BestRoot # NoRoot => CommittedImage' = CommittedImage
<1>. DEFINE new == ManifestBlock(job.index, b - job.manifest_lba, job.manifest_blocks)
<1>1. /\ pc = "manifest" /\ b \in todo /\ todo' = todo \ {b} /\ arena' = [arena EXCEPT ![b] = new]
      /\ UNCHANGED <<roots, graph, vfs, prior, pc, job, savedAck>>
  BY Zenon DEF LandManifest
<1>2. arena \in [Lbas -> Blocks] /\ SlotsInv /\ DiskInv /\ LandedInv
  BY Zenon DEF StoreInv, DiskInv
<1>3. /\ job.manifest_lba \in Nat /\ job.manifest_blocks \in Nat /\ job.index \in Indexes
      /\ \A o \in DOMAIN job.layout : job.layout[o] \in Nat /\ job.layout[o] < job.manifest_lba
  <2>1. pc \in {"objects", "manifest", "return"}
    BY <1>1, Zenon
  <2>. QED BY <2>1, JobFacts, Zenon
<1>4. /\ todo \subseteq BlocksOf(job.manifest_lba, job.manifest_blocks)
      /\ job.log_end <= Cap
      /\ \A o \in DOMAIN job.layout : arena[job.layout[o]] = ObjectBlock(o)
      /\ \A i \in 0 .. job.manifest_blocks - 1 : job.manifest_lba + i \notin todo =>
            arena[job.manifest_lba + i] = ManifestBlock(job.index, i, job.manifest_blocks)
  BY <1>1, <1>2, Zenon DEF LandedInv
<1>5. b \in Nat /\ job.manifest_lba <= b /\ b - job.manifest_lba \in Nat
  BY <1>1, <1>3, <1>4 DEF BlocksOf, Lbas
<1>6. new \in Blocks
  BY <1>3, <1>5, Zenon DEF ManifestBlock, Blocks
<1>7. BestRoot' = BestRoot /\ SlotsInv'
  BY <1>1, <1>2, Zenon DEF BestRoot, SlotsInv
<1>8. DiskInv'
  <2>1. arena' \in [Lbas -> Blocks]
    BY <1>1, <1>2, <1>6, Zenon
  <2>. QED BY <1>1, <1>2, <1>7, <2>1 DEF DiskInv, Blocks, Blank
<1>9. MemInv'
  BY <1>1, <1>7, Zenon DEF StoreInv, MemInv
<1>10. JobInv'
  BY <1>1, <1>7, Zenon DEF StoreInv, JobInv, InFlight, Snapshot
<1>11. LandedInv'
  <2>1. ASSUME NEW o \in DOMAIN job.layout PROVE arena'[job.layout[o]] = ObjectBlock(o)
    <3>1. job.layout[o] # b
      BY <1>3, <1>5
    <3>. QED BY <1>1, <1>2, <1>4, <3>1
  <2>2. ASSUME NEW i \in 0 .. job.manifest_blocks - 1, job.manifest_lba + i \notin todo'
        PROVE  arena'[job.manifest_lba + i] = ManifestBlock(job.index, i, job.manifest_blocks)
    <3>1. CASE job.manifest_lba + i = b
      <4>1. i = b - job.manifest_lba
        BY <1>3, <1>5, <3>1
      <4>. QED BY <1>1, <1>2, <3>1, <4>1, Zenon
    <3>2. CASE job.manifest_lba + i # b
      <4>1. job.manifest_lba + i \notin todo
        BY <1>1, <2>2, <3>2, Zenon
      <4>. QED BY <1>1, <1>2, <1>4, <3>2, <4>1
    <3>. QED BY <3>1, <3>2, Zenon
  <2>3. todo' \subseteq BlocksOf(job.manifest_lba, job.manifest_blocks)
    BY <1>1, <1>4, Zenon
  <2>. QED BY <1>1, <1>4, <2>1, <2>2, <2>3, Zenon DEF LandedInv, ObjectBlock, ManifestBlock, BlocksOf
<1>12. ASSUME intact'
       PROVE  /\ (ImageWhole /\ PriorMatches /\ WritesAbove /\ AckHeld)'
              /\ BestRoot # NoRoot => CommittedImage' = CommittedImage
  <2>1. ImageWhole /\ PriorMatches /\ WritesAbove /\ AckHeld
    BY <1>12, Zenon DEF StoreInv, IntactInv
  <2>2. CASE BestRoot = NoRoot
    BY <1>1, <1>7, <2>1, <2>2, Zenon DEF ImageWhole, PriorMatches, WritesAbove, AckHeld, InFlight
  <2>3. CASE BestRoot # NoRoot
    <3>1. BestRoot.log_end \in Nat /\ BestRoot.log_end <= job.manifest_lba /\ DOMAIN arena = Lbas
      BY <1>1, <1>2, <2>1, <2>3, BestRootFacts, Zenon DEF WritesAbove, InFlight, RootRecords
    <3>2. BestRoot.log_end <= b
      BY <1>3, <1>5, <3>1
    <3>3. CommittedIndex' = CommittedIndex /\ CommittedImage' = CommittedImage /\ ImageWhole'
      BY <1>1, <1>2, <2>1, <2>3, <3>1, <3>2, WriteAbove, Zenon
    <3>. QED BY <1>1, <1>7, <2>1, <3>3, Zenon DEF PriorMatches, WritesAbove, AckHeld, InFlight
  <2>. QED BY <2>2, <2>3, Zenon
<1>. QED BY <1>7, <1>8, <1>9, <1>10, <1>11, <1>12, Zenon DEF StoreInv, IntactInv

\* Once all blocks of a save have landed, its root record describes a whole image, if
\* the objects it did not write again are where the manifest says.
LEMMA RootWhole ==
    ASSUME StoreInv, pc \in {"manifest", "return"}, todo = {},
           \A o \in graph \ DOMAIN job.layout :
               arena[job.index[o]] = ObjectBlock(o) /\ job.index[o] < job.manifest_lba
    PROVE  Whole(RootRecord, job.index)
<1>1. pc \in {"objects", "manifest", "return"}
  BY Zenon
<1>2. /\ job.index \in Indexes /\ DOMAIN job.index = graph /\ job.vfs_root = vfs /\ vfs \in graph
      /\ job.manifest_lba \in Nat /\ job.manifest_blocks \in Nat /\ job.manifest_blocks > 0
      /\ job.log_end \in Nat /\ job.log_end = job.manifest_lba + job.manifest_blocks
      /\ \A o \in DOMAIN job.layout :
            job.index[o] = job.layout[o] /\ job.layout[o] < job.manifest_lba
  BY <1>1, JobFacts, Zenon
<1>3. /\ \A o \in DOMAIN job.layout : arena[job.layout[o]] = ObjectBlock(o)
      /\ \A i \in 0 .. job.manifest_blocks - 1 :
            arena[job.manifest_lba + i] = ManifestBlock(job.index, i, job.manifest_blocks)
  BY Zenon DEF StoreInv, LandedInv
<1>4. \A o \in graph : arena[job.index[o]] = ObjectBlock(o) /\ job.index[o] < job.manifest_lba
  BY <1>2, <1>3, Zenon
<1>5. \A o \in graph : job.index[o] \in Nat
  <2>1. \A b \in Lbas : b \in Nat
    BY DEF Lbas
  <2>. QED BY <1>2, <2>1, IndexFacts, Zenon
<1>6. \A o \in graph : job.index[o] < job.log_end
  BY <1>2, <1>4, <1>5
<1>7. /\ RootRecord.vfs_root = job.vfs_root /\ RootRecord.manifest_lba = job.manifest_lba
      /\ RootRecord.manifest_blocks = job.manifest_blocks /\ RootRecord.log_end = job.log_end
  BY Zenon DEF RootRecord
<1>8. job.manifest_lba + job.manifest_blocks <= job.log_end
  BY <1>2
<1>. QED BY <1>2, <1>3, <1>4, <1>6, <1>7, <1>8, Zenon DEF Whole

\* A root record that lands is the best one, and names a namespace that was saved.
LEMMA RootLands ==
    ASSUME StoreInv, pc = "manifest", roots' = [roots EXCEPT ![job.generation % 2] = RootRecord],
           UNCHANGED <<arena, saved>>
    PROVE  /\ BestRoot' = RootRecord /\ DiskInv' /\ RootRecord # NoRoot
           /\ RootRecord \in RootRecords /\ RootRecord.generation = job.generation
<1>1. PICK r : r = RootRecord
  BY Zenon
<1>2. /\ job.generation \in Nat /\ job.generation > 0 /\ job.vfs_root = vfs /\ vfs \in Objects
      /\ job.manifest_lba \in Nat /\ job.manifest_blocks \in Nat /\ job.manifest_blocks > 0
      /\ job.log_end \in Nat /\ job.log_end = job.manifest_lba + job.manifest_blocks
      /\ Snapshot(graph, vfs) \in saved
      /\ BestRoot.generation \in {job.generation - 1, job.generation}
  <2>1. pc \in {"objects", "manifest", "return"} /\ InFlight
    BY Zenon DEF InFlight
  <2>. QED BY <2>1, JobFacts, Zenon
<1>3. job.log_end <= Cap
  BY Zenon DEF StoreInv, LandedInv
<1>4. job.manifest_lba \in Lbas
  BY <1>2, <1>3, StoreAssumption DEF Lbas
<1>5. /\ r \in RootRecords /\ r.generation = job.generation /\ r.vfs_root = vfs
  BY <1>1, <1>2, <1>4 DEF RootRecord, RootRecords
<1>6. roots' = [roots EXCEPT ![r.generation % 2] = r] /\ SlotsInv
  BY <1>1, <1>5, Zenon DEF StoreInv, DiskInv
<1>7. SlotsInv' /\ BestRoot' = r
  BY <1>2, <1>5, <1>6, NewRoot, Zenon
<1>8. \A s \in {0, 1} : roots'[s] # NoRoot => \E p \in saved : p.vfs = roots'[s].vfs_root
  <2>. SUFFICES ASSUME NEW s \in {0, 1}, roots'[s] # NoRoot
                PROVE  \E p \in saved : p.vfs = roots'[s].vfs_root
    BY Zenon
  <2>1. CASE roots'[s] = r
    <3>1. Snapshot(graph, vfs).vfs = vfs
      BY Zenon DEF Snapshot
    <3>. QED BY <1>2, <1>5, <2>1, <3>1, Zenon
  <2>2. CASE roots'[s] = roots[s]
    BY <2>2, Zenon DEF StoreInv, DiskInv
  <2>3. roots'[s] = r \/ roots'[s] = roots[s]
    BY <1>6, Zenon DEF SlotsInv
  <2>. QED BY <2>1, <2>2, <2>3, Zenon
<1>9. DiskInv'
  BY <1>7, <1>8, Zenon DEF StoreInv, DiskInv, Blocks, Blank
<1>10. r # NoRoot
  BY <1>5 DEF RootRecords, NoRoot
<1>. QED BY <1>1, <1>5, <1>7, <1>9, <1>10, Zenon

\* The commit: the image of the save in flight takes the place of the committed one.
LEMMA WriteRootKeeps ==
    ASSUME StoreInv, WriteRoot, saved' = saved, intact' \in BOOLEAN, intact' => intact
    PROVE  /\ StoreInv'
           /\ intact' => CommittedImage' = Snapshot(graph, vfs)
<1>1. /\ pc = "manifest" /\ todo = {} /\ pc' = "return" /\ InFlight
      /\ roots' = [roots EXCEPT ![job.generation % 2] = RootRecord]
      /\ UNCHANGED <<arena, graph, vfs, prior, job, todo, savedAck>>
      /\ pc \in {"objects", "manifest", "return"}
  BY Zenon DEF WriteRoot, InFlight
<1>2. /\ BestRoot' = RootRecord /\ DiskInv' /\ RootRecord # NoRoot
      /\ RootRecord \in RootRecords /\ RootRecord.generation = job.generation
  BY <1>1, RootLands, Zenon
<1>3. RootRecord' = RootRecord
  BY <1>1, Zenon DEF RootRecord
<1>4. MemInv'
  BY <1>1, Zenon DEF StoreInv, MemInv
<1>5. JobInv'
  BY <1>1, Zenon DEF StoreInv, JobInv, InFlight, Snapshot
<1>6. LandedInv'
  BY <1>1, <1>2, <1>3, Zenon DEF StoreInv, LandedInv, ObjectBlock, ManifestBlock, BlocksOf
<1>7. ASSUME intact'
      PROVE  /\ (ImageWhole /\ PriorMatches /\ WritesAbove /\ AckHeld)'
             /\ CommittedImage' = Snapshot(graph, vfs)
  <2>1. ImageWhole /\ PriorMatches /\ WritesAbove /\ AckHeld
    BY <1>7, Zenon DEF StoreInv, IntactInv
  <2>2. ASSUME NEW o \in graph \ DOMAIN job.layout
        PROVE  arena[job.index[o]] = ObjectBlock(o) /\ job.index[o] < job.manifest_lba
    <3>1. prior # Nothing /\ o \in DOMAIN prior.index /\ job.index[o] = prior.index[o]
      BY <1>1, JobFacts, Zenon
    <3>2. /\ BestRoot # NoRoot /\ prior.index = CommittedIndex
          /\ BestRoot.log_end <= job.manifest_lba
      BY <1>1, <2>1, <3>1, Zenon DEF PriorMatches, WritesAbove
    <3>3. /\ CommittedIndex \in Indexes /\ arena[CommittedIndex[o]] = ObjectBlock(o)
          /\ CommittedIndex[o] < BestRoot.log_end
      BY <2>1, <3>1, <3>2, Zenon DEF ImageWhole, Whole
    <3>4. CommittedIndex[o] \in Nat /\ BestRoot.log_end \in Nat /\ job.manifest_lba \in Nat
      BY <1>1, <3>1, <3>2, <3>3, IndexFacts, JobFacts, BestRootFacts
         DEF Lbas, RootRecords, StoreInv, DiskInv
    <3>. QED BY <3>1, <3>2, <3>3, <3>4
  <2>3. Whole(RootRecord, job.index)
    BY <1>1, <2>2, RootWhole, Zenon
  <2>4. PICK r : r = RootRecord
    BY Zenon
  <2>5. PICK x : x = job.index
    BY Zenon
  <2>6. Whole(r, x)'
    BY <1>1, <2>3, <2>4, <2>5, Zenon DEF Whole, ObjectBlock, ManifestBlock
  <2>7. SlotsInv' /\ BestRoot' = r /\ r # NoRoot
    BY <1>2, <2>4, Zenon DEF DiskInv
  <2>8. CommittedIndex' = x
    <3>1. /\ r.manifest_blocks \in Nat /\ r.manifest_blocks > 0 /\ r.manifest_lba \in Nat
      BY <1>2, <2>4 DEF RootRecords, Lbas
    <3>2. 0 \in 0 .. r.manifest_blocks - 1 /\ r.manifest_lba + 0 = r.manifest_lba
      BY <3>1
    <3>3. arena'[r.manifest_lba] = ManifestBlock(x, 0, r.manifest_blocks)
      BY <2>6, <3>2, Zenon DEF Whole, ManifestBlock
    <3>. QED BY <2>7, <3>3 DEF CommittedIndex, ManifestBlock
  <2>9. ImageWhole'
    BY <2>6, <2>7, <2>8, Zenon DEF ImageWhole
  <2>10. CommittedImage' = Snapshot(graph, vfs)
    <3>1. r.vfs_root = vfs /\ DOMAIN x = graph
      BY <1>1, <2>4, <2>5, JobFacts, Zenon DEF RootRecord
    <3>. QED BY <2>7, <2>8, <3>1, Zenon DEF CommittedImage, Snapshot
  <2>11. PriorMatches' /\ WritesAbove'
    BY <1>1, Zenon DEF PriorMatches, WritesAbove, InFlight
  <2>12. AckHeld'
    <3>1. BestRoot.generation \in Nat /\ BestRoot'.generation = BestRoot.generation + 1
      BY <1>1, <1>2, <2>1, BestRootFacts, Zenon DEF WritesAbove, StoreInv, DiskInv
    <3>2. savedAck # Nothing =>
             savedAck.generation \in Nat /\ savedAck.generation <= BestRoot.generation
      BY <2>1, Zenon DEF AckHeld, StoreInv, MemInv
    <3>. QED BY <1>1, <2>7, <3>1, <3>2 DEF AckHeld
  <2>. QED BY <2>9, <2>10, <2>11, <2>12, Zenon
<1>. QED BY <1>2, <1>4, <1>5, <1>6, <1>7, Zenon DEF StoreInv, IntactInv

\* A save that returns threads the manifest of the image it committed, which is whole
\* if the store was, or if the save wrote all of it.
LEMMA SaveReturnsKeeps ==
    ASSUME StoreInv, SaveReturns, saved' = saved, intact' \in BOOLEAN,
           intact' => intact \/ DOMAIN job.layout = job.objects
    PROVE  StoreInv'
<1>1. /\ pc = "return" /\ pc' = "running" /\ job' = Nothing
      /\ UNCHANGED <<arena, roots, graph, vfs, todo>>
      /\ pc \in {"objects", "manifest", "return"}
  BY Zenon DEF SaveReturns
<1>2. /\ prior' = [log_end |-> job.log_end, index |-> job.index, generation |-> job.generation]
      /\ savedAck' = [snapshot |-> Snapshot(job.objects, job.vfs_root),
                      generation |-> job.generation]
  BY Zenon DEF SaveReturns
<1>3. /\ prior'.log_end = job.log_end /\ prior'.index = job.index
      /\ prior'.generation = job.generation /\ savedAck'.generation = job.generation
      /\ savedAck'.snapshot = Snapshot(job.objects, job.vfs_root)
  BY <1>2, Zenon
<1>4. BestRoot' = BestRoot /\ CommittedIndex' = CommittedIndex /\ CommittedImage' = CommittedImage
      /\ (ImageWhole => ImageWhole') /\ (SlotsInv => SlotsInv')
  BY <1>1, SameDisk, Zenon
<1>5. /\ todo = {} /\ BestRoot = RootRecord /\ DiskInv /\ SlotsInv
      /\ \A i \in 0 .. job.manifest_blocks - 1 : job.manifest_lba + i \notin todo =>
            arena[job.manifest_lba + i] = ManifestBlock(job.index, i, job.manifest_blocks)
  BY <1>1, Zenon DEF StoreInv, LandedInv, DiskInv
<1>6. /\ job.index \in Indexes /\ DOMAIN job.index = graph /\ job.objects = graph
      /\ job.vfs_root = vfs /\ vfs \in graph /\ vfs \in Objects
      /\ graph \in SUBSET Objects
      /\ job.log_end \in Nat /\ job.generation \in Nat /\ job.generation > 0
      /\ job.manifest_lba \in Nat /\ job.manifest_blocks \in Nat /\ job.manifest_blocks > 0
  BY <1>1, JobFacts, Zenon
<1>7. /\ BestRoot.generation = job.generation /\ BestRoot.log_end = job.log_end
      /\ BestRoot.vfs_root = vfs /\ BestRoot.manifest_lba = job.manifest_lba
      /\ BestRoot # NoRoot
  <2>1. /\ BestRoot.generation = job.generation /\ BestRoot.log_end = job.log_end
        /\ BestRoot.vfs_root = vfs /\ BestRoot.manifest_lba = job.manifest_lba
    BY <1>5, <1>6, Zenon DEF RootRecord
  <2>. QED BY <1>6, <2>1 DEF NoRoot
<1>8. CommittedIndex = job.index
  <2>1. 0 \in 0 .. job.manifest_blocks - 1 /\ job.manifest_lba + 0 = job.manifest_lba
    BY <1>6
  <2>2. arena[job.manifest_lba] = ManifestBlock(job.index, 0, job.manifest_blocks)
    BY <1>5, <2>1, Zenon
  <2>. QED BY <1>7, <2>2 DEF CommittedIndex, ManifestBlock
<1>9. DiskInv'
  BY <1>1, <1>4, <1>5, Zenon DEF DiskInv, Blocks, Blank
<1>10. prior' \in Manifests /\ savedAck' \in [snapshot : Snapshots, generation : Nat]
  BY <1>2, <1>6, Zenon DEF Manifests, Snapshot, Snapshots
<1>11. MemInv'
  <2>1. DOMAIN prior'.index \subseteq graph
    BY <1>3, <1>6, Zenon
  <2>2. BestRoot'.generation \in {prior'.generation, prior'.generation + 1}
    BY <1>3, <1>4, <1>7, Zenon
  <2>. QED BY <1>1, <1>6, <1>10, <2>1, <2>2, Zenon DEF StoreInv, MemInv
<1>12. JobInv' /\ LandedInv'
  BY <1>1, Zenon DEF JobInv, LandedInv
<1>13. IntactInv'
  <2>. SUFFICES ASSUME intact' PROVE (ImageWhole /\ PriorMatches /\ WritesAbove /\ AckHeld)'
    BY Zenon DEF IntactInv
  <2>1. ImageWhole
    <3>1. CASE intact
      BY <3>1, Zenon DEF StoreInv, IntactInv
    <3>2. CASE DOMAIN job.layout = job.objects
      <4>1. graph \ DOMAIN job.layout = {}
        BY <1>6, <3>2, Zenon
      <4>2. Whole(RootRecord, job.index)
        BY <1>1, <1>5, <4>1, RootWhole, Zenon
      <4>. QED BY <1>5, <1>8, <4>2, Zenon DEF ImageWhole
    <3>. QED BY <3>1, <3>2, Zenon
  <2>2. PriorMatches'
    BY <1>3, <1>4, <1>7, <1>8, Zenon DEF PriorMatches
  <2>3. WritesAbove'
    BY <1>1, Zenon DEF WritesAbove, InFlight
  <2>4. CommittedImage = Snapshot(graph, vfs)
    BY <1>6, <1>7, <1>8, Zenon DEF CommittedImage
  <2>5. AckHeld'
    BY <1>3, <1>4, <1>6, <1>7, <2>4 DEF AckHeld
  <2>. QED BY <1>4, <2>1, <2>2, <2>3, <2>5, Zenon
<1>. QED BY <1>9, <1>11, <1>12, <1>13, Zenon DEF StoreInv

\* A root that lands behind the store's back is one generation above its manifest.
LEMMA RootTimesOutKeeps ==
    ASSUME StoreInv, RootTimesOut, saved' = saved, intact' = FALSE
    PROVE  StoreInv'
<1>1. /\ pc = "manifest" /\ todo = {} /\ pc' = "running" /\ job' = Nothing /\ InFlight
      /\ roots' = [roots EXCEPT ![job.generation % 2] = RootRecord]
      /\ UNCHANGED <<arena, graph, vfs, prior, todo, savedAck>>
      /\ pc \in {"objects", "manifest", "return"}
  BY Zenon DEF RootTimesOut, InFlight
<1>2. BestRoot' = RootRecord /\ DiskInv' /\ RootRecord.generation = job.generation
  BY <1>1, RootLands, Zenon
<1>3. prior # Nothing => BestRoot'.generation = prior.generation + 1
  BY <1>1, <1>2, JobFacts, Zenon
<1>4. MemInv'
  BY <1>1, <1>3, Zenon DEF StoreInv, MemInv
<1>5. JobInv' /\ LandedInv' /\ IntactInv'
  BY <1>1, Zenon DEF JobInv, LandedInv, IntactInv
<1>. QED BY <1>2, <1>4, <1>5, Zenon DEF StoreInv

\* Power loss forgets what was in memory, and at most tears the root being written.
LEMMA PowerLossKeeps ==
    ASSUME StoreInv, PowerLoss, saved' = saved, intact' \in BOOLEAN, intact' => intact
    PROVE  /\ StoreInv'
           /\ intact' => BestRoot' = BestRoot /\ CommittedImage' = CommittedImage
<1>1. /\ pc # "boot" /\ pc' = "boot" /\ graph' = {Seed} /\ vfs' = Seed /\ prior' = Nothing
      /\ job' = Nothing /\ todo' = {} /\ UNCHANGED <<arena, savedAck>>
  BY Zenon DEF PowerLoss
<1>2. DiskInv /\ SlotsInv
  BY Zenon DEF StoreInv, DiskInv
<1>3. /\ SlotsInv' /\ (intact' => BestRoot' = BestRoot)
      /\ \A s \in {0, 1} : roots'[s] \in {roots[s], NoRoot}
  <2>1. CASE roots' = roots
    BY <1>2, <2>1, Zenon DEF BestRoot, SlotsInv
  <2>2. CASE /\ pc = "manifest" /\ todo = {}
             /\ roots' = [roots EXCEPT ![job.generation % 2] = NoRoot]
    <3>1. job.generation \in Nat /\ InFlight
      BY <2>2, JobFacts, Zenon DEF InFlight
    <3>2. intact' => job.generation = BestRoot.generation + 1
      BY <3>1, Zenon DEF StoreInv, IntactInv, WritesAbove
    <3>3. SlotsInv' /\ (job.generation = BestRoot.generation + 1 => BestRoot' = BestRoot)
      BY <1>2, <2>2, <3>1, TornRoot, Zenon
    <3>4. \A s \in {0, 1} : roots'[s] \in {roots[s], NoRoot}
      BY <1>2, <2>2, Zenon DEF SlotsInv
    <3>. QED BY <3>2, <3>3, <3>4, Zenon
  <2>. QED BY <2>1, <2>2, Zenon DEF PowerLoss
<1>4. DiskInv'
  BY <1>1, <1>2, <1>3, Zenon DEF DiskInv, Blocks, Blank
<1>5. MemInv'
  BY <1>1, StoreAssumption, Zenon DEF StoreInv, MemInv
<1>6. JobInv' /\ LandedInv'
  BY <1>1, Zenon DEF JobInv, LandedInv
<1>7. ASSUME intact'
      PROVE  /\ (ImageWhole /\ PriorMatches /\ WritesAbove /\ AckHeld)'
             /\ BestRoot' = BestRoot /\ CommittedImage' = CommittedImage
  <2>1. BestRoot' = BestRoot /\ CommittedIndex' = CommittedIndex
    BY <1>1, <1>3, <1>7, Zenon DEF CommittedIndex
  <2>2. CommittedImage' = CommittedImage
    BY <2>1, Zenon DEF CommittedImage, Snapshot
  <2>3. ImageWhole /\ AckHeld
    BY <1>7, Zenon DEF StoreInv, IntactInv
  <2>4. ImageWhole'
    BY <1>1, <2>1, <2>3, Zenon DEF ImageWhole, Whole, ObjectBlock, ManifestBlock
  <2>5. PriorMatches' /\ WritesAbove'
    BY <1>1, Zenon DEF PriorMatches, WritesAbove, InFlight
  <2>6. AckHeld'
    BY <1>1, <2>1, <2>2, <2>3, Zenon DEF AckHeld
  <2>. QED BY <2>1, <2>2, <2>4, <2>5, <2>6, Zenon
<1>. QED BY <1>4, <1>5, <1>6, <1>7, Zenon DEF StoreInv, IntactInv

\* Stuttering keeps the invariant.
LEMMA StoreInvStutter == StoreInv /\ UNCHANGED allVars => StoreInv'
<1>. SUFFICES ASSUME StoreInv, UNCHANGED allVars PROVE StoreInv'
  BY Zenon
<1>1. UNCHANGED <<arena, roots, graph, vfs, prior, pc, job, todo, savedAck, saved, intact>>
  BY Zenon DEF allVars, storeVars
<1>2. BestRoot' = BestRoot /\ CommittedIndex' = CommittedIndex /\ CommittedImage' = CommittedImage
      /\ (ImageWhole => ImageWhole') /\ (SlotsInv => SlotsInv')
  BY <1>1, SameDisk, Zenon
<1>3. DiskInv'
  BY <1>1, <1>2, Zenon DEF StoreInv, DiskInv, Blocks, Blank
<1>4. MemInv'
  BY <1>1, <1>2, Zenon DEF StoreInv, MemInv
<1>5. JobInv'
  BY <1>1, <1>2, Zenon DEF StoreInv, JobInv, InFlight, Snapshot
<1>6. LandedInv'
  BY <1>1, <1>2, Zenon DEF StoreInv, LandedInv, RootRecord, ObjectBlock, ManifestBlock, BlocksOf
<1>7. IntactInv'
  BY <1>1, <1>2, Zenon DEF StoreInv, IntactInv, PriorMatches, WritesAbove, InFlight, AckHeld
<1>. QED BY <1>3, <1>4, <1>5, <1>6, <1>7, Zenon DEF StoreInv

\* While saves append, what a boot restores is the committed image.
LEMMA CommittedRestores ==
    ASSUME StoreInv, intact
    PROVE  /\ SlotsInv /\ BestRoot.generation \in Nat
           /\ BestRoot = NoRoot => Restored = Nothing
           /\ BestRoot # NoRoot =>
                /\ Restored = CommittedImage /\ Restored # Nothing /\ Restored \in Snapshots
<1>1. SlotsInv /\ ImageWhole
  BY Zenon DEF StoreInv, DiskInv, IntactInv
<1>2. ASSUME BestRoot # NoRoot
      PROVE  Restored = CommittedImage /\ Restored # Nothing /\ Restored \in Snapshots
  BY <1>1, <1>2, WholeLoads, Zenon DEF ImageWhole, CommittedImage
<1>. QED BY <1>1, <1>2, NoRootLoadsNothing, BestRootFacts, Zenon

\* The image and the save in flight as the abstract store sees them.
ImageNow ==
    IF Restored = Nothing THEN Nothing
    ELSE [value |-> Restored, generation |-> BestRoot.generation]

ImagePending == IF InFlight THEN Snapshot(job.objects, job.vfs_root) ELSE Nothing

LEMMA ImageSteps ==
    /\ ImagePending = Nothing /\ ImagePending' \in Snapshots /\ ImageNow' = ImageNow => Image!Request
    /\ ImagePending # Nothing /\ ImagePending' = Nothing
          /\ ImageNow' = [value |-> ImagePending,
                          generation |-> (IF ImageNow = Nothing THEN 0 ELSE ImageNow.generation) + 1]
       => Image!TakeEffect
    /\ ImagePending # Nothing /\ ImagePending' = Nothing /\ ImageNow' = ImageNow => Image!Abandon
    /\ ImagePending' = ImagePending /\ ImageNow' = ImageNow => UNCHANGED Image!absVars
<1>. USE DEF ImagePending, ImageNow, InFlight
<1>1. ImagePending = Nothing /\ ImagePending' \in Snapshots /\ ImageNow' = ImageNow => Image!Request
  BY Zenon DEF Image!Request
<1>2. ImagePending # Nothing /\ ImagePending' = Nothing
          /\ ImageNow' = [value |-> ImagePending,
                          generation |-> (IF ImageNow = Nothing THEN 0 ELSE ImageNow.generation) + 1]
       => Image!TakeEffect
  BY Zenon DEF Image!TakeEffect, Image!CurrentGen
<1>3. ImagePending # Nothing /\ ImagePending' = Nothing /\ ImageNow' = ImageNow => Image!Abandon
  BY Zenon DEF Image!Abandon
<1>4. ImagePending' = ImagePending /\ ImageNow' = ImageNow => UNCHANGED Image!absVars
  BY Zenon DEF Image!absVars
<1>. QED BY <1>1, <1>2, <1>3, <1>4, Zenon

\* While saves append, the abstract store holds the committed image.
ImageIsCommitted ==
    intact => /\ BestRoot.generation \in Nat
              /\ BestRoot = NoRoot => ImageNow = Nothing /\ BestRoot.generation = 0
              /\ BestRoot # NoRoot =>
                   /\ ImageNow = [value |-> CommittedImage, generation |-> BestRoot.generation]
                   /\ ImageNow # Nothing /\ ImageNow.generation = BestRoot.generation

LEMMA ImageCommitted == StoreInv => ImageIsCommitted
<1>. SUFFICES ASSUME StoreInv, intact PROVE ImageIsCommitted
  BY Zenon DEF ImageIsCommitted
<1>1. CASE BestRoot = NoRoot
  BY <1>1, CommittedRestores, Zenon DEF ImageIsCommitted, ImageNow, NoRoot
<1>2. CASE BestRoot # NoRoot
  <2>1. ImageNow = [value |-> CommittedImage, generation |-> BestRoot.generation]
    BY <1>2, CommittedRestores, Zenon DEF ImageNow
  <2>2. ImageNow \in [value : Snapshots, generation : Nat]
    BY <1>2, <2>1, CommittedRestores, Zenon
  <2>3. ImageNow # Nothing
    BY <2>2, StoreAssumption, Zenon
  <2>4. ImageNow.generation = BestRoot.generation
    BY <2>1, Zenon
  <2>. QED BY <1>2, <2>1, <2>3, <2>4, CommittedRestores, Zenon DEF ImageIsCommitted
<1>. QED BY <1>1, <1>2, Zenon

LEMMA ImageKept ==
    ASSUME ImageIsCommitted, ImageIsCommitted', intact, intact', BestRoot' = BestRoot,
           BestRoot # NoRoot => CommittedImage' = CommittedImage
    PROVE  ImageNow' = ImageNow
  BY DEF ImageIsCommitted, NoRoot

\* Steps that leave the device alone leave the image alone.
LEMMA ImageSameDisk == UNCHANGED <<arena, roots>> => ImageNow' = ImageNow
<1>. SUFFICES ASSUME UNCHANGED <<arena, roots>> PROVE ImageNow' = ImageNow
  BY Zenon
<1>1. BestRoot' = BestRoot /\ Restored' = Restored
  BY SameDisk, Zenon
<1>. QED BY <1>1, Zenon DEF ImageNow

\* A save that starts is a request, and its image is pending until its root lands.
LEMMA PendingFacts ==
    ASSUME StoreInv
    PROVE  /\ InFlight => /\ ImagePending = Snapshot(graph, vfs) /\ ImagePending # Nothing
                          /\ job # Nothing
           /\ ~InFlight => ImagePending = Nothing
<1>1. ASSUME InFlight
      PROVE  ImagePending = Snapshot(graph, vfs) /\ ImagePending # Nothing /\ job # Nothing
  <2>1. /\ job.objects = graph /\ job.vfs_root = vfs /\ job # Nothing
        /\ graph \in SUBSET Objects /\ vfs \in Objects
    BY <1>1, JobFacts, Zenon DEF InFlight
  <2>2. ImagePending = Snapshot(graph, vfs)
    BY <1>1, <2>1, Zenon DEF ImagePending
  <2>3. Snapshot(graph, vfs) \in Snapshots
    BY <2>1, Zenon DEF Snapshot, Snapshots
  <2>. QED BY <2>1, <2>2, <2>3, StoreAssumption, Zenon
<1>2. ~InFlight => ImagePending = Nothing
  BY Zenon DEF ImagePending
<1>. QED BY <1>1, <1>2, Zenon

LEMMA StartRequests ==
    ASSUME StoreInv, pc = "running", NEW gen, NEW layout, NEW index, NEW mlba, NEW mb,
           StartWrites(gen, layout, index, mlba, mb)
    PROVE  Image!Request
<1>1. /\ job'.objects = graph /\ job'.vfs_root = vfs /\ pc' = "objects"
      /\ UNCHANGED <<arena, roots>>
  BY Zenon DEF StartWrites
<1>2. ImagePending' = Snapshot(graph, vfs)
  BY <1>1, Zenon DEF ImagePending, InFlight, Snapshot
<1>3. Snapshot(graph, vfs) \in Snapshots
  BY Zenon DEF StoreInv, MemInv, Snapshot, Snapshots
<1>4. ImagePending = Nothing
  BY PendingFacts, Zenon DEF InFlight
<1>. QED BY <1>1, <1>2, <1>3, <1>4, ImageSameDisk, ImageSteps, Zenon

\* The root record that lands commits the pending image, one generation up.
LEMMA RootTakesEffect ==
    ASSUME StoreInv, ImageIsCommitted, ImageIsCommitted', intact, intact', WriteRoot, saved' = saved
    PROVE  Image!TakeEffect
<1>1. /\ pc = "manifest" /\ pc' = "return" /\ InFlight /\ ~InFlight'
      /\ roots' = [roots EXCEPT ![job.generation % 2] = RootRecord] /\ UNCHANGED arena
  BY Zenon DEF WriteRoot, InFlight
<1>2. BestRoot' = RootRecord /\ RootRecord # NoRoot /\ RootRecord.generation = job.generation
  BY <1>1, RootLands, Zenon
<1>3. CommittedImage' = Snapshot(graph, vfs)
  BY WriteRootKeeps, Zenon
<1>4. job.generation = BestRoot.generation + 1
  BY <1>1, Zenon DEF StoreInv, IntactInv, WritesAbove
<1>5. BestRoot'.generation = BestRoot.generation + 1 /\ BestRoot' # NoRoot'
  BY <1>2, <1>4, Zenon DEF NoRoot
<1>6. ImageNow' = [value |-> Snapshot(graph, vfs), generation |-> BestRoot.generation + 1]
  BY <1>3, <1>5, Zenon DEF ImageIsCommitted
<1>7. (IF ImageNow = Nothing THEN 0 ELSE ImageNow.generation) = BestRoot.generation
  BY Zenon DEF ImageIsCommitted
<1>8. ImagePending = Snapshot(graph, vfs) /\ ImagePending # Nothing /\ ImagePending' = Nothing
  BY <1>1, PendingFacts, Zenon DEF ImagePending
<1>. QED BY <1>6, <1>7, <1>8, ImageSteps, Zenon

LEMMA StoreRefines ==
    ASSUME StoreInv, ImageIsCommitted, ImageIsCommitted', NextAppend, SavesNoted, intact, intact'
    PROVE  Image!Request \/ Image!TakeEffect \/ Image!Abandon \/ UNCHANGED Image!absVars
<1>1. job # Nothing \/ job' = Nothing => saved' = saved
  BY Zenon DEF SavesNoted
<1>2. intact' \in BOOLEAN /\ (intact' => intact)
  BY Zenon DEF ImageIsCommitted, StoreInv, MemInv
<1>3. CASE Boot \/ BootFault \/ SaveReturns \/ \E o \in Objects : Edit(o)
  <2>1. UNCHANGED <<arena, roots>> /\ ~InFlight /\ ~InFlight'
    BY <1>3, Zenon DEF Boot, BootFault, SaveReturns, Edit, InFlight
  <2>2. ImagePending = Nothing /\ ImagePending' = Nothing
    BY <2>1, Zenon DEF ImagePending
  <2>. QED BY <2>1, <2>2, ImageSameDisk, ImageSteps, Zenon
<1>4. ASSUME NEW mb \in ManifestSizes, SaveAppend(mb) \/ SaveFull(mb) PROVE Image!Request
  BY <1>4, StartRequests, Zenon DEF SaveAppend, SaveFull
<1>5. ASSUME BestRoot' = BestRoot, BestRoot # NoRoot => CommittedImage' = CommittedImage,
             UNCHANGED <<pc, job>>
      PROVE  UNCHANGED Image!absVars
  <2>1. ImagePending' = ImagePending
    BY <1>5, Zenon DEF ImagePending, InFlight, Snapshot
  <2>. QED BY <1>5, <2>1, ImageKept, ImageSteps, Zenon
<1>6. ASSUME NEW o \in Objects, LandObject(o) PROVE UNCHANGED Image!absVars
  <2>1. pc = "objects" /\ UNCHANGED <<pc, job>> /\ job # Nothing
    BY <1>6, PendingFacts, Zenon DEF LandObject, InFlight
  <2>. QED BY <1>1, <1>2, <1>5, <1>6, <2>1, LandObjectKeeps, Zenon
<1>7. ASSUME NEW b \in Lbas, LandManifest(b) PROVE UNCHANGED Image!absVars
  <2>1. pc = "manifest" /\ UNCHANGED <<pc, job>> /\ job # Nothing
    BY <1>7, PendingFacts, Zenon DEF LandManifest, InFlight
  <2>. QED BY <1>1, <1>2, <1>5, <1>7, <2>1, LandManifestKeeps, Zenon
<1>8. CASE BeginManifest
  <2>1. UNCHANGED <<arena, roots>> /\ InFlight
    BY <1>8, Zenon DEF BeginManifest, InFlight
  <2>2. CASE pc' = "running"
    BY <2>1, <2>2, ImageSameDisk, PendingFacts, ImageSteps, Zenon DEF ImagePending, InFlight
  <2>3. CASE pc' = "manifest" /\ UNCHANGED job
    <3>1. ImagePending' = ImagePending
      BY <2>1, <2>3, Zenon DEF ImagePending, InFlight, Snapshot
    <3>. QED BY <2>1, <3>1, ImageSameDisk, ImageSteps, Zenon
  <2>. QED BY <1>8, <2>2, <2>3, Zenon DEF BeginManifest
<1>9. CASE WriteRoot
  <2>1. job # Nothing
    BY <1>9, PendingFacts, Zenon DEF WriteRoot, InFlight
  <2>. QED BY <1>1, <1>9, <2>1, RootTakesEffect, Zenon
<1>10. CASE DeviceFault
  <2>1. UNCHANGED <<arena, roots>> /\ InFlight /\ ~InFlight'
    BY <1>10, Zenon DEF DeviceFault, InFlight
  <2>. QED BY <2>1, ImageSameDisk, PendingFacts, ImageSteps, Zenon DEF ImagePending
<1>11. CASE PowerLoss
  <2>1. job' = Nothing /\ ~InFlight'
    BY <1>11, Zenon DEF PowerLoss, InFlight
  <2>2. BestRoot' = BestRoot /\ CommittedImage' = CommittedImage
    BY <1>1, <1>2, <1>11, <2>1, PowerLossKeeps, Zenon
  <2>3. ImageNow' = ImageNow /\ ImagePending' = Nothing
    BY <2>1, <2>2, ImageKept, Zenon DEF ImagePending
  <2>. QED BY <2>3, PendingFacts, ImageSteps, Zenon
<1>. QED BY <1>3, <1>4, <1>6, <1>7, <1>8, <1>9, <1>10, <1>11, Zenon DEF NextAppend
==============================================================================
