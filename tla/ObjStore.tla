------------------------------ MODULE ObjStore ------------------------------
(***************************************************************************)
(* The incremental on-disk object store (dominion-core/src/objstore.rs) as  *)
(* the filesystem drives it (filesystem.rs persist_to / restore_from).      *)
(*                                                                          *)
(* The device holds two root slots and an arena.  A save appends the        *)
(* objects the last manifest does not know, then a manifest, then writes    *)
(* the root record of the new generation into the slot of its parity.  When *)
(* dead space has piled up, or an append may not fit, it rewrites the whole *)
(* arena in place instead (compaction).                                     *)
(*                                                                          *)
(* Blocks of one write_blocks call may land in any order (the virtio driver *)
(* pipelines them); a later call starts only when the earlier one returned. *)
(* An object is one block.  A manifest is its id -> LBA index; head and      *)
(* commit history are rewritten with it and are not told apart from it.     *)
(***************************************************************************)
EXTENDS Integers, FiniteSets

CONSTANTS
    Objects,         \* object ids, a set of naturals (the code sorts by id)
    Refs,            \* the objects each object's fields refer to: its id is the hash
                     \* of its content, so they never change
    Seed,            \* the object a freshly seeded filesystem starts from
    Cap,             \* blocks in the arena (LBAs are relative to data_start)
    ManifestSizes,   \* possible encoded sizes of a manifest, in blocks
    EstManifest,     \* manifest_size's estimate, in blocks
    DeadLimit,       \* COMPACT_DEAD_BLOCKS
    MaxSaves,        \* bound on the generation
    Nothing

Lbas == 0 .. Cap - 1

\* An id -> LBA index, and what a save is given: the ids in the graph and that of
\* the namespace's root.
Indexes == UNION {[S -> Lbas] : S \in SUBSET Objects}
Snapshots == [objects : SUBSET Objects, vfs : Objects]

\* The Manifest threaded from save to save, and a save in flight.
Manifests == [log_end : Nat, index : Indexes, generation : Nat]
Jobs == [generation : Nat, vfs_root : Objects, objects : SUBSET Objects,
         layout : Indexes, index : Indexes,
         manifest_lba : Nat, manifest_blocks : Nat, log_end : Nat]

ASSUME StoreAssumption ==
    /\ Objects \subseteq Nat /\ IsFiniteSet(Objects)
    /\ Refs \in [Objects -> SUBSET Objects]
    /\ Seed \in Objects /\ Refs[Seed] \subseteq {Seed}
    /\ Cap \in Nat
    /\ ManifestSizes \subseteq Nat \ {0}
    /\ Nothing \notin Indexes \cup Snapshots \cup Manifests \cup Jobs
    /\ Nothing \notin [snapshot : Snapshots, generation : Nat]
    /\ Nothing \notin [value : Snapshots, generation : Nat]

VARIABLES
    arena,    \* LBA -> the block's content
    roots,    \* the two root slots
    graph,    \* ids stored in the in-memory object graph
    vfs,      \* id of the namespace root object
    prior,    \* Manifest threaded from the last load or save, or Nothing
    pc,       \* where the save in flight is
    job,      \* the save in flight
    todo,     \* LBAs of the current write_blocks call that have not landed
    savedAck  \* [snapshot, generation] of the last save that returned Ok, or Nothing

storeVars == <<arena, roots, graph, vfs, prior, pc, job, todo, savedAck>>

\* What a block of the arena can hold: nothing valid, an object, a manifest.
Blank == [kind |-> "blank"]
ObjectBlock(o) == [kind |-> "object", id |-> o]
ManifestBlock(index, part, parts) ==
    [kind |-> "manifest", index |-> index, part |-> part, parts |-> parts]

\* A slot without a root record whose magic and hash check out.
NoRoot == [generation |-> 0]

Snapshot(g, v) == [objects |-> g, vfs |-> v]

\* read_root: the valid slot of the highest generation.
BestRoot ==
    IF roots[0].generation >= roots[1].generation THEN roots[0] ELSE roots[1]

BlocksOf(lba, n) == lba .. lba + n - 1

\* The blocks a root counts for its manifest go on, one after the other, as the
\* first one begins; what follows the end of a manifest is not read.
InOnePiece(root) ==
    LET first == arena[root.manifest_lba]
    IN  \A i \in 0 .. root.manifest_blocks - 1 : i < first.parts =>
           arena[root.manifest_lba + i] = ManifestBlock(first.index, i, first.parts)

StartsManifest(block) == block.kind = "manifest" /\ block.part = 0

\* decode_manifest of a manifest in one piece, and not cut short by the root's count.
ReadManifest(root) ==
    LET first == arena[root.manifest_lba]
    IN  IF StartsManifest(first) /\ InOnePiece(root) /\ first.parts <= root.manifest_blocks
        THEN first.index
        ELSE Nothing

\* decode_manifest of blocks that a rewrite cut short left over from several
\* manifests.  Only the magic is checked ("The manifest is NOT integrity-protected"),
\* so it may come out as an index with any of their entries, or as none.
TornIndexes(root) ==
    {x \in Indexes :
        /\ StartsManifest(arena[root.manifest_lba]) /\ ~InOnePiece(root)
        /\ \A o \in DOMAIN x :
             \E b \in Lbas \cap BlocksOf(root.manifest_lba, root.manifest_blocks) :
                /\ arena[b].kind = "manifest"
                /\ o \in DOMAIN arena[b].index /\ arena[b].index[o] = x[o]}

\* What a load may find as the index of the committed root, and what it finds if
\* the manifest is in one piece.
WholeIndex == IF BestRoot = NoRoot THEN Nothing ELSE ReadManifest(BestRoot)
Decoded ==
    IF BestRoot = NoRoot \/ WholeIndex # Nothing THEN {WholeIndex}
    ELSE {Nothing} \cup TornIndexes(BestRoot)

\* Mutant: load trusts the index without checking content ids.
LoadNoHash(index) ==
    IF index = Nothing THEN Nothing
    ELSE Snapshot({o \in DOMAIN index : arena[index[o]] = ObjectBlock(o)}, BestRoot.vfs_root)

\* ObjStore::load with this index: Nothing unless every indexed object is there; an
\* object is accepted only under its own content id.
LoadImage(index) ==
    IF index = Nothing \/ \E o \in DOMAIN index : arena[index[o]] # ObjectBlock(o)
    THEN Nothing
    ELSE Snapshot(DOMAIN index, BestRoot.vfs_root)

\* FileSystem::restore_from: LoadImage, and a namespace root found among the objects.
RestoreFrom(index) ==
    LET snap == LoadImage(index)
    IN  IF snap # Nothing /\ snap.vfs \in snap.objects THEN snap ELSE Nothing

\* What a boot restores from a manifest in one piece.
Restored == RestoreFrom(WholeIndex)

\* Objects laid out from `start` in id order, one block each.
Layout(objs, start) == [o \in objs |-> start + Cardinality({p \in objs : p < o})]

Merge(f, g) == [o \in DOMAIN f \cup DOMAIN g |-> IF o \in DOMAIN g THEN g[o] ELSE f[o]]
-----------------------------------------------------------------------------
StoreInit ==
    /\ arena = [b \in Lbas |-> Blank]
    /\ roots = [s \in {0, 1} |-> NoRoot]
    /\ graph = {Seed} /\ vfs = Seed
    /\ prior = Nothing
    /\ pc = "boot"
    /\ job = Nothing
    /\ todo = {}
    /\ savedAck = Nothing

\* restore_from at boot: adopt the image, or keep the seeded filesystem and no
\* manifest when there is none (or it does not reconstruct).
Boot ==
    /\ pc = "boot"
    /\ pc' = "running"
    /\ \E index \in Decoded :
          LET snap == RestoreFrom(index) IN
          IF snap = Nothing
          THEN graph' = {Seed} /\ vfs' = Seed /\ prior' = Nothing
          ELSE /\ graph' = snap.objects
               /\ vfs' = snap.vfs
               /\ prior' = [log_end |-> BestRoot.log_end, index |-> index,
                            generation |-> BestRoot.generation]
    /\ UNCHANGED <<arena, roots, job, todo, savedAck>>

\* A device fault while the image is read: os.rs restore_fs_from takes it for
\* no image, so the session starts from the seeded filesystem and no manifest.
BootFault ==
    /\ pc = "boot"
    /\ pc' = "running"
    /\ graph' = {Seed} /\ vfs' = Seed /\ prior' = Nothing
    /\ UNCHANGED <<arena, roots, job, todo, savedAck>>

\* A file operation: a namespace object is put in the graph, if it is not there,
\* whose files and directories are there already.  No object is ever removed.
Edit(o) ==
    /\ pc = "running"
    /\ Refs[o] \subseteq graph
    /\ graph' = graph \cup {o}
    /\ vfs' = o
    /\ UNCHANGED <<arena, roots, prior, pc, job, todo, savedAck>>

\* The first write_blocks call of write_append or write_full: `fresh` objects
\* at the LBAs of `layout`, `index` in the manifest to follow at `mlba`.
StartWrites(gen, layout, index, mlba, mb) ==
    /\ gen <= MaxSaves
    /\ job' = [generation |-> gen, vfs_root |-> vfs, objects |-> graph,
               layout |-> layout, index |-> index,
               manifest_lba |-> mlba, manifest_blocks |-> mb,
               log_end |-> mlba + mb]
    /\ todo' = {layout[o] : o \in DOMAIN layout}
    /\ pc' = "objects"
    /\ UNCHANGED <<arena, roots, graph, vfs, prior, savedAck>>

Fresh == graph \ DOMAIN prior.index

\* Dead space and space estimates of ObjStore::save.
MustCompact ==
    LET live == Cardinality(DOMAIN prior.index) + Cardinality(Fresh)
    IN  \/ prior.log_end - live > DeadLimit
        \/ prior.log_end + Cardinality(Fresh) + EstManifest > Cap

\* Mutant: the append starts one block early, on the committed manifest.
SaveAppendOverlap(mb) ==
    /\ pc = "running"
    /\ prior # Nothing
    /\ ~MustCompact
    /\ LET layout == Layout(Fresh, prior.log_end - 1)
           mlba   == prior.log_end - 1 + Cardinality(Fresh)
       IN  StartWrites(prior.generation + 1, layout, Merge(prior.index, layout), mlba, mb)

\* save with a manifest of this store, and room: write_append.  A layout that
\* ends beyond the device is refused before anything is written.
SaveAppend(mb) ==
    /\ pc = "running"
    /\ prior # Nothing
    /\ ~MustCompact
    /\ LET layout == Layout(Fresh, prior.log_end)
           mlba   == prior.log_end + Cardinality(Fresh)
       IN  /\ mlba <= Cap
           /\ StartWrites(prior.generation + 1, layout, Merge(prior.index, layout), mlba, mb)

\* save with a manifest of this store, but dead space or no room: write_full,
\* over the arena the committed root points into.
SaveCompact(mb) ==
    /\ pc = "running"
    /\ prior # Nothing
    /\ MustCompact
    /\ Cardinality(graph) <= Cap
    /\ LET layout == Layout(graph, 0)
       IN  StartWrites(prior.generation + 1, layout, layout, Cardinality(graph), mb)

\* save without a manifest: write_full, at the generation after the one on disk.
SaveFull(mb) ==
    /\ pc = "running"
    /\ prior = Nothing
    /\ Cardinality(graph) <= Cap
    /\ LET layout == Layout(graph, 0)
       IN  StartWrites(BestRoot.generation + 1, layout, layout, Cardinality(graph), mb)

\* One object block of the call lands.
LandObject(o) ==
    /\ pc = "objects"
    /\ o \in DOMAIN job.layout
    /\ job.layout[o] \in todo
    /\ arena' = [arena EXCEPT ![job.layout[o]] = ObjectBlock(o)]
    /\ todo' = todo \ {job.layout[o]}
    /\ UNCHANGED <<roots, graph, vfs, prior, pc, job, savedAck>>

\* The objects are written; write_manifest_and_root refuses a manifest that does
\* not fit (Full), or starts writing it.
BeginManifest ==
    /\ pc = "objects"
    /\ todo = {}
    /\ IF job.log_end > Cap
       THEN /\ pc' = "running" /\ job' = Nothing /\ todo' = {}
       ELSE /\ pc' = "manifest"
            /\ todo' = BlocksOf(job.manifest_lba, job.manifest_blocks)
            /\ UNCHANGED job
    /\ UNCHANGED <<arena, roots, graph, vfs, prior, savedAck>>

LandManifest(b) ==
    /\ pc = "manifest"
    /\ b \in todo
    /\ arena' = [arena EXCEPT ![b] =
           ManifestBlock(job.index, b - job.manifest_lba, job.manifest_blocks)]
    /\ todo' = todo \ {b}
    /\ UNCHANGED <<roots, graph, vfs, prior, pc, job, savedAck>>

RootRecord ==
    [generation |-> job.generation, vfs_root |-> job.vfs_root,
     manifest_lba |-> job.manifest_lba, manifest_blocks |-> job.manifest_blocks,
     log_end |-> job.log_end]

\* Mutant: the root record does not wait for the manifest.
WriteRootEarly ==
    /\ pc = "manifest"
    /\ roots' = [roots EXCEPT ![job.generation % 2] = RootRecord]
    /\ pc' = "return"
    /\ UNCHANGED <<arena, graph, vfs, prior, job, todo, savedAck>>

\* The root record lands in the slot of the generation's parity.
WriteRoot ==
    /\ pc = "manifest"
    /\ todo = {}
    /\ roots' = [roots EXCEPT ![job.generation % 2] = RootRecord]
    /\ pc' = "return"
    /\ UNCHANGED <<arena, graph, vfs, prior, job, todo, savedAck>>

\* save returns Ok: the new manifest is threaded into the next save.
SaveReturns ==
    /\ pc = "return"
    /\ prior' = [log_end |-> job.log_end, index |-> job.index,
                 generation |-> job.generation]
    /\ savedAck' = [snapshot |-> Snapshot(job.objects, job.vfs_root),
                 generation |-> job.generation]
    /\ pc' = "running"
    /\ job' = Nothing
    /\ UNCHANGED <<arena, roots, graph, vfs, todo>>

\* The device fails one of the calls: save returns Err, and the old manifest is
\* kept.  Blocks that landed stay.
DeviceFault ==
    /\ pc \in {"objects", "manifest"}
    /\ pc' = "running"
    /\ job' = Nothing
    /\ todo' = {}
    /\ UNCHANGED <<arena, roots, graph, vfs, prior, savedAck>>

\* The driver gives up on the root write and reports a fault, but the device
\* finishes it: the new root is on disk, and the old manifest is kept.
RootTimesOut ==
    /\ pc = "manifest"
    /\ todo = {}
    /\ roots' = [roots EXCEPT ![job.generation % 2] = RootRecord]
    /\ pc' = "running"
    /\ job' = Nothing
    /\ UNCHANGED <<arena, graph, vfs, prior, todo, savedAck>>

\* Power loss.  During the root write the slot may be torn: its hash fails.
PowerLoss ==
    /\ pc # "boot"
    /\ \/ roots' = roots
       \/ /\ pc = "manifest" /\ todo = {}
          /\ roots' = [roots EXCEPT ![job.generation % 2] = NoRoot]
    /\ pc' = "boot"
    /\ graph' = {Seed} /\ vfs' = Seed
    /\ prior' = Nothing
    /\ job' = Nothing
    /\ todo' = {}
    /\ UNCHANGED <<arena, savedAck>>

\* Everything but a save that rewrites an arena a manifest describes, and a
\* root write that lands after its driver gave up.
NextAppend ==
    \/ Boot
    \/ BootFault
    \/ \E o \in Objects : Edit(o)
    \/ \E mb \in ManifestSizes : SaveAppend(mb)
    \/ \E mb \in ManifestSizes : SaveFull(mb)
    \/ \E o \in Objects : LandObject(o)
    \/ BeginManifest
    \/ \E b \in Lbas : LandManifest(b)
    \/ WriteRoot
    \/ SaveReturns
    \/ DeviceFault
    \/ PowerLoss

StoreNext ==
    \/ NextAppend
    \/ \E mb \in ManifestSizes : SaveCompact(mb)
    \/ RootTimesOut

StoreSpec == StoreInit /\ [][StoreNext]_storeVars
-----------------------------------------------------------------------------
\* A save that returned Ok survives every later crash, device fault and torn
\* root record: the store still loads, at the acknowledged generation or a later
\* one, and at the acknowledged generation it loads exactly what was saved.
CommittedSurvives ==
    savedAck # Nothing =>
        /\ Restored # Nothing
        /\ BestRoot.generation >= savedAck.generation
        /\ BestRoot.generation = savedAck.generation => Restored = savedAck.snapshot

\* The manifest kept in memory for the next save describes what is on disk: it
\* is the one the committed root names, each object it lists is at its LBA, and
\* the next free block is above all of them and above the manifest.
ManifestTruthful ==
    prior # Nothing /\ pc # "return" =>
        /\ prior.generation = BestRoot.generation
        /\ prior.log_end = BestRoot.log_end
        /\ prior.index = ReadManifest(BestRoot)
        /\ \A o \in DOMAIN prior.index :
             arena[prior.index[o]] = ObjectBlock(o) /\ prior.index[o] < prior.log_end

\* A crash during a save leaves a store that still loads.
CrashKeepsCommitted ==
    pc = "boot" /\ savedAck # Nothing => \E index \in Decoded : RestoreFrom(index) # Nothing

\* A saved file stays saved: nothing is ever removed from the graph, so each
\* acknowledged save holds every object of the one acknowledged before it.
SavedFilesKept ==
    [][savedAck # Nothing /\ savedAck' # savedAck =>
          savedAck.snapshot.objects \subseteq savedAck'.snapshot.objects]_storeVars

\* The store as an atomically committed snapshot: what a boot would load, and
\* what is being saved.
Image == INSTANCE CommittedRoot WITH
    None    <- Nothing,
    Values  <- Snapshots,
    current <- IF Restored = Nothing THEN Nothing
               ELSE [value |-> Restored, generation |-> BestRoot.generation],
    pending <- IF pc \in {"objects", "manifest"}
               THEN Snapshot(job.objects, job.vfs_root) ELSE Nothing
=============================================================================
