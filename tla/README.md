# A TLA+ model of DominionOS

DominionOS is a single-address-space operating system in Rust: a policy crate
(`dominion-core`, no threads, no I/O of its own) and a kernel crate (`kernel`,
drivers, processors, the desktop's main loop). This directory models the parts
whose correctness depends on orders of events: what is on disk when power fails,
what several processors, replicas, validators or devices do at the same time,
and long sequences of legal calls. TLC checks the modules on small instances;
TLAPS proves the central properties for every instance.

`PROJECT.json` gives, for every definition, the source lines it models, for
every run its properties, for every property a mutation of the code that breaks
it, and lists the hazards, the disagreements found and the theorems.

    tlc -workers 2 -config MCStorage.cfg MCStorage      # a run
    tlapm StorageProofs.tla                             # the proofs of a module

## The system and its parts

| Part | State | Operations | What is hard about it |
|---|---|---|---|
| Root journal (`journal.rs`) | two signed slots and a pointer | format, commit, load, load_after | two writes, power loss between them, refused writes |
| Object store (`objstore.rs`, used by `filesystem.rs`, `os.rs`) | arena of blocks, two root slots, the in-memory manifest | save (append, compaction, first), load | crash or fault at any block; requests that fail and land later |
| Kernel task pool (`threadpool.rs`, `smp.rs`) | batch size, claim and done counters, result slots | run, drain_tasks, ap_poll_once | atomics of several processors, a watchdog, hung processors |
| Domain scheduler (`sched.rs`) | domain states, run queue, channels, inboxes | spawn, next, yield_back, finish, kill, IPC | kills while a domain runs |
| Process table (`os.rs`, `taskman.rs`, `shellcmd.rs`) | windows, app to domain table, memory domains | set_metrics, sync_processes, End task, kill | the table lags behind windows and domains |
| Hybrid clocks (`hlc.rs`) and multikernel (`multikernel.rs`) | a clock, a replica and an inbox per core | local_write, send, deliver | skewed clocks, reordering, exhausted counters |
| Fenced replica (`consistency.rs`) | a cell per key: value, stamp, fence | put, rollback, quarantine, pin, merge | lossy gossip, rollback racing writes |
| BFT consensus (`bft.rs`) | votes, locks, view | propose, ingest, view change | Byzantine validators, view changes |
| Virtqueue, virtio-blk, virtio-net (`virtio.rs`, `block.rs`, `netif.rs`) | descriptor table, rings, DMA buffers | submit, poll, run_batch, poll_frame | a device running beside the driver |
| AHCI and NVMe disks (`ahci.rs`, `nvme.rs`), the global block device (`block.rs`) | command slot or queue pair, one DMA buffer, fault flag | read and write of one or several blocks | timeouts, after which the device still owns the command |
| Task pool policy (`pool.rs`) | a queue per worker, an overflow queue | admit, submit, pop_for | stealing in batches, full queues |
| Work-graph orchestrator (`multikernel.rs`) | tasks, in-degrees, waves | add, schedule | repeated and unknown dependencies, cycles |
| Recovery supervisor (`supervisor.rs`) | failure times, breakers, restart budget | on_failure, on_success | late reports, quarantine and trial restarts |
| Secure session (`session.rs`) | sequence numbers, anti-replay bitmap | seal, open, revoke | reordered, repeated, damaged frames |
| Publish/subscribe (`pubsub.rs`, with parts of `ndn.rs` and `firewall.rs`) | bounded event log, cursors, interests, quotas | subscribe, publish, poll, queries, revoke | compaction under slow subscribers |
| Connection migration (`transport.rs`) | path, pending challenge | send, begin and complete migration | late and repeated echoes |
| System update (`update.rs`) | two slots, staged and previous version | stage, commit, rollback | long sequences of legal calls |

The interactions that are modelled together: the file system's save and boot on
the object store on a disk that faults; the desktop's process table on the
scheduler; virtio-blk and virtio-net on the virtqueue; the three disk drivers behind
the global block device; multikernel and replica on the clock; publish/subscribe on
the forwarder's interests and the firewall's quotas. `PROJECT.json` lists all other
parts of the repository with the reason they are not modelled; the last section
summarises it.

The models stand for some 3,200 lines in 28 source files, most of the state-changing
code of the parts above. That is a small share (about 2%) of the repository, most of
which is sequential: see "Not modelled".

## Modules

Each component has a specification module; `MC...` modules give TLC what a
configuration file cannot (sets of inputs, symmetry, history variables);
`...Proofs` modules hold the theorems. Definitions called "Mutant" directly above a
definition are the plausible mistakes the properties are tested against and are
used by no specification.

**CommittedRoot** is the abstract promise of a store with a commit point: a
committed value that one atomic step replaces, and that crashes leave alone.
`Journal` implements it, and so does `ObjStore` as long as saves append; both
instantiate it with the value their loader would find.

**Journal.** `Format`, `BeginCommit` (read the superblock, choose the inactive
slot and the next generation), `WriteSlot` and `FlipActive` (the two block writes),
`ReturnOk`, `WriteError`, `Crash`. Signatures are symbolic: a record verifies under
the key that signed it.

**ObjStore.** A save is the sequence of its block writes: objects, manifest, root.
A write may be refused, power may fail after any of them, and a root write that the
driver reported as timed out may land all the same. `Boot` runs the loader and
rebuilds the in-memory manifest; `BootFault` is a boot whose reads fail. Objects take
one block and refer to others (`Refs`), since restoring a namespace follows the
references from its root and leaves out a missing object without a word. A manifest
takes one or two blocks, because the code's estimate of its size can be too small. The
root's hash does not cover the manifest, and `decode_manifest` checks only its magic: if
a rewrite that was cut short leaves blocks of several manifests where the root points,
the index that comes out is nondeterministic, any mix of their entries or none
(`TornIndexes`), and `Boot` goes on with whichever it is. `MCObjStore` adds three history
variables: what was ever saved; `intact`, which is false from the start of a compaction, a
root that lands late or a save over an image that a read fault hid, until a complete
rewrite has returned; and `torn`, that some boot restored from such a mixed manifest.

**KernelPool.** One step per atomic access of `run`, `drain_tasks` and
`ap_poll_once`, on the bootstrap processor and on application processors that may
hang. Memory is sequentially consistent. Batches follow each other, because the
interesting states have a processor left over from the previous batch. The watchdog
may give up whenever a completion is missing: to the code a slow processor looks like a
hung one. It then fills the empty slots one by one (`Reexecute`) and returns whatever
the others do (`WatchdogReturns`). Three history variables tell the calls about which
something can be promised from the others. `settled`: when the last call began no
processor was in `drain_tasks` or about to enter it, or the pool was settled and the
batch size did not change; it ends when the watchdog returns over a processor that still
holds an index. `clear` keeps this for each call as it was at its beginning, and `gaveUp`
says that the watchdog has fired.

**Sched** and **Processes.** `Sched` has pure operators on the scheduler's state
(`Spawned`, `Dispatched`, `Yielded`, `Killed`) and the actions of one executor over
them. `Processes` reuses the operators: a beat reconciles the tables and dispatches
three domains in one step, as `set_metrics` does. Dispatch counts are left out.

**Hlc, Multikernel.** Clocks with a bounded counter, so that exhaustion happens;
`deliver` sorts and applies one inbox, as one step.

**FencedReplica.** Replicas exchange encoded states over a network that loses,
repeats, delays, reorders and truncates them. Wall clocks are arbitrary readings. A
rollback adds one to a u32 without a check; `Bump` wraps as a release build does (a
build with overflow checks stops there), and the history variable `wrapped` records it.

**Bft.** One slot. Messages are the set of votes ever signed; a validator that
ingests a message sees any vote in it, which covers loss, duplication and
reordering. Byzantine validators sign anything. The equivocation filter (`seen`)
and the wire format are left out, which only adds behaviours.

**VirtQueue, VirtioBlk, VirtioNet.** The queue's table and rings with the device's
side as separate actions. Building a chain and publishing it are separate steps of
the driver; the device may take, finish and return requests in any order between
any two of them. The device keeps to the protocol: it returns the chains it took, each
once. `Reclaim` passes over an id outside the table, as the code does, but no modelled
device sends one. Ring indices wrap at `IdxWrap` (2^16 in the code). Buffers are
known by their address; `mem` is what the DMA memory holds.

**AhciDisk, NvmeDisk, BlockDevices.** A call is cut into commands that share one DMA
buffer. The port or controller works beside the driver and may answer at any time or
never; a wait that runs out of spins ends the call and leaves the command with the
device. The device's side is external and follows what the code relies on: the port
clears the command bit when it is done and keeps it set after an error, the controller
posts completions in order with a phase bit. `BlockDevices` puts the three drivers
behind the device that `init_global` chose, with one call at a time
(`with_block_device` holds a lock).

**ThreadPool.** `submit` (admission by pressure, least loaded worker, overflow) and
`pop_for` as its four ways out: own queue, stolen batch, overflow queue, nothing. Queues
keep the order of the code's binary search. A history counts how often each task was
handed out, and `drained` holds the workers that were told there is nothing since the
last task was accepted. No loop in the repository drives the workers: the callers
(`placement.rs`, `prefetch.rs`, `coldcomp.rs`) submit and then pop by hand until they get
nothing, so no fairness is assumed.

**WorkGraph.** `schedule` as the waves of its loop, over graphs whose dependency lists
may repeat a task, name an unknown one or form cycles. The properties compare the
answer with a definition that does not mention in-degrees: reachability for cycles and
the longest path for waves.

**Supervisor.** `on_failure` in the order of its checks (cooling breaker, trip,
storm, back-off) and `on_success`. The list of restart times behind the storm guard is
the set of the grants it still names: the code only prunes and counts it. The caller is
external: it restarts when told to, re-queues what was deferred, and may report a
failure twice.

**Session.** One receiving end: the bitmap is a set of depths below the highest
sequence number. Any frame sealed so far may arrive now or again; a damaged frame
carries any number and fails authentication. Both ends use one key, the same associated
data and the same numbers, so a frame of this end's own that comes back to it
authenticates too and uses up its number; the history counts acceptances by number.

**Reactive.** The log in memory is a suffix of the history of all events; cursors
point into the suffix and are rebased when it is cut. Names are sequences of
components, objects are pairs of kind and payload. A call that only returns an error
changes nothing and is a stuttering step.

**Connection.** The peer roams and echoes challenges that reach it; echoes stay
available, so they arrive late, repeatedly and in any order. The keyed hash is
the pair it hashes.

**UpdateSlots.** The manager keeps versions only; the variable `image` adds what the
slots hold when staging writes its image to the slot that `stage` returns.

## Runs

Components that do not call each other share a run where that costs little: the MC
module chooses at first which of them a behaviour drives (`part`), and leaves the
others alone. A "violation" run checks a sentence the repository itself states and that the code
does not keep; the finding in `PROJECT.json` quotes it.

| Run | Shows |
|---|---|
| `storage` | Journal: `AckedSurvives`, acknowledged roots survive crashes, refused writes and interrupted commits; `NoRollback`, generations never go back; `ImplementsCommittedRoot`, refinement of `CommittedRoot`. Object store: `AppendsKeepCommitted` and `AppendsCommitAtomically`, while saves append nothing acknowledged is lost and a commit is one atomic step; `RestoreIsSaved`, always, compactions, read faults, late roots and torn manifests included, a boot restores nothing or saved objects under a saved namespace root, and from a manifest in one piece the objects of one save, complete |
| `objstore_crash` (violation) | `CrashKeepsCommitted`: a crash in the middle of a compaction leaves no root that loads |
| `objstore_read_fault` (violation) | `SavedFilesKept`: a read fault at boot is taken for an empty disk, and the next save replaces what was saved |
| `workers` | Kernel pool, a processor may hang or be slower than the watchdog: `SettledCallIsRight`, a call that begins settled returns every task's result; `SettledWritesInside`, no stray write while the pool is settled; `RunTerminates`. Task pool: `PoolTaskOnce`, stealing and spilling lose and copy nothing; `DrainedIsHanded`, once every worker was told there is nothing, every accepted task has been handed out. Work graph: `AnswerIsRight`, `WaveIsDepth`. Supervisor: `NoRestartStorm`, no window holds more restarts than the budget; `IsolatedUntilStable`, no restart during a quarantine, and a relapse isolates again |
| `kpool_shrink` (violation) | `ReturnsEveryResult` with a smaller batch after a larger one: a processor that still holds the old size makes a result go missing, though the watchdog never fires |
| `replication` | Replicas: `NoResurrection` (until a counter wraps), `MergeOrderIrrelevant`, `PinnedNeverRolledBack`; `Converges`, once callers stop, replicas agree on every key nobody pinned. Multikernel: `HappensBefore`, stamps order causes before effects under skew and exhausted counters; `ArrivalOrderIrrelevant`, one delivery gives one result |
| `bft` | Four validators, the first leader Byzantine: `Agreement`, `CommitExcludesLater` |
| `scheduling` | `NoOvertaking` and `EveryReadyRuns` of the scheduler; `LiveDomainHasApp`: no orphaned domain on the desktop, stale selections included |
| `disks` | `VirtioOkMeansDone`, `AhciOkMeansDone`, `NvmeOkMeansDone`: Ok means all was read or written (for AHCI, unless an earlier call abandoned a command). `VirtioChangesAsked`: no request outlives its call. `DescriptorsOwnedOnce`, `CallReturns` |
| `ahci_timeout` (violation) | `AhciKeepsContract`: the same of AHCI without the exception |
| `network` | Session: `AcceptedOnce`, `RefusedOnlyIfSeenOrOld`. Card: `FramesInOrder`, `NoBufferLost`, `FramesReceived`. Publish/subscribe: `NoSilentGap`, a subscriber is told of every event it lost; `InOrderOnce`, across compactions. Connection: `PathValidated` |
| `update_slots` (violation) | `ActiveSlotHoldsVersion`: stage after commit overwrites the slot rollback returns to |

**Bounds.** Every bound is a constant with a name, chosen so that the case of interest
happens.

- Journal: `MaxGen` 4 reuses both slots. Object store: `MaxSaves` 3 with `DeadLimit` 2
  and a four-block arena gives a first save, an append and a compaction, and reuses a
  root slot; faults and crashes repeat generations without limit. The violation runs
  use larger arenas of their own.
- Kernel pool: batches of two, none, two and one task on two processors, one of which may
  hang, so that it can be left over, slow or hung, from one batch in the next, of the same
  size and of a smaller one. Three processors with batches of two, none and two pass too
  (1.2 million states, eleven minutes). Task pool: four tasks on two workers, with
  queues of four (a batch of two can be stolen) and of one (tasks overflow). Work
  graph: every graph of three tasks with up to two dependencies each. Supervisor: two
  components, a budget of three restarts in a window of four ticks, and six ticks,
  so that a quarantine ends and restarts leave the window.
- Replicas: three operations are the shortest way to write, roll back and write again;
  keys do not influence each other, so one is enough, and the proofs cover any number.
  Clocks: `MaxLogical` 2 exhausts the counter; one of the two stamps of the replicas has
  it, so that a rollback wraps. BFT: `MaxView` 1 gives one view change,
  which is where locks matter; the constraint `LastCommitsFirst` skips states that
  differ only in who has committed.
- Scheduler: three domains tell being overtaken from waiting one's turn. Processes: two
  apps, two residents, and one domain id to spare, so that an app is reopened under a
  new id.
- Disks: three sectors and transfers of up to three: six descriptors hold two virtio
  requests, so a three-block transfer takes two batches and the indices wrap; AHCI and
  NVMe take two commands of up to two sectors, on queues of two entries whose phase
  flips. Two calls are enough for what the first leaves behind to meet the second.
- Network: six sequence numbers at each end over a window of three slide it past its
  width; one
  buffer more than descriptors, and four frames on a ring of three; a log of four
  events, five publications and one subscriber or query (subscriptions do not influence
  each other) give a compaction under a cursor inside, at and past the cut; three paths and two
  stream positions let echoes of several validations be outstanding.

**Deadlock** is checked for `storage` and the object store's violation runs. Elsewhere
the bounded supply of operations ends, and the configurations say so.

**Fairness.** Kernel pool: each processor that does not hang takes steps (hardware).
Scheduler: the executor dispatches while the queue is not empty and hands back what
it dispatched, the shape of every loop that calls `next`. Disks: driver code runs on;
the virtio device keeps answering, which the code relies on since it spins without a
timeout; nothing is assumed of the AHCI port and the NVMe controller. Network card: the
driver is polled again and again. Replicas: messages in flight are delivered or lost,
and a replica that gossips for ever gets through for ever, which is what the
repository's convergence claims presuppose. No other property uses fairness.

## Where the code and its comments part

The five violation runs, and what the properties of the other runs had to leave out:

- Compaction (`objstore.rs`, `write_full`) rewrites the arena under the committed
  root (`objstore_crash`). If it fails instead, the manifest in memory goes on
  describing overwritten blocks, and a later append builds on it. A root that lands
  after its timeout has the same effect on the next append. Hence `intact`.
- `restore_fs_from` (`os.rs`) treats a failed read like an absent image, and the next
  checkpoint writes the seeded file system over the saved one (`objstore_read_fault`).
- `drain_tasks` (`threadpool.rs`) loads the batch size once and keeps claiming with it
  after the next batch is published (`kpool_shrink`). A larger
  next batch is no safer: an AP that loads the new size before `KPOOL_NEXT` is reset
  claims an index that is handed out again later, the index is counted twice and `run`
  returns one result short (TLC finds it with batches of 1 and 4 tasks and one AP).
  Hence `settled`: nothing in flight, or batches of one size.
- The watchdog of `run` (`threadpool.rs`) gives up after 100 M spins, on a slow processor
  as on a hung one. The comments say that "The BSP holds the closure reference alive
  until KPOOL_DONE reaches KPOOL_N" and that `task` lives "until we return, which is after
  DONE == N is confirmed"; after the watchdog neither is so. A processor that then comes
  round writes through the pointer of a buffer that is gone, or into the next call's, and
  its count of a task of the old call makes a later call return a result short. The
  call in which the watchdog fired is right (`SettledCallIsRight` covers it), and so is
  any that starts after the slow processor has left `drain_tasks`; those in between are
  outside both properties.
- A manifest is not protected (`objstore.rs`, `decode_manifest`), as its comment says, so a
  boot after a compaction that was cut short may restore from blocks of two manifests.
  What it restores was saved, under a namespace root that was saved, but need not be of
  one save; with three objects instead of two, TLC finds such a boot that lacks an object
  its namespace refers to, under the model's free choice of what a mixture decodes to.
  Hence `torn`.
- `rollback_key` and `quarantine_key` (`consistency.rs`) add one to the logical counter
  unchecked. At its maximum a release build restores the value at or below the fence
  it has just set, or lowers the fence, and a write that was rolled back may return: hence
  `wrapped` in `NoResurrection`. The merge properties do not need it.
- `issue` (`ahci.rs`) leaves a timed-out command with the port (`ahci_timeout`): the
  port carries it out while a later call waits for it to be idle, in the bounce buffer
  that call has just filled. Hence the exception in `AhciOkMeansDone`. The NVMe driver marks the disk
  faulted instead, and needs no exception; the block of the call that failed may
  still receive the data of a later, refused one.
- `stage` (`update.rs`) may follow `commit`, and takes the slot `rollback` would go
  back to (`update_slots`).
- A key pinned at one replica and rolled back at another does not converge
  (`consistency.rs`, `merge_one`): hence "nobody pinned" in `Converges`. A rollback
  fences by the local stamp, so a concurrent write with a higher one passes it.
- `ValidatorSet::new` (`bft.rs`) takes any number of validators; only for 3f + 1 do
  quorums of 2f + 1 meet. Hence `FaultBound`.
- `deliver` (`multikernel.rs`) forgets the winning stamps when it returns, so an older
  message that arrives later overwrites a newer value. Hence "one delivery".
- After the Terminal's `kill`, the window keeps an entry for the dead domain and gets
  no other until it is closed (`os.rs`, `sync_processes`). Hence `LiveDomainHasApp`
  and not its converse.
- `publish` (`pubsub.rs`) wakes the interests at or below the published name, while `poll`
  delivers to subscribers at or above it: a subscriber of a parent topic gets the event
  when it polls, and is not woken. No property is about being woken.
- A wrong echo ends a pending migration (`transport.rs`, `complete_migration`); the
  caller has to begin again. `PathValidated` says only where a connection may move.

## Proofs

All theorems hold for every value of the constants, under the modules' `ASSUME`s.

*Journal* (`StorageProofs`). The inductive invariant `JInv` joins the type
invariant to three facts the safety properties need: a prepared record is for the
inactive slot and one generation above the committed one, an interrupted commit
leaves at most such a record behind, and an acknowledged generation is not above
the committed one. From it: type correctness, `InactiveSlotOnly`, `AckedSurvives`,
`NoRollback`, and that every step is a step or a stutter of `CommittedRoot`
(`JournalRefinesCommittedRoot`).

*Object store* (`StoreProofs`, `StorageProofs`). `StoreInv` has two parts. One always
holds, whatever was cut short: every root names a namespace that was saved, and a save in
flight knows which of its blocks have landed. Beside it, every manifest block on the
device lists the objects of one save (`ListsSaved`), and what was saved holds what it
refers to as long as no boot took up a torn manifest (`ClosedUnlessTorn`). `RestoreIsSaved`
follows: whatever a mixture of manifest blocks decodes to, its entries come from blocks
that list saved objects, and a manifest in one piece has the entries of one of them. The
other part of `StoreInv` holds while saves append (`intact`): the committed image is
whole and lies below the committed root's log end, the manifest in memory describes it,
the save in flight writes only above it and for the next generation, and what was
acknowledged is that image or an older one. `AppendsKeepCommitted` follows, and that
every step is a step or a stutter of `CommittedRoot` (`AppendsCommitAtomically`): the
landing of a root record is the one step that changes what a boot loads. The theorems
hold for any objects and references, any size of arena and manifests, any limit on dead
space, and any order in which the blocks of one call land.

*Fenced replica* (`FencedReplicaProofs`). `FInv`: until a counter wraps, live values lie
above their fence at every replica and in every message, and a write abandoned at a
replica is at or below its fence there. The key lemma is that `merge_one` is the join of
an order on cells, from which fences rise and abandoned writes never return. That merges
commute and that a pinned live value stays live (`KeepsPinned`) needs only the types, and
holds after a wrap too.

*BFT* (`BftProofs`). Under `FaultBound` (N = 3F + 1 and at most F Byzantine
validators) `BInv` says that honest votes are
unique per view and never ahead of the validator, that a Commit vote is backed by a
Prepare certificate and remembered in a lock, and that a quorum of Commits in a view
blocks every other value in later views. Two quorums meet in an honest validator
(`QuorumsMeet`), so a certificate of a later view contains a validator that was
locked. `BftAgreement` and `BftCommitExcludesLater` follow. Type correctness needs no
bound on faults.

*Clock* (`FencedReplicaProofs`). The order on stamps is total, `local` advances, `receive` lands
after both clock and message.

*Session* (`NetworkProofs`). The two properties of the run are not inductive: whether
a frame is accepted depends on the bitmap. `WindowExact` says that the bitmap records
exactly the accepted numbers within the window and that nothing above its top was
accepted; with the type invariant it is inductive, the step that matters being the
shift of the bitmap when the window slides. `AcceptedOnce` and
`RefusedOnlyIfSeenOrOld` follow from it, for every window width and every number of frames.

*Kernel pool* (`KernelPoolProofs`). `SettledCallIsRight` and `SettledWritesInside` hold
for any number of processors and calls, batches of any sizes, and slow and hung APs.
`KInv` says that the globals hold what `run` has published so far and that the calls that
began settled were answered right (`Shell`), and, while the pool is settled, how a late AP
is kept out (`Calm`): until `KPOOL_NEXT` is reset either nobody is in `drain_tasks`, or it
is at least n, n does not change and nobody holds an index (`Exhausted`); after it
everything a core loads is of the current batch (`Current`) and an index has one holder
(`Disjoint`). An AP may finish a task between the resets of `KPOOL_NEXT` and `KPOOL_DONE`,
and its completion is then forgotten; so `Counted` is an inequality: the counter never
exceeds the number of slots that are written and let go. That is all `run` needs to
return, and what is missing is the watchdog's, which writes what the slow AP would.

*AHCI and NVMe* (`DisksProofs`). What Ok means depends on whose command the device
has carried out. For AHCI `AInv` says that as long as no wait ran out (`Orderly`) the
port works only on the command the driver polls for, its bit stays set until disk and
bounce buffer agree on its sectors, and a port that stopped on an error keeps the bit
set, so no later command is taken for done. For NVMe `NInv` says that the phase bits
tell the controller's new entries from old ones (`PhasesMatch`), that while the disk is
not faulted at most one command is out, and that the two sides' ring positions differ
by exactly that command (`Quiet`, `Pending`, `Finished`); after a timeout the positions
never agree again, and no call succeeds. Both carry the sectors finished so far
(`Stored`) through the data phase of a command, which has its own lemmas. The
assumptions are a queue of at least two entries, non-empty buffers and calls.

*Connection* (`NetworkProofs`). `EchoesProve`: every challenge carries its path, and
every echoed one was answered by the peer from the path it carries. With it
`PathValidated`, an action property, holds of every step.

*Publish/subscribe* (`NetworkProofs`). `PlaneInv`: the log in memory is a suffix of the
history, so a position keeps its event when compaction rebases the cursors; what a
subscription was delivered is in order, asked for and behind its cursor
(`DeliversInOrder`), what it has seen is what it got (`SeenIsGot`), and every event it
asked for is delivered, ahead of its cursor or lost and told (`Accounted`). From it
`InOrderOnce` and `NoSilentGap`, for any log size and any number of compactions.

*Supervisor* (`WorkersProofs`). `GuardInv`: a grant that the storm guard's list no
longer names is at least a window old, for ever; so counting the list is counting the
restarts of the window that ends now, and `NoRestartStorm` follows for every earlier
window too. `BreakerInv` and a case split of `on_failure` give the action property
`IsolatedUntilStable`.

*Work graph* (`WorkersProofs`). `GraphInv`: the in-degree a task still waits for is the
number of its dependencies, repeated ones counted as often as they are named, that are
not in an earlier wave, and a task is put in the first wave after theirs. When a wave is
empty and tasks are left, each waits for another one that is left, so they contain a
cycle. From it `AnswerIsRight` and `WaveIsDepth`, for every graph.

Proved but not listed in a run, because the properties above rest on them:
`LiveAboveFence` and `FenceMonotone` of the replicas, `NoHonestEquivocation` and
`LocksProvable` of BFT.

Only model-checked: all liveness properties (fairness and `ENABLED` are outside the
prover), `HappensBefore`, and the task pool, scheduler, process table and virtio
drivers. What recursive definitions compute (free
lists, chains, rotations) needs induction over data and also stays with TLC.

## Not modelled

- *Sequential policies over in-memory tables*: fleet, settlement, memory tiers,
  consent and firewall rules, content stores, capabilities. One caller changes them at a
  time and nothing is persisted or sent between two steps, so a unit test reaches what
  a model would.
- *Liveness of BFT*: validators have no timeouts. The only driver, the simulation
  `bft_run`, sends each vote once (its comment speaks of re-broadcasting) and starts view
  changes every fourth round after a global look at all replicas, so progress is a matter
  of its round counts and delays.
- *USB storage*: the `usb_storage` feature is off by default. Its rings resemble those
  of `NvmeDisk`.
- *Bring-up*: processors, disks, cards, ACPI and PCI are programmed once, in order.
- *The transmit side of virtio-net* is one `submit_and_wait`; *CRDT topics* of
  publish/subscribe and `datatypes.rs` are joins like the one checked in `FencedReplica`.
- *Image writes of `persist.rs`* serve the boot log, benchmarks and self tests.
- *Congestion control, cryptography, compilers and interpreters, rendering, machine
  learning, codecs, parsers, layout*: numerical or data-heavy code with little for a
  model checker.
- *Weak memory*: the kernel pool's atomics are modelled as sequentially consistent.
