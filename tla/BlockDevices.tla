----------------------------- MODULE BlockDevices -----------------------------
(***************************************************************************)
(* The global block device (kernel/src/block.rs): init_global installs one  *)
(* of the virtio, AHCI and NVMe disks, and with_block_device runs its       *)
(* callers on it one at a time.  The three drivers share what a caller sees *)
(* of them: the disk, the call in progress and its answer.                  *)
(***************************************************************************)
EXTENDS VirtioBlk

CONSTANTS BounceSectors, QD, MaxSectors

ASSUME DisksAssumption ==
    /\ BounceSectors \in Nat \ {0} /\ MaxSectors \in Nat \ {0}
    /\ QD \in Nat /\ QD >= 2
    /\ Chunks \subseteq Seq(Values)

VARIABLES
    backend,                                      \* DEVICE
    slot0, regs, port, halted, bounce, abandoned, \* AhciDisk
    sq, cq, host, ctrl, data, faulted             \* NvmeDisk

ownVars == <<queueVars, batch, mem, count, sent, freed>>
ahciVars == <<slot0, regs, port, halted, bounce, abandoned>>
nvmeVars == <<sq, cq, host, ctrl, data, faulted>>
allVars == <<backend, vars, ahciVars, nvmeVars>>

Ahci == INSTANCE AhciDisk WITH table <- slot0
Nvme == INSTANCE NvmeDisk

\* The order of the probes in init_global.
Chosen(answers) ==
    IF "virtio" \in answers THEN "virtio" ELSE IF "ahci" \in answers THEN "ahci" ELSE "nvme"

\* Only an installed virtio disk has a batch region.
DisksInit ==
    /\ \E answers \in SUBSET {"virtio", "ahci", "nvme"} \ {{}} : backend = Chosen(answers)
    /\ Init /\ Ahci!AhciInit /\ Nvme!NvmeInit
    /\ backend # "virtio" => batch = 0

OnVirtio(A) == backend = "virtio" /\ A /\ UNCHANGED <<backend, ahciVars, nvmeVars>>
OnAhci(A) == backend = "ahci" /\ A /\ UNCHANGED <<backend, ownVars, nvmeVars>>
OnNvme(A) == backend = "nvme" /\ A /\ UNCHANGED <<backend, ownVars, ahciVars>>

DisksNext == OnVirtio(Next) \/ OnAhci(Ahci!Next) \/ OnNvme(Nvme!Next)

\* Every driver spins on its call.  The virtio device serves what it was notified
\* of; nothing is assumed of the AHCI port and the NVMe controller.
DisksSpec ==
    /\ DisksInit /\ [][DisksNext]_allVars
    /\ WF_allVars(OnVirtio(DriverStep)) /\ WF_allVars(OnVirtio(DeviceStep))
    /\ WF_allVars(OnAhci(Ahci!Driver)) /\ WF_allVars(OnNvme(Nvme!Driver))
------------------------------------------------------------------------------
\* An AHCI call that returns Ok did all it was asked, as long as no earlier call
\* gave up on a command the port still held.
AhciOkMeansDone == backend = "ahci" => Ahci!OkMeansDoneUnlessAbandoned

\* The same of every AHCI call, with no exception for what came before it: what
\* the documentation of BlockDevice promises (persist.rs).
AhciKeepsContract == backend = "ahci" => Ahci!OkMeansDone

\* An NVMe call that returns Ok did all it was asked: after a timeout the disk is
\* faulted, so no completion is taken for that of another command.
NvmeOkMeansDone == backend = "nvme" => Nvme!OkMeansDone

\* A virtio call that returns Ok did all it was asked, in every block.
VirtioOkMeansDone == backend = "virtio" => OkMeansDone

\* The disk changes only in a block of the write in progress, and to that block's
\* data: no virtio request outlives its call, no slot is reused under the device.
VirtioChangesAsked ==
    [][backend = "virtio" => \A b \in Lbas : disk'[b] # disk[b] =>
          /\ pc # "idle" /\ call.op = "out"
          /\ b - call.start + 1 \in DOMAIN call.data
          /\ disk'[b] = call.data[b - call.start + 1]]_allVars
==============================================================================
