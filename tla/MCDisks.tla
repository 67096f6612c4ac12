------------------------------- MODULE MCDisks -------------------------------
(***************************************************************************)
(* A disk of three sectors and transfers of up to three: two virtio batches *)
(* on a queue of six descriptors, two AHCI or NVMe commands.                *)
(***************************************************************************)
EXTENDS BlockDevices

Writes == {<<1>>, <<1, 2>>, <<1, 2, 3>>}
==============================================================================
