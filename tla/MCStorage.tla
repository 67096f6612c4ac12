------------------------------ MODULE MCStorage ------------------------------
(***************************************************************************)
(* What the system keeps on its block device: the signed root journal at    *)
(* block 0 and the incremental object store at a high LBA.  They share no   *)
(* block and no state, so a behaviour drives one of them, chosen at first.  *)
(***************************************************************************)
EXTENDS Journal, MCObjStore

VARIABLE part      \* "journal" or "store"

StorageInit == part \in {"journal", "store"} /\ Init /\ HistoryInit

StorageNext ==
    \/ part = "journal" /\ Next /\ UNCHANGED <<part, allVars>>
    \/ part = "store" /\ HistoryNext /\ UNCHANGED <<part, vars>>

StorageSpec == StorageInit /\ [][StorageNext]_<<part, vars, allVars>>
==============================================================================
