----------------------------- MODULE MCObjStore -----------------------------
(***************************************************************************)
(* The object store with three history variables, kept out of ObjStore      *)
(* because only properties need them: every snapshot a save was started      *)
(* with, whether the committed image is still whole, and whether a boot took *)
(* up a torn manifest.  A rewrite of the arena under the committed root      *)
(* breaks the image, as does a root that lands behind the store's back; the  *)
(* next complete rewrite that returns makes it whole again.                  *)
(***************************************************************************)
EXTENDS ObjStore

\* Every other object is a directory that lists the seeded one.
ListsSeed == [o \in Objects |-> IF o = Seed THEN {} ELSE {Seed}]

VARIABLES saved, intact, torn

allVars == <<storeVars, saved, intact, torn>>

Rewritten == pc = "return" /\ DOMAIN job.layout = job.objects

\* A save without a manifest, over an image that a boot would have restored.
Overwrites == prior = Nothing /\ Restored # Nothing /\ pc = "running" /\ pc' = "objects"

HistoryInit == StoreInit /\ saved = {} /\ intact = TRUE /\ torn = FALSE

HistoryNext ==
    /\ \/ /\ NextAppend
          /\ intact' = (~Overwrites /\ (intact \/ (Rewritten /\ pc' = "running")))
       \/ (\E mb \in ManifestSizes : SaveCompact(mb)) /\ intact' = FALSE
       \/ RootTimesOut /\ intact' = FALSE
    /\ saved' = IF job = Nothing /\ job' # Nothing
                THEN saved \cup {Snapshot(job'.objects, job'.vfs_root)}
                ELSE saved
    /\ torn' = (torn \/ (pc = "boot" /\ prior' # Nothing /\ WholeIndex = Nothing))

HistorySpec == HistoryInit /\ [][HistoryNext]_allVars
-----------------------------------------------------------------------------
\* A save that returned Ok survives every later crash, device fault and torn
\* root record, as long as saves append: the store still loads, at the
\* acknowledged generation or a later one, and at the acknowledged generation it
\* loads exactly what was saved.
AppendsKeepCommitted == intact => CommittedSurvives

\* The store implements an atomically committed snapshot: while saves append,
\* what a boot would load changes only when a root record lands, from the
\* committed snapshot to the one being saved, one generation up.
AppendsCommitAtomically ==
    [][intact /\ intact' =>
          \/ Image!Request \/ Image!TakeEffect \/ Image!Abandon
          \/ UNCHANGED Image!absVars]_allVars

\* Even while an arena is rewritten in place, a boot restores nothing or a
\* namespace that was saved, from objects that were saved.  From a manifest in one
\* piece it restores the objects of one save, all of them; and, unless an earlier
\* boot took up a torn manifest, with each object those that it refers to
\* (Vfs::load_node would leave out a missing one without a word).
RestoreIsSaved ==
    /\ \A index \in Decoded : RestoreFrom(index) # Nothing =>
         /\ \E s \in saved : s.vfs = BestRoot.vfs_root
         /\ \A o \in DOMAIN index : \E s \in saved : o \in s.objects
    /\ Restored # Nothing =>
         /\ \E s \in saved : s.objects = Restored.objects
         /\ ~torn => \A o \in Restored.objects : Refs[o] \subseteq Restored.objects
=============================================================================
