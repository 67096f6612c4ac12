------------------------------ MODULE UpdateSlots ------------------------------
(***************************************************************************)
(* UpdateManager (update.rs): two boot slots, a staged release, commit and  *)
(* rollback.  The manager keeps versions only; `image` follows what the     *)
(* slots hold: staging writes the image to the slot that `stage` returns.   *)
(***************************************************************************)
EXTENDS Naturals

CONSTANTS Releases,   \* versions of the releases offered
          Initial,    \* the version installed first
          Nothing     \* no version

VARIABLES active, active_version, staged, prev_version,
          image       \* the version whose image each slot holds

vars == <<active, active_version, staged, prev_version, image>>

Slots == {"A", "B"}

Other(slot) == CHOOSE s \in Slots : s # slot

Init ==
    /\ active = "A" /\ active_version = Initial
    /\ staged = Nothing /\ prev_version = Nothing
    /\ image = [s \in Slots |-> IF s = "A" THEN Initial ELSE Nothing]

\* `verified`: tag and image hash check out; `cohort`: the device is in the rollout.
Stage(version, verified, cohort) ==
    /\ verified
    /\ version > active_version
    /\ cohort
    /\ staged' = version
    /\ image' = [image EXCEPT ![Other(active)] = version]
    /\ UNCHANGED <<active, active_version, prev_version>>

Commit ==
    /\ staged # Nothing
    /\ staged' = Nothing
    /\ prev_version' = active_version
    /\ active' = Other(active)
    /\ active_version' = staged
    /\ UNCHANGED image

Rollback ==
    /\ prev_version # Nothing
    /\ prev_version' = Nothing
    /\ active' = Other(active)
    /\ active_version' = prev_version
    /\ UNCHANGED <<staged, image>>

Next ==
    \/ \E v \in Releases, verified, cohort \in BOOLEAN : Stage(v, verified, cohort)
    \/ Commit
    \/ Rollback

Spec == Init /\ [][Next]_vars
------------------------------------------------------------------------------
\* "Commit flips the active slot atomically; rollback restores the prior slot"
\* (update.rs): the active slot always holds the image of the active version.
ActiveSlotHoldsVersion == image[active] = active_version
==============================================================================
