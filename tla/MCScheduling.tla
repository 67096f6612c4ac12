----------------------------- MODULE MCScheduling -----------------------------
(***************************************************************************)
(* The domain scheduler, and the desktop's processes on a scheduler of their*)
(* own.  A behaviour drives one of the two, chosen at first, and leaves the *)
(* other alone.                                                             *)
(***************************************************************************)
EXTENDS Sched

CONSTANTS Apps, Residents, DesktopDomains

VARIABLES part, deskSched, windows, appDomains, memory, selected, synced

deskVars == <<deskSched, windows, appDomains, memory, selected, synced>>

Desk == INSTANCE Processes WITH sched <- deskSched, MaxDomains <- DesktopDomains

AllInit ==
    /\ part \in {"domains", "desktop"}
    /\ SchedInit /\ Desk!Init

InDomains(A) == part = "domains" /\ A /\ UNCHANGED <<part, deskVars>>
InDesktop(A) == part = "desktop" /\ A /\ UNCHANGED <<part, vars>>

AllNext ==
    \/ InDomains(SchedNext)
    \/ InDesktop(Desk!Next)

allParts == <<part, vars, deskVars>>

\* The executor keeps dispatching and hands back what it dispatched.
AllSpec ==
    /\ AllInit /\ [][AllNext]_allParts
    /\ WF_allParts(InDomains(Dispatch)) /\ WF_allParts(InDomains(YieldBack \/ Finish))
------------------------------------------------------------------------------
\* No orphan domain on the desktop: a live domain that is not resident belongs to
\* one app of the table, also when a task is ended from a stale selection.
LiveDomainHasApp == Desk!LiveDomainHasApp
==============================================================================
