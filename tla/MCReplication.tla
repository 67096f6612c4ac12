--------------------------- MODULE MCReplication ---------------------------
(***************************************************************************)
(* The two ways state is replicated: gossip between fenced replicas, and    *)
(* stamped messages between the cores of the multikernel.  A behaviour      *)
(* drives one of the two, chosen at first, and leaves the other alone.      *)
(***************************************************************************)
EXTENDS FencedReplica

CONSTANTS r1, r2, Cores, Names, CoreWalls, CoreOps

VARIABLES part, clock, replica, inbox, sent

coreVars == <<clock, replica, inbox, sent>>
allVars == <<part, vars, coreVars>>

TwoReplicas == {r1, r2}

At(w, l) == [wall |-> w, logical |-> l]

\* The second one has the largest counter.
TwoStamps == {At(1, 0), At(2, MaxLogical)}

Mk == INSTANCE Multikernel WITH Walls <- CoreWalls, MaxOps <- CoreOps, ops <- sent

ReplicationInit == part \in {"gossip", "cores"} /\ Init /\ Mk!Init

InGossip(A) == part = "gossip" /\ A /\ UNCHANGED <<part, coreVars>>
InCores(A) == part = "cores" /\ A /\ UNCHANGED <<part, vars>>

ReplicationNext == InGossip(Next) \/ InCores(Mk!Next)

\* The fairness of FencedReplica, for the behaviours that gossip.
ReplicationSpec ==
    /\ ReplicationInit /\ [][ReplicationNext]_allVars
    /\ WF_allVars(InGossip(\E m \in net : \/ Deliver(m)
                                          \/ \E end \in Keys : DeliverTruncated(m, end)))
    /\ \A r, to \in Replicas :
        /\ SF_allVars(InGossip(Gossip(r, to)))
        /\ SF_allVars(InGossip(\E m \in net : m.to = to /\ m.state = cells[r] /\ Deliver(m)))
------------------------------------------------------------------------------
\* The cores' clocks order causes before effects, whatever their skew.
HappensBefore == Mk!HappensBefore

\* Delivering an inbox gives one result, in whatever order its messages arrived.
ArrivalOrderIrrelevant == Mk!ArrivalOrderIrrelevant
=============================================================================
