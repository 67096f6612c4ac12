-------------------------------- MODULE Bft ---------------------------------
(***************************************************************************)
(* Byzantine-fault-tolerant agreement (dominion-core/src/bft.rs) on one     *)
(* slot: validators, the votes they broadcast, leaders and view changes.    *)
(*                                                                          *)
(* A broadcast vote stays in `votes`: it may be ingested late, out of       *)
(* order, again, or never.  Ingesting a Prepare or a Commit below the       *)
(* quorum changes a tally and nothing else, and a tally is some set of      *)
(* votes that were broadcast; so one action stands for the ingests that     *)
(* reach a quorum.  A ViewChange merges the sender's lock at every ingest   *)
(* and keeps its tally.  A Byzantine validator signs whatever it likes, but *)
(* only for itself.  A vote a validator can no longer sign, its one-time    *)
(* keys being used up, is a vote nobody ever ingests.                       *)
(***************************************************************************)
EXTENDS Integers, FiniteSets

CONSTANTS
    N,           \* validators in the set
    Byzantine,   \* the faulty ones
    Values,      \* proposals for the slot
    MaxView,     \* bound on the view
    None

ASSUME BftAssumption ==
    /\ N \in Nat \ {0}
    /\ Byzantine \subseteq 0 .. N - 1
    /\ MaxView \in Nat
    /\ None \notin [view : Nat, value : Values] /\ None \notin Values

Validators == 0 .. N - 1
Honest == Validators \ Byzantine
Views == 0 .. MaxView

\* ValidatorSet.
F == (N - 1) \div 3
Quorum == 2 * F + 1
Leader(v) == v % N

Phases == {"PrePrepare", "Prepare", "Commit"}
Lock == [view : Views, value : Values]
ViewChangeVote == [view : Views, lock : Lock \cup {None}, signer : Honest]

VARIABLES
    view,        \* per validator: the view it is in
    locked,      \* per validator: the lock it holds, or None
    votes,       \* who broadcast a vote, per phase, view and value (honest ones)
    vcVotes,     \* view-change votes broadcast by honest validators
    vcTally,     \* per validator: honest signers counted per target view ahead
    committed    \* per validator: the value it committed, or None

vars == <<view, locked, votes, vcVotes, vcTally, committed>>

TypeOK ==
    /\ view \in [Honest -> Views]
    /\ locked \in [Honest -> Lock \cup {None}]
    /\ votes \in [Phases \X Views \X Values -> SUBSET Honest]
    /\ vcVotes \subseteq ViewChangeVote
    /\ vcTally \in [Honest -> [Views -> SUBSET Honest]]
    /\ \A r \in Honest, t \in Views :
         vcTally[r][t] # {} =>
             t > view[r] /\ Cardinality(vcTally[r][t] \cup Byzantine) < Quorum
    /\ committed \in [Honest -> Values \cup {None}]

\* Who has, or may have, voted for x: an honest validator that broadcast the
\* vote, and every Byzantine one.
Voters(phase, v, x) == Byzantine \cup votes[<<phase, v, x>>]

\* A quorum of signed Prepare votes for one view and value.
Prepared(v, x) == Cardinality(Voters("Prepare", v, x)) >= Quorum

HasVoted(r, phase) == \E x \in Values : r \in votes[<<phase, view[r], x>>]

Sign(r, phase, x) ==
    votes' = [votes EXCEPT ![<<phase, view[r], x>>] = @ \cup {r}]
-----------------------------------------------------------------------------
Init ==
    /\ view = [r \in Honest |-> 0]
    /\ locked = [r \in Honest |-> None]
    /\ votes = [key \in Phases \X Views \X Values |-> {}]
    /\ vcVotes = {}
    /\ vcTally = [r \in Honest |-> [t \in Views |-> {}]]
    /\ committed = [r \in Honest |-> None]

\* The leader of the view proposes x, or the value it is locked on.  The driver
\* asks once per view, while the slot is undecided.
Propose(r, x) ==
    /\ Leader(view[r]) = r
    /\ committed[r] = None
    /\ ~HasVoted(r, "PrePrepare")
    /\ Sign(r, "PrePrepare", IF locked[r] = None THEN x ELSE locked[r].value)
    /\ UNCHANGED <<view, locked, vcVotes, vcTally, committed>>

FromLeader(v, x) ==
    \/ Leader(v) \in Byzantine
    \/ Leader(v) \in votes[<<"PrePrepare", v, x>>]

\* Mutant: a locked validator prepares whatever the leader proposes.
IngestPrePrepareUnlocked(r, x) ==
    /\ FromLeader(view[r], x)
    /\ ~HasVoted(r, "Prepare")
    /\ Sign(r, "Prepare", x)
    /\ UNCHANGED <<view, locked, vcVotes, vcTally, committed>>

\* ingest_preprepare: from the leader of the current view, for the locked value
\* if there is one, once per view.
IngestPrePrepare(r, x) ==
    /\ FromLeader(view[r], x)
    /\ locked[r] # None => locked[r].value = x
    /\ ~HasVoted(r, "Prepare")
    /\ Sign(r, "Prepare", x)
    /\ UNCHANGED <<view, locked, vcVotes, vcTally, committed>>

\* Mutant: Commit is sent without locking the value.
PrepareQuorumNoLock(r, x) ==
    /\ Prepared(view[r], x)
    /\ ~HasVoted(r, "Commit")
    /\ Sign(r, "Commit", x)
    /\ UNCHANGED <<view, locked, vcVotes, vcTally, committed>>

\* ingest_prepare reaching the quorum in the current view: lock, send Commit.
PrepareQuorum(r, x) ==
    /\ Prepared(view[r], x)
    /\ ~HasVoted(r, "Commit")
    /\ locked' = [locked EXCEPT ![r] = [view |-> view[r], value |-> x]]
    /\ Sign(r, "Commit", x)
    /\ UNCHANGED <<view, vcVotes, vcTally, committed>>

\* ingest_commit reaching the quorum, for any view: the slot is decided once.
CommitQuorum(r, v, x) ==
    /\ Cardinality(Voters("Commit", v, x)) >= Quorum
    /\ committed[r] = None
    /\ committed' = [committed EXCEPT ![r] = x]
    /\ UNCHANGED <<view, locked, votes, vcVotes, vcTally>>

\* Suspect the leader: ask for the next view, once, with the lock held now.
StartViewChange(r) ==
    LET target == view[r] + 1 IN
    /\ target <= MaxView
    /\ \A m \in vcVotes : m.signer = r => m.view # target
    /\ vcVotes' = vcVotes \cup
           {[view |-> target, lock |-> locked[r], signer |-> r]}
    /\ UNCHANGED <<view, locked, votes, vcTally, committed>>

VerifyPreparedCert(lock) == Prepared(lock.view, lock.value)

\* An inbound lock replaces an older one, if its certificate verifies.
MergeLock(own, lock) ==
    IF /\ lock # None
       /\ VerifyPreparedCert(lock)
       /\ own = None \/ own.view < lock.view
    THEN lock ELSE own

\* ingest_view_change: merge the lock, count the signer, move at the quorum.
\* Tallies of views no longer ahead are dropped: they are never read again.
IngestViewChange(r, m) ==
    /\ m.view > view[r]
    /\ locked' = [locked EXCEPT ![r] = MergeLock(locked[r], m.lock)]
    /\ LET signers == vcTally[r][m.view] \cup {m.signer} IN
       IF Cardinality(signers \cup Byzantine) >= Quorum
       THEN /\ view' = [view EXCEPT ![r] = m.view]
            /\ vcTally' = [vcTally EXCEPT ![r] =
                   [u \in Views |-> IF u <= m.view THEN {} ELSE @[u]]]
       ELSE /\ vcTally' = [vcTally EXCEPT ![r][m.view] = signers]
            /\ UNCHANGED view
    /\ UNCHANGED <<votes, vcVotes, committed>>

\* The same for a ViewChange of a Byzantine validator, for a view ahead: its
\* lock may be any.  Its signature counts from the start.
IngestByzantineViewChange(r, lock) ==
    /\ Byzantine # {}
    /\ view[r] < MaxView
    /\ MergeLock(locked[r], lock) = lock
    /\ locked' = [locked EXCEPT ![r] = lock]
    /\ UNCHANGED <<view, votes, vcVotes, vcTally, committed>>

Next ==
    \E r \in Honest :
        \/ \E x \in Values : Propose(r, x)
        \/ \E x \in Values : IngestPrePrepare(r, x)
        \/ \E x \in Values : PrepareQuorum(r, x)
        \/ \E v \in Views, x \in Values : CommitQuorum(r, v, x)
        \/ StartViewChange(r)
        \/ \E m \in vcVotes : IngestViewChange(r, m)
        \/ \E lock \in Lock : IngestByzantineViewChange(r, lock)

Spec == Init /\ [][Next]_vars
-----------------------------------------------------------------------------
\* Two honest validators never commit different values for the slot, whatever
\* up to F Byzantine ones sign and however votes and view changes interleave.
Agreement ==
    \A r, s \in Honest :
        committed[r] # None /\ committed[s] # None => committed[r] = committed[s]

\* Nothing potentially committed is lost: once a quorum may have sent Commit for
\* a value, no other value is ever prepared, in that view or a later one.
CommitExcludesLater ==
    \A v \in Views, x \in Values :
        Cardinality(Voters("Commit", v, x)) >= Quorum =>
            \A w \in v .. MaxView, y \in Values : Prepared(w, y) => y = x

\* An honest validator never gives evidence for an EquivocationProof: it signs
\* one value per view and phase.
NoHonestEquivocation ==
    \A phase \in Phases, v \in Views, x, y \in Values :
        x # y => votes[<<phase, v, x>>] \cap votes[<<phase, v, y>>] = {}

\* A lock held or carried in a ViewChange can be proved: peers will accept it.
LocksProvable ==
    /\ \A r \in Honest : locked[r] # None => VerifyPreparedCert(locked[r])
    /\ \A m \in vcVotes : m.lock # None => VerifyPreparedCert(m.lock)
=============================================================================
