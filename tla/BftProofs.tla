----------------------------- MODULE BftProofs ------------------------------
(***************************************************************************)
(* Agreement of the Byzantine-fault-tolerant protocol, for every validator  *)
(* set of 3F + 1 members of which at most F are Byzantine, every set of     *)
(* values and every bound on the view.                                      *)
(*                                                                          *)
(* The argument.  Call a vote for x at view v blocked when every quorum has *)
(* an honest member that left v without sending Commit for x.  Once blocked *)
(* it stays so, and x can never be committed at v.  An honest validator     *)
(* that sent Commit for x at v is locked on x from then on unless a later   *)
(* view certified another value; so when it prepares y # x, its lock is on  *)
(* y, certified at a view above v, and by then x at v was blocked already   *)
(* (PrepareBlocks).  Two quorums share an honest member, so a certificate   *)
(* for y blocks every other value at every earlier view (CertificateBlocks).*)
(***************************************************************************)
EXTENDS Bft, FiniteSetTheorems, TLAPS

USE SMTT(30), ZenonT(30)

\* What ValidatorSet's documentation asks of a validator set.
FaultBound == N = 3 * F + 1 /\ Cardinality(Byzantine) <= F

\* Every quorum has an honest member that left view v without a Commit for x.
Blocked(v, x) ==
    \A Q \in SUBSET Validators :
        Cardinality(Q) >= Quorum =>
            \E r \in Q \cap Honest : view[r] > v /\ r \notin votes[<<"Commit", v, x>>]

\* A validator has voted in no view ahead of its own.
VotesBehind ==
    \A r \in Honest, phase \in Phases, v \in Views, x \in Values :
        r \in votes[<<phase, v, x>>] => v <= view[r]

\* Commit is sent on a certificate.
CommitBacked ==
    \A r \in Honest, v \in Views, x \in Values :
        r \in votes[<<"Commit", v, x>>] => Prepared(v, x)

\* A validator that sent Commit is locked at that view or above it.
CommitLocks ==
    \A r \in Honest, v \in Views, x \in Values :
        r \in votes[<<"Commit", v, x>>] =>
            /\ locked[r] # None
            /\ locked[r].view >= v
            /\ locked[r].view = v => locked[r].value = x

\* A validator that sent Commit for x prepares another value only once x at
\* that view is blocked.
PrepareBlocks ==
    \A r \in Honest, v, w \in Views, x, y \in Values :
        /\ r \in votes[<<"Commit", v, x>>] /\ r \in votes[<<"Prepare", w, y>>]
        /\ v < w /\ x # y
        => Blocked(v, x)

\* A committed value has a commit certificate.
CommittedBacked ==
    \A r \in Honest :
        committed[r] # None =>
            \E v \in Views : Cardinality(Voters("Commit", v, committed[r])) >= Quorum

\* The inductive invariant.
BInv ==
    /\ TypeOK
    /\ VotesBehind
    /\ NoHonestEquivocation
    /\ CommitBacked
    /\ LocksProvable
    /\ CommitLocks
    /\ PrepareBlocks
    /\ CommittedBacked
-----------------------------------------------------------------------------
(* Quorums. *)

LEMMA Numbers == N \in Nat /\ F \in Nat /\ Quorum \in Nat /\ Quorum = 2 * F + 1
  BY BftAssumption DEF F, Quorum

LEMMA Finite ==
    /\ IsFiniteSet(Validators)
    /\ Cardinality(Validators) = N
    /\ \A S \in SUBSET Validators : IsFiniteSet(S) /\ Cardinality(S) \in Nat
  <1>1. IsFiniteSet(Validators) /\ Cardinality(Validators) = N
    <2>1. 0 \in Int /\ N - 1 \in Int /\ ~(0 > N - 1) /\ (N - 1) - 0 + 1 = N
      BY BftAssumption
    <2>2. IsFiniteSet(0 .. N - 1)
          /\ Cardinality(0 .. N - 1) = IF 0 > N - 1 THEN 0 ELSE (N - 1) - 0 + 1
      BY <2>1, FS_Interval, Zenon
    <2>. QED BY <2>1, <2>2, Zenon DEF Validators
  <1>2. ASSUME NEW S \in SUBSET Validators
        PROVE  IsFiniteSet(S) /\ Cardinality(S) \in Nat
    BY <1>1, FS_Subset, FS_CardinalityType, Zenon
  <1>. QED BY <1>1, <1>2, Zenon

\* Two quorums of a set of 3F + 1 validators share an honest one.
LEMMA QuorumsMeet ==
    ASSUME FaultBound,
           NEW P \in SUBSET Validators, Cardinality(P) >= Quorum,
           NEW Q \in SUBSET Validators, Cardinality(Q) >= Quorum
    PROVE  \E r \in Honest : r \in P /\ r \in Q
  <1>. SUFFICES ASSUME P \cap Q \subseteq Byzantine PROVE FALSE
    BY Zenon DEF Honest
  <1>1. IsFiniteSet(P) /\ IsFiniteSet(Q) /\ Cardinality(P) \in Nat /\ Cardinality(Q) \in Nat
    BY Finite, Zenon
  <1>2. IsFiniteSet(Byzantine) /\ Cardinality(Byzantine) \in Nat
    BY Finite, BftAssumption, Zenon DEF Validators
  <1>3. Cardinality(P \cap Q) \in Nat /\ Cardinality(P \cap Q) <= Cardinality(Byzantine)
    BY <1>2, FS_Subset, FS_CardinalityType, Zenon
  <1>4. Cardinality(P \cup Q) = Cardinality(P) + Cardinality(Q) - Cardinality(P \cap Q)
    BY <1>1, FS_Union, Zenon
  <1>5. P \cup Q \in SUBSET Validators
    BY Zenon
  <1>6. Cardinality(P \cup Q) <= N /\ Cardinality(P \cup Q) \in Nat
    BY <1>5, Finite, FS_Subset, Zenon
  <1>. QED
    BY <1>1, <1>2, <1>3, <1>4, <1>6, Numbers DEF FaultBound

LEMMA VotersType ==
    ASSUME TypeOK, NEW phase \in Phases, NEW v \in Views, NEW x \in Values
    PROVE  /\ votes[<<phase, v, x>>] \in SUBSET Honest
           /\ Voters(phase, v, x) \in SUBSET Validators
  <1>1. <<phase, v, x>> \in Phases \X Views \X Values
    BY Zenon
  <1>2. votes[<<phase, v, x>>] \in SUBSET Honest
    BY <1>1, Zenon DEF TypeOK
  <1>. QED
    BY <1>2, BftAssumption, Zenon DEF Voters, Honest, Validators

\* Two voter sets that reach the quorum share an honest validator that voted in
\* both; a voter set and any other quorum share one that voted in the first.
LEMMA VotersMeet ==
    ASSUME FaultBound, TypeOK,
           NEW p \in Phases, NEW v \in Views, NEW x \in Values,
           Cardinality(Voters(p, v, x)) >= Quorum,
           NEW Q \in SUBSET Validators, Cardinality(Q) >= Quorum
    PROVE  \E r \in Honest : r \in votes[<<p, v, x>>] /\ r \in Q
  <1>1. PICK r \in Honest : r \in Voters(p, v, x) /\ r \in Q
    BY QuorumsMeet, VotersType, Zenon
  <1>. QED
    BY <1>1, Zenon DEF Voters, Honest
-----------------------------------------------------------------------------
(* Types, and what every step preserves. *)

\* r's vote for x in phase p of its view is added, and no other.
VoteAdded(r, p, x) ==
    \A q \in Phases, v \in Views, y \in Values :
        votes'[<<q, v, y>>] = IF q = p /\ v = view[r] /\ y = x
                              THEN votes[<<q, v, y>>] \cup {r} ELSE votes[<<q, v, y>>]

LEMMA SignVotes ==
    ASSUME TypeOK, NEW r \in Honest, NEW p \in Phases, NEW x \in Values, Sign(r, p, x)
    PROVE  /\ votes' \in [Phases \X Views \X Values -> SUBSET Honest]
           /\ VoteAdded(r, p, x)
  <1>1. view[r] \in Views
    BY Zenon DEF TypeOK
  <1>2. <<p, view[r], x>> \in Phases \X Views \X Values
    BY <1>1, Zenon
  <1>3. votes \in [Phases \X Views \X Values -> SUBSET Honest]
    BY Zenon DEF TypeOK
  <1>. QED
    BY <1>1, <1>2, <1>3, Zenon DEF Sign, VoteAdded

LEMMA TypeInit == Init => TypeOK
  <1>1. 0 \in Views
    BY BftAssumption DEF Views
  <1>. QED
    BY <1>1 DEF Init, TypeOK

LEMMA TypeStep == TypeOK /\ [Next]_vars => TypeOK'
  <1>. SUFFICES ASSUME TypeOK, [Next]_vars PROVE TypeOK'
    BY Zenon
  <1>. USE DEF TypeOK
  <1>p. "PrePrepare" \in Phases /\ "Prepare" \in Phases /\ "Commit" \in Phases
    BY Zenon DEF Phases
  <1>v. Views \subseteq Nat
    BY BftAssumption DEF Views
  <1>1. ASSUME NEW r \in Honest, NEW x \in Values, Propose(r, x) PROVE TypeOK'
    <2>1. PICK y \in Values : Sign(r, "PrePrepare", y)
      BY <1>1, Zenon DEF Propose, Lock
    <2>. QED BY <1>1, <1>p, <2>1, SignVotes, Zenon DEF Propose
  <1>2. ASSUME NEW r \in Honest, NEW x \in Values, IngestPrePrepare(r, x) PROVE TypeOK'
    BY <1>2, <1>p, SignVotes, Zenon DEF IngestPrePrepare
  <1>3. ASSUME NEW r \in Honest, NEW x \in Values, PrepareQuorum(r, x) PROVE TypeOK'
    BY <1>3, <1>p, SignVotes, Zenon DEF PrepareQuorum, Lock
  <1>4. ASSUME NEW r \in Honest, NEW v \in Views, NEW x \in Values, CommitQuorum(r, v, x)
        PROVE  TypeOK'
    BY <1>4, Zenon DEF CommitQuorum
  <1>5. ASSUME NEW r \in Honest, StartViewChange(r) PROVE TypeOK'
    <2>1. view[r] + 1 \in Views
      BY <1>5, <1>v DEF StartViewChange, Views
    <2>2. [view |-> view[r] + 1, lock |-> locked[r], signer |-> r] \in ViewChangeVote
      BY <2>1, Zenon DEF ViewChangeVote
    <2>3. vcVotes' \subseteq ViewChangeVote
      BY <1>5, <2>2, Zenon DEF StartViewChange
    <2>. QED BY <1>5, <2>3, Zenon DEF StartViewChange
  <1>6. ASSUME NEW r \in Honest, NEW m \in vcVotes, IngestViewChange(r, m) PROVE TypeOK'
    <2>1. m.view \in Views /\ m.lock \in Lock \cup {None} /\ m.signer \in Honest
      BY Zenon DEF ViewChangeVote
    <2>2. MergeLock(locked[r], m.lock) \in Lock \cup {None}
      BY <2>1, Zenon DEF MergeLock
    <2>3. locked' \in [Honest -> Lock \cup {None}]
      BY <1>6, <2>2, Zenon DEF IngestViewChange
    <2>. DEFINE signers == vcTally[r][m.view] \cup {m.signer}
    <2>4. signers \in SUBSET Honest /\ Cardinality(signers \cup Byzantine) \in Nat
      <3>1. signers \in SUBSET Honest
        BY <2>1
      <3>2. signers \cup Byzantine \in SUBSET Validators
        BY <3>1, BftAssumption, Zenon DEF Honest, Validators
      <3>. QED BY <3>1, <3>2, Finite, Zenon
    <2>5. CASE Cardinality(signers \cup Byzantine) >= Quorum
      <3>1. /\ view' = [view EXCEPT ![r] = m.view]
            /\ vcTally' = [vcTally EXCEPT ![r] =
                   [u \in Views |-> IF u <= m.view THEN {} ELSE vcTally[r][u]]]
        BY <1>6, <2>5, Zenon DEF IngestViewChange
      <3>2. m.view > view[r]
        BY <1>6, Zenon DEF IngestViewChange
      <3>3. vcTally' \in [Honest -> [Views -> SUBSET Honest]]
        BY <3>1
      <3>4. ASSUME NEW s \in Honest, NEW t \in Views, vcTally'[s][t] # {}
            PROVE  t > view'[s] /\ Cardinality(vcTally'[s][t] \cup Byzantine) < Quorum
        <4>1. CASE s = r
          <5>1. /\ vcTally'[r][t] = IF t <= m.view THEN {} ELSE vcTally[r][t]
                /\ view'[r] = m.view
            BY <3>1, Zenon
          <5>2. t \in Nat /\ m.view \in Nat /\ ~(t <= m.view)
            BY <3>4, <4>1, <5>1, <2>1, <1>v, Zenon
          <5>3. t > m.view /\ vcTally'[r][t] = vcTally[r][t]
            BY <5>1, <5>2
          <5>. QED BY <3>4, <4>1, <5>1, <5>3, Zenon
        <4>2. CASE s # r
          BY <3>1, <3>4, <4>2, Zenon
        <4>. QED BY <4>1, <4>2, Zenon
      <3>. QED BY <1>6, <2>1, <2>3, <3>1, <3>3, <3>4, Zenon DEF IngestViewChange
    <2>6. CASE ~(Cardinality(signers \cup Byzantine) >= Quorum)
      <3>1. view' = view /\ vcTally' = [vcTally EXCEPT ![r][m.view] = signers]
        BY <1>6, <2>6, Zenon DEF IngestViewChange
      <3>2. m.view > view[r] /\ Cardinality(signers \cup Byzantine) < Quorum
        BY <1>6, <2>4, <2>6, Numbers DEF IngestViewChange
      <3>3. vcTally' \in [Honest -> [Views -> SUBSET Honest]]
        BY <3>1, <2>1, <2>4, Zenon
      <3>4. ASSUME NEW s \in Honest, NEW t \in Views, vcTally'[s][t] # {}
            PROVE  t > view'[s] /\ Cardinality(vcTally'[s][t] \cup Byzantine) < Quorum
        BY <2>1, <3>1, <3>2, <3>4, Zenon
      <3>. QED BY <1>6, <2>3, <3>1, <3>3, <3>4, Zenon DEF IngestViewChange
    <2>. QED BY <2>5, <2>6, Zenon
  <1>7. ASSUME NEW r \in Honest, NEW lock \in Lock, IngestByzantineViewChange(r, lock)
        PROVE  TypeOK'
    BY <1>7, Zenon DEF IngestByzantineViewChange
  <1>8. CASE UNCHANGED vars
    BY <1>8, Zenon DEF vars
  <1>. QED
    BY <1>1, <1>2, <1>3, <1>4, <1>5, <1>6, <1>7, <1>8, Zenon DEF Next

\* Views and votes only grow, and a new vote is cast in the view it is for.
LEMMA Monotone ==
    ASSUME TypeOK, [Next]_vars
    PROVE  /\ \A r \in Honest : view[r] <= view'[r]
           /\ \A p \in Phases, v \in Views, x \in Values :
                votes[<<p, v, x>>] \subseteq votes'[<<p, v, x>>]
           /\ \A r \in Honest, p \in Phases, v \in Views, x \in Values :
                r \in votes'[<<p, v, x>>] /\ r \notin votes[<<p, v, x>>]
                    => v = view[r] /\ view' = view
  <1>. DEFINE Goal ==
        /\ \A r \in Honest : view[r] <= view'[r]
        /\ \A p \in Phases, v \in Views, x \in Values :
             votes[<<p, v, x>>] \subseteq votes'[<<p, v, x>>]
        /\ \A r \in Honest, p \in Phases, v \in Views, x \in Values :
             r \in votes'[<<p, v, x>>] /\ r \notin votes[<<p, v, x>>]
                 => v = view[r] /\ view' = view
  <1>p. "PrePrepare" \in Phases /\ "Prepare" \in Phases /\ "Commit" \in Phases
    BY Zenon DEF Phases
  <1>v. \A r \in Honest : view[r] \in Nat /\ view[r] \in Int
    BY BftAssumption DEF Views, TypeOK
  <1>s. ASSUME NEW r \in Honest, NEW p \in Phases, NEW x \in Values, Sign(r, p, x),
               view' = view
        PROVE  Goal
    <2>1. VoteAdded(r, p, x)
      BY <1>s, SignVotes, Zenon
    <2>2. \A s \in Honest : view[s] <= view'[s]
      BY <1>s, <1>v
    <2>3. ASSUME NEW q \in Phases, NEW v \in Views, NEW y \in Values
          PROVE  /\ votes[<<q, v, y>>] \subseteq votes'[<<q, v, y>>]
                 /\ \A s \in Honest :
                      s \in votes'[<<q, v, y>>] /\ s \notin votes[<<q, v, y>>]
                          => v = view[s]
      <3>1. \/ votes'[<<q, v, y>>] = votes[<<q, v, y>>]
            \/ v = view[r] /\ votes'[<<q, v, y>>] = votes[<<q, v, y>>] \cup {r}
        BY <2>1, ZenonT(40) DEF VoteAdded
      <3>. QED BY <3>1, Zenon
    <2>. QED BY <1>s, <2>2, <2>3, Zenon
  <1>u. ASSUME votes' = votes, \A r \in Honest : view[r] <= view'[r] PROVE Goal
    BY <1>u, Zenon
  <1>1. ASSUME NEW r \in Honest, NEW x \in Values, Propose(r, x) PROVE Goal
    <2>1. PICK y \in Values : Sign(r, "PrePrepare", y)
      BY <1>1, Zenon DEF Propose, Lock, TypeOK
    <2>. QED BY <1>1, <1>p, <1>s, <2>1, Zenon DEF Propose
  <1>2. ASSUME NEW r \in Honest, NEW x \in Values, IngestPrePrepare(r, x) PROVE Goal
    BY <1>2, <1>p, <1>s, Zenon DEF IngestPrePrepare
  <1>3. ASSUME NEW r \in Honest, NEW x \in Values, PrepareQuorum(r, x) PROVE Goal
    BY <1>3, <1>p, <1>s, Zenon DEF PrepareQuorum
  <1>4. ASSUME NEW r \in Honest, NEW v \in Views, NEW x \in Values, CommitQuorum(r, v, x)
        PROVE  Goal
    BY <1>4, <1>u, <1>v DEF CommitQuorum
  <1>5. ASSUME NEW r \in Honest, StartViewChange(r) PROVE Goal
    BY <1>5, <1>u, <1>v DEF StartViewChange
  <1>6. ASSUME NEW r \in Honest, NEW m \in vcVotes, IngestViewChange(r, m) PROVE Goal
    <2>1. m.view \in Nat
      BY BftAssumption DEF TypeOK, ViewChangeVote, Views
    <2>2. \A s \in Honest : view[s] <= view'[s]
      <3>1. view' = view \/ view' = [view EXCEPT ![r] = m.view]
        BY <1>6, Zenon DEF IngestViewChange
      <3>2. m.view > view[r]
        BY <1>6, Zenon DEF IngestViewChange
      <3>3. view \in [Honest -> Views]
        BY Zenon DEF TypeOK
      <3>4. ASSUME NEW s \in Honest PROVE view'[s] = view[s] \/ (s = r /\ view'[s] = m.view)
        BY <3>1, <3>3, Zenon
      <3>. QED BY <1>v, <2>1, <3>2, <3>4
    <2>. QED BY <1>6, <1>u, <2>2, Zenon DEF IngestViewChange
  <1>7. ASSUME NEW r \in Honest, NEW lock \in Lock, IngestByzantineViewChange(r, lock)
        PROVE  Goal
    BY <1>7, <1>u, <1>v DEF IngestByzantineViewChange
  <1>8. CASE UNCHANGED vars
    BY <1>8, <1>u, <1>v DEF vars
  <1>9. Goal
    BY <1>1, <1>2, <1>3, <1>4, <1>5, <1>6, <1>7, <1>8, Zenon DEF Next
  <1>. QED BY <1>9, Zenon

\* A certificate is never lost.
LEMMA CertificatesStay ==
    ASSUME TypeOK, [Next]_vars, NEW p \in Phases, NEW v \in Views, NEW x \in Values,
           Cardinality(Voters(p, v, x)) >= Quorum
    PROVE  Cardinality(Voters(p, v, x)') >= Quorum
  <1>1. TypeOK'
    BY TypeStep, Zenon
  <1>2. Voters(p, v, x) \subseteq Voters(p, v, x)'
    BY Monotone, Zenon DEF Voters
  <1>3. Voters(p, v, x) \in SUBSET Validators
    BY VotersType, Zenon
  <1>4. votes'[<<p, v, x>>] \in SUBSET Honest
    BY <1>1 DEF TypeOK
  <1>5. Voters(p, v, x)' \in SUBSET Validators
    BY <1>4, BftAssumption, Zenon DEF Voters, Honest, Validators
  <1>6. IsFiniteSet(Voters(p, v, x)') /\ Cardinality(Voters(p, v, x)') \in Nat
        /\ Cardinality(Voters(p, v, x)) \in Nat
    BY <1>3, <1>5, Finite, Zenon
  <1>7. Cardinality(Voters(p, v, x)) <= Cardinality(Voters(p, v, x)')
    BY <1>2, <1>6, FS_Subset, Zenon
  <1>. QED BY <1>6, <1>7, Numbers

\* A blocked vote stays blocked.
LEMMA BlockedStays ==
    ASSUME TypeOK, [Next]_vars, NEW v \in Views, NEW x \in Values, Blocked(v, x)
    PROVE  Blocked(v, x)'
  <1>. SUFFICES ASSUME NEW Q \in SUBSET Validators, Cardinality(Q) >= Quorum
                PROVE  \E r \in Q \cap Honest :
                           view'[r] > v /\ r \notin votes'[<<"Commit", v, x>>]
    BY Zenon DEF Blocked
  <1>1. PICK r \in Q \cap Honest : view[r] > v /\ r \notin votes[<<"Commit", v, x>>]
    BY Zenon DEF Blocked
  <1>a. TypeOK'
    BY TypeStep, Zenon
  <1>b. view[r] \in Nat /\ view'[r] \in Nat /\ v \in Nat
    BY <1>a, BftAssumption DEF TypeOK, Views
  <1>c. view[r] <= view'[r]
    BY Monotone, Zenon
  <1>2. view[r] <= view'[r] /\ view[r] \in Nat /\ view'[r] \in Nat /\ v \in Nat
    BY <1>b, <1>c, Zenon
  <1>3. r \notin votes'[<<"Commit", v, x>>]
    BY <1>1, <1>2, Monotone DEF Phases
  <1>. QED BY <1>1, <1>2, <1>3

\* The guard under which r casts a vote for x in phase p, and what goes with it.
CastsVote(r, p, x) ==
    /\ ~HasVoted(r, p)
    /\ p = "Prepare" /\ locked[r] # None => locked[r].value = x
    /\ p = "Commit" => /\ Prepared(view[r], x)
                       /\ locked'[r] = [view |-> view[r], value |-> x]

\* Every vote that appears was cast under its guard, one at a time.
LEMMA NewVotes ==
    ASSUME TypeOK, [Next]_vars, NEW r \in Honest, NEW p \in Phases, NEW v \in Views,
           NEW x \in Values, r \in votes'[<<p, v, x>>], r \notin votes[<<p, v, x>>]
    PROVE  /\ v = view[r]
           /\ CastsVote(r, p, x)
           /\ \A y \in Values : r \in votes'[<<p, v, y>>] => r \in votes[<<p, v, y>>] \/ y = x
  <1>. DEFINE Goal ==
        /\ v = view[r]
        /\ CastsVote(r, p, x)
        /\ \A y \in Values : r \in votes'[<<p, v, y>>] => r \in votes[<<p, v, y>>] \/ y = x
  <1>p. "PrePrepare" \in Phases /\ "Prepare" \in Phases /\ "Commit" \in Phases
    BY Zenon DEF Phases
  <1>d. "PrePrepare" # "Prepare" /\ "PrePrepare" # "Commit" /\ "Prepare" # "Commit"
    BY Zenon
  <1>s. ASSUME NEW s \in Honest, NEW q \in Phases, NEW z \in Values, Sign(s, q, z)
        PROVE  /\ s = r /\ q = p /\ z = x /\ v = view[r]
               /\ \A y \in Values : r \in votes'[<<p, v, y>>] => r \in votes[<<p, v, y>>] \/ y = x
    <2>1. VoteAdded(s, q, z)
      BY <1>s, SignVotes, Zenon
    <2>2. s = r /\ q = p /\ z = x /\ v = view[r]
      <3>1. votes'[<<p, v, x>>] = IF p = q /\ v = view[s] /\ x = z
                                  THEN votes[<<p, v, x>>] \cup {s} ELSE votes[<<p, v, x>>]
        BY <2>1, Zenon DEF VoteAdded
      <3>. QED BY <3>1, Zenon
    <2>3. ASSUME NEW y \in Values, r \in votes'[<<p, v, y>>]
          PROVE  r \in votes[<<p, v, y>>] \/ y = x
      <3>1. votes'[<<p, v, y>>] = IF p = q /\ v = view[s] /\ y = z
                                  THEN votes[<<p, v, y>>] \cup {s} ELSE votes[<<p, v, y>>]
        BY <2>1 DEF VoteAdded
      <3>. QED BY <2>2, <2>3, <3>1, Zenon
    <2>. QED BY <2>2, <2>3, Zenon
  <1>1. ASSUME NEW s \in Honest, NEW z \in Values, Propose(s, z) PROVE Goal
    <2>1. PICK y \in Values : Sign(s, "PrePrepare", y)
      BY <1>1, Zenon DEF Propose, Lock, TypeOK
    <2>2. s = r /\ p = "PrePrepare" /\ v = view[r]
          /\ \A u \in Values : r \in votes'[<<p, v, u>>] => r \in votes[<<p, v, u>>] \/ u = x
      BY <1>p, <1>s, <2>1, Zenon
    <2>. QED BY <1>1, <1>d, <2>2, Zenon DEF Propose, CastsVote
  <1>2. ASSUME NEW s \in Honest, NEW z \in Values, IngestPrePrepare(s, z) PROVE Goal
    <2>1. s = r /\ p = "Prepare" /\ z = x /\ v = view[r]
          /\ \A u \in Values : r \in votes'[<<p, v, u>>] => r \in votes[<<p, v, u>>] \/ u = x
      BY <1>2, <1>p, <1>s, Zenon DEF IngestPrePrepare
    <2>. QED BY <1>2, <1>d, <2>1, Zenon DEF IngestPrePrepare, CastsVote
  <1>3. ASSUME NEW s \in Honest, NEW z \in Values, PrepareQuorum(s, z) PROVE Goal
    <2>1. s = r /\ p = "Commit" /\ z = x /\ v = view[r]
          /\ \A u \in Values : r \in votes'[<<p, v, u>>] => r \in votes[<<p, v, u>>] \/ u = x
      BY <1>3, <1>p, <1>s, Zenon DEF PrepareQuorum
    <2>2. locked'[r] = [view |-> view[r], value |-> x]
      BY <1>3, <2>1, Zenon DEF PrepareQuorum, TypeOK
    <2>. QED BY <1>3, <1>d, <2>1, <2>2, Zenon DEF PrepareQuorum, CastsVote
  <1>4. ASSUME votes' = votes PROVE Goal
    BY <1>4, Zenon
  <1>5. CASE UNCHANGED vars
    BY <1>5, <1>4, Zenon DEF vars
  <1>6. ASSUME NEW s \in Honest, NEW u \in Views, NEW z \in Values, CommitQuorum(s, u, z)
        PROVE  Goal
    BY <1>4, <1>6, Zenon DEF CommitQuorum
  <1>7. ASSUME NEW s \in Honest, StartViewChange(s) PROVE Goal
    BY <1>4, <1>7, Zenon DEF StartViewChange
  <1>8. ASSUME NEW s \in Honest, NEW m \in vcVotes, IngestViewChange(s, m) PROVE Goal
    BY <1>4, <1>8, Zenon DEF IngestViewChange
  <1>9. ASSUME NEW s \in Honest, NEW lock \in Lock, IngestByzantineViewChange(s, lock)
        PROVE  Goal
    BY <1>4, <1>9, Zenon DEF IngestByzantineViewChange
  <1>10. Goal
    BY <1>1, <1>2, <1>3, <1>5, <1>6, <1>7, <1>8, <1>9 DEF Next
  <1>. QED BY <1>10, Zenon

\* A lock stays, or is replaced by a higher one that is certified, or by the
\* value prepared in the current view.
LEMMA LockSteps ==
    ASSUME TypeOK, [Next]_vars, NEW r \in Honest
    PROVE  \/ locked'[r] = locked[r]
           \/ /\ locked'[r] \in Lock /\ VerifyPreparedCert(locked'[r])
              /\ locked[r] = None \/ locked[r].view < locked'[r].view
           \/ \E x \in Values : /\ locked'[r] = [view |-> view[r], value |-> x]
                                /\ Prepared(view[r], x)
                                /\ ~HasVoted(r, "Commit")
  <1>. DEFINE Goal ==
           \/ locked'[r] = locked[r]
           \/ /\ locked'[r] \in Lock /\ VerifyPreparedCert(locked'[r])
              /\ locked[r] = None \/ locked[r].view < locked'[r].view
           \/ \E x \in Values : /\ locked'[r] = [view |-> view[r], value |-> x]
                                /\ Prepared(view[r], x)
                                /\ ~HasVoted(r, "Commit")
  <1>t. locked \in [Honest -> Lock \cup {None}]
    BY Zenon DEF TypeOK
  <1>m. ASSUME NEW s \in Honest, NEW lock \in Lock \cup {None},
               locked' = [locked EXCEPT ![s] = MergeLock(locked[s], lock)]
        PROVE  Goal
    <2>1. CASE s = r
      <3>1. locked'[r] = MergeLock(locked[r], lock)
        BY <1>m, <1>t, <2>1, Zenon
      <3>. QED BY <3>1, Zenon DEF MergeLock
    <2>2. CASE s # r
      BY <1>m, <1>t, <2>2, Zenon
    <2>. QED BY <2>1, <2>2, Zenon
  <1>1. ASSUME NEW s \in Honest, NEW x \in Values, PrepareQuorum(s, x) PROVE Goal
    <2>1. locked' = [locked EXCEPT ![s] = [view |-> view[s], value |-> x]]
      BY <1>1, Zenon DEF PrepareQuorum
    <2>2. CASE s = r
      BY <1>1, <1>t, <2>1, <2>2, Zenon DEF PrepareQuorum
    <2>3. CASE s # r
      BY <1>t, <2>1, <2>3, Zenon
    <2>. QED BY <2>2, <2>3, Zenon
  <1>2. ASSUME NEW s \in Honest, NEW m \in vcVotes, IngestViewChange(s, m) PROVE Goal
    <2>1. m.lock \in Lock \cup {None}
      BY Zenon DEF TypeOK, ViewChangeVote
    <2>. HIDE DEF Goal
    <2>. QED BY <1>2, <1>m, <2>1, Zenon DEF IngestViewChange
  <1>3. ASSUME NEW s \in Honest, NEW lock \in Lock, IngestByzantineViewChange(s, lock)
        PROVE  Goal
    <2>1. locked' = [locked EXCEPT ![s] = MergeLock(locked[s], lock)]
      BY <1>3, Zenon DEF IngestByzantineViewChange
    <2>. HIDE DEF Goal
    <2>. QED BY <1>m, <2>1, Zenon
  <1>4. ASSUME locked' = locked PROVE Goal
    BY <1>4, Zenon
  <1>5. CASE UNCHANGED vars
    BY <1>5, <1>4, Zenon DEF vars
  <1>6. ASSUME NEW s \in Honest, NEW x \in Values, Propose(s, x) PROVE Goal
    BY <1>4, <1>6, Zenon DEF Propose
  <1>7. ASSUME NEW s \in Honest, NEW x \in Values, IngestPrePrepare(s, x) PROVE Goal
    BY <1>4, <1>7, Zenon DEF IngestPrePrepare
  <1>8. ASSUME NEW s \in Honest, NEW u \in Views, NEW x \in Values, CommitQuorum(s, u, x)
        PROVE  Goal
    BY <1>4, <1>8, Zenon DEF CommitQuorum
  <1>9. ASSUME NEW s \in Honest, StartViewChange(s) PROVE Goal
    BY <1>4, <1>9, Zenon DEF StartViewChange
  <1>10. Goal
    BY <1>1, <1>2, <1>3, <1>5, <1>6, <1>7, <1>8, <1>9, Zenon DEF Next
  <1>. QED BY <1>10, Zenon
-----------------------------------------------------------------------------
(* The invariant. *)

\* A certificate for y rules out every other value at every earlier view.
LEMMA CertificateBlocks ==
    ASSUME FaultBound, TypeOK, VotesBehind, PrepareBlocks,
           NEW v \in Views, NEW w \in Views, NEW x \in Values, NEW y \in Values,
           Prepared(w, y), v < w, x # y
    PROVE  Blocked(v, x)
  <1>. SUFFICES ASSUME NEW Q \in SUBSET Validators, Cardinality(Q) >= Quorum
                PROVE  \E r \in Q \cap Honest :
                           view[r] > v /\ r \notin votes[<<"Commit", v, x>>]
    BY Zenon DEF Blocked
  <1>p. "Prepare" \in Phases /\ "Commit" \in Phases
    BY Zenon DEF Phases
  <1>1. PICK r \in Honest : r \in votes[<<"Prepare", w, y>>] /\ r \in Q
    BY <1>p, VotersMeet, Zenon DEF Prepared
  <1>2. w <= view[r]
    BY <1>1, <1>p, Zenon DEF VotesBehind
  <1>3. view[r] \in Nat /\ v \in Nat /\ w \in Nat
    BY BftAssumption DEF TypeOK, Views
  <1>4. view[r] > v
    BY <1>2, <1>3
  <1>5. CASE r \notin votes[<<"Commit", v, x>>]
    BY <1>1, <1>4, <1>5, Zenon
  <1>6. CASE r \in votes[<<"Commit", v, x>>]
    <2>1. Blocked(v, x)
      BY <1>1, <1>6, Zenon DEF PrepareBlocks
    <2>. QED BY <2>1, Zenon DEF Blocked
  <1>. QED BY <1>5, <1>6, Zenon

\* A blocked value has no commit certificate.
LEMMA BlockedUncertified ==
    ASSUME FaultBound, TypeOK, NEW v \in Views, NEW x \in Values, Blocked(v, x)
    PROVE  ~(Cardinality(Voters("Commit", v, x)) >= Quorum)
  <1>. SUFFICES ASSUME Cardinality(Voters("Commit", v, x)) >= Quorum PROVE FALSE
    BY Zenon
  <1>p. "Commit" \in Phases
    BY Zenon DEF Phases
  <1>1. Voters("Commit", v, x) \in SUBSET Validators
    BY <1>p, VotersType, Zenon
  <1>2. PICK r \in Voters("Commit", v, x) \cap Honest : r \notin votes[<<"Commit", v, x>>]
    BY <1>1, Zenon DEF Blocked
  <1>. QED BY <1>2, Zenon DEF Voters, Honest

LEMMA BInvInit == Init => BInv
  <1>. SUFFICES ASSUME Init PROVE BInv
    BY Zenon
  <1>1. TypeOK
    BY TypeInit, Zenon
  <1>2. \A p \in Phases, v \in Views, x \in Values : votes[<<p, v, x>>] = {}
    BY Zenon DEF Init
  <1>3. \A r \in Honest : locked[r] = None /\ committed[r] = None
    BY Zenon DEF Init
  <1>4. vcVotes = {}
    BY Zenon DEF Init
  <1>p. "Prepare" \in Phases /\ "Commit" \in Phases
    BY Zenon DEF Phases
  <1>5. VotesBehind /\ NoHonestEquivocation
    BY <1>2, Zenon DEF VotesBehind, NoHonestEquivocation
  <1>6. CommitBacked /\ CommitLocks /\ PrepareBlocks
    BY <1>2, <1>p DEF CommitBacked, CommitLocks, PrepareBlocks
  <1>7. LocksProvable /\ CommittedBacked
    BY <1>3, <1>4, Zenon DEF LocksProvable, CommittedBacked
  <1>. QED BY <1>1, <1>5, <1>6, <1>7, Zenon DEF BInv

\* Only a validator's own lock goes into its view-change vote.
LEMMA CarriedLocks ==
    ASSUME TypeOK, [Next]_vars, NEW m \in vcVotes'
    PROVE  m \in vcVotes \/ \E r \in Honest : m.lock = locked[r]
  <1>. DEFINE Goal == m \in vcVotes \/ \E r \in Honest : m.lock = locked[r]
  <1>1. ASSUME NEW r \in Honest, StartViewChange(r) PROVE Goal
    BY <1>1 DEF StartViewChange
  <1>2. ASSUME vcVotes' = vcVotes PROVE Goal
    BY <1>2, Zenon
  <1>3. (\E r \in Honest : StartViewChange(r)) \/ vcVotes' = vcVotes
    BY Zenon DEF Next, vars, Propose, IngestPrePrepare, PrepareQuorum, CommitQuorum,
           IngestViewChange, IngestByzantineViewChange
  <1>. QED BY <1>1, <1>2, <1>3, Zenon

\* A validator commits a certified value, and keeps it.
LEMMA CommitSteps ==
    ASSUME TypeOK, [Next]_vars, NEW r \in Honest, committed'[r] # None
    PROVE  \/ committed'[r] = committed[r]
           \/ /\ committed'[r] \in Values
              /\ \E v \in Views : Cardinality(Voters("Commit", v, committed'[r])) >= Quorum
  <1>1. (\E s \in Honest, v \in Views, x \in Values : CommitQuorum(s, v, x))
        \/ committed' = committed
    BY Zenon DEF Next, vars, Propose, IngestPrePrepare, PrepareQuorum, StartViewChange,
           IngestViewChange, IngestByzantineViewChange
  <1>2. ASSUME NEW s \in Honest, NEW v \in Views, NEW x \in Values, CommitQuorum(s, v, x)
        PROVE  committed'[r] = committed[r] \/ (s = r /\ committed'[r] = x)
    BY <1>2, Zenon DEF CommitQuorum, TypeOK
  <1>. QED BY <1>1, <1>2, Zenon DEF CommitQuorum

LEMMA BInvStep ==
    ASSUME FaultBound, BInv, [Next]_vars
    PROVE  BInv'
  <1>. USE DEF BInv
  <1>p. "PrePrepare" \in Phases /\ "Prepare" \in Phases /\ "Commit" \in Phases
    BY Zenon DEF Phases
  <1>t. TypeOK'
    BY TypeStep, Zenon
  <1>n. /\ \A r \in Honest : view[r] \in Nat /\ view'[r] \in Nat /\ view[r] \in Views
        /\ \A v \in Views : v \in Nat
    BY <1>t, BftAssumption DEF TypeOK, Views
  <1>c. ASSUME NEW v \in Views, NEW x \in Values, Prepared(v, x) PROVE Prepared(v, x)'
    BY <1>c, <1>p, CertificatesStay, Zenon DEF Prepared
  <1>1. VotesBehind'
    <2>. SUFFICES ASSUME NEW r \in Honest, NEW p \in Phases, NEW v \in Views,
                         NEW x \in Values, r \in votes'[<<p, v, x>>]
                  PROVE  v <= view'[r]
      BY Zenon DEF VotesBehind
    <2>1. view[r] <= view'[r]
      BY Monotone, Zenon
    <2>2. v <= view[r]
      <3>1. CASE r \in votes[<<p, v, x>>]
        BY <3>1, Zenon DEF VotesBehind
      <3>2. CASE r \notin votes[<<p, v, x>>]
        BY <1>n, <3>2, NewVotes
      <3>. QED BY <3>1, <3>2, Zenon
    <2>. QED BY <1>n, <2>1, <2>2
  <1>2. NoHonestEquivocation'
    <2>. SUFFICES ASSUME NEW p \in Phases, NEW v \in Views, NEW x \in Values, NEW y \in Values,
                         x # y, NEW r, r \in votes'[<<p, v, x>>], r \in votes'[<<p, v, y>>]
                  PROVE  FALSE
      BY Zenon DEF NoHonestEquivocation
    <2>1. r \in Honest
      BY <1>t DEF TypeOK
    <2>2. ASSUME NEW z \in Values, r \in votes'[<<p, v, z>>], r \notin votes[<<p, v, z>>]
          PROVE  /\ \A u \in Values : r \notin votes[<<p, v, u>>]
                 /\ \A u \in Values : r \in votes'[<<p, v, u>>] =>
                                          r \in votes[<<p, v, u>>] \/ u = z
      <3>1. /\ v = view[r]
            /\ CastsVote(r, p, z)
            /\ \A u \in Values : r \in votes'[<<p, v, u>>] =>
                                     r \in votes[<<p, v, u>>] \/ u = z
        BY <2>1, <2>2, NewVotes, Zenon
      <3>. QED BY <3>1, Zenon DEF CastsVote, HasVoted
    <2>3. CASE r \in votes[<<p, v, x>>] /\ r \in votes[<<p, v, y>>]
      BY <2>3, Zenon DEF NoHonestEquivocation
    <2>4. CASE r \notin votes[<<p, v, x>>]
      BY <2>2, <2>4, Zenon
    <2>5. CASE r \notin votes[<<p, v, y>>]
      BY <2>2, <2>5, Zenon
    <2>. QED BY <2>3, <2>4, <2>5, Zenon
  <1>3. CommitBacked'
    <2>. SUFFICES ASSUME NEW r \in Honest, NEW v \in Views, NEW x \in Values,
                         r \in votes'[<<"Commit", v, x>>]
                  PROVE  Prepared(v, x)'
      BY Zenon DEF CommitBacked
    <2>1. CASE r \in votes[<<"Commit", v, x>>]
      BY <1>c, <2>1, Zenon DEF CommitBacked
    <2>2. CASE r \notin votes[<<"Commit", v, x>>]
      <3>1. v = view[r] /\ CastsVote(r, "Commit", x)
        BY <1>p, <2>2, NewVotes, Zenon
      <3>2. Prepared(v, x)
        BY <3>1, Zenon DEF CastsVote
      <3>. QED BY <1>c, <3>2, Zenon
    <2>. QED BY <2>1, <2>2, Zenon
  <1>4. LocksProvable'
    <2>1. ASSUME NEW lock \in Lock, VerifyPreparedCert(lock) PROVE VerifyPreparedCert(lock)'
      BY <1>c, <2>1, Zenon DEF VerifyPreparedCert, Lock
    <2>2. \A r \in Honest : locked[r] \in Lock \cup {None} /\ locked'[r] \in Lock \cup {None}
      BY <1>t, Zenon DEF TypeOK
    <2>3. \A m \in vcVotes : m.lock \in Lock \cup {None}
      BY Zenon DEF TypeOK, ViewChangeVote
    <2>4. ASSUME NEW r \in Honest, locked'[r] # None PROVE VerifyPreparedCert(locked[r])'
      <3>1. PICK lock \in Lock : lock = locked'[r]
        BY <2>2, <2>4, Zenon
      <3>2. VerifyPreparedCert(lock)
        <4>1. CASE lock = locked[r]
          BY <2>4, <3>1, <4>1, Zenon DEF LocksProvable
        <4>2. ASSUME NEW x \in Values, lock = [view |-> view[r], value |-> x],
                     Prepared(view[r], x)
              PROVE  VerifyPreparedCert(lock)
          BY <4>2, Zenon DEF VerifyPreparedCert
        <4>. QED BY <3>1, <4>1, <4>2, LockSteps, Zenon
      <3>3. VerifyPreparedCert(lock)'
        BY <2>1, <3>2, Zenon
      <3>. QED BY <3>1, <3>3, Zenon DEF VerifyPreparedCert, Prepared, Voters
    <2>5. ASSUME NEW m \in vcVotes', m.lock # None PROVE VerifyPreparedCert(m.lock)'
      BY <2>1, <2>2, <2>3, <2>5, CarriedLocks, Zenon DEF LocksProvable
    <2>. QED BY <2>4, <2>5, Zenon DEF LocksProvable
  <1>5. CommitLocks'
    <2>. SUFFICES ASSUME NEW r \in Honest, NEW v \in Views, NEW x \in Values,
                         r \in votes'[<<"Commit", v, x>>]
                  PROVE  /\ locked'[r] # None
                         /\ locked'[r].view >= v
                         /\ locked'[r].view = v => locked'[r].value = x
      BY Zenon DEF CommitLocks
    <2>1. CASE r \notin votes[<<"Commit", v, x>>]
      <3>1. locked'[r] = [view |-> v, value |-> x]
        BY <1>p, <2>1, NewVotes, ZenonT(40) DEF CastsVote
      <3>2. locked'[r] \in [view : Nat, value : Values]
        BY <1>n, <3>1
      <3>. QED BY <1>n, <3>1, <3>2, BftAssumption
    <2>2. CASE r \in votes[<<"Commit", v, x>>]
      <3>1. /\ locked[r] # None /\ locked[r].view >= v
            /\ locked[r].view = v => locked[r].value = x
        BY <2>2, Zenon DEF CommitLocks
      <3>2. locked[r] \in Lock /\ locked[r].view \in Nat
        BY <1>n, <3>1, Zenon DEF TypeOK, Lock
      <3>3. CASE locked'[r] = locked[r]
        BY <3>1, <3>3, Zenon
      <3>4. CASE locked'[r] \in Lock /\ locked[r].view < locked'[r].view
        <4>1. locked'[r].view \in Nat /\ v \in Nat
          BY <1>n, <3>4, Zenon DEF Lock
        <4>2. locked'[r].view > v
          BY <3>1, <3>2, <3>4, <4>1
        <4>3. locked'[r] # None
          BY <1>n, <3>4, BftAssumption, Zenon DEF Lock
        <4>. QED BY <4>1, <4>2, <4>3
      <3>5. ASSUME NEW y \in Values, locked'[r] = [view |-> view[r], value |-> y],
                   ~HasVoted(r, "Commit")
            PROVE  /\ locked'[r] # None
                   /\ locked'[r].view >= v
                   /\ locked'[r].view = v => locked'[r].value = x
        <4>1. v <= view[r]
          BY <1>p, <2>2, Zenon DEF VotesBehind
        <4>2. v # view[r]
          BY <2>2, <3>5, Zenon DEF HasVoted
        <4>3. locked'[r] \in [view : Nat, value : Values] /\ locked'[r].view = view[r]
          BY <1>n, <3>5
        <4>. QED BY <1>n, <4>1, <4>2, <4>3, BftAssumption, Zenon
      <3>. QED BY <3>1, <3>3, <3>4, <3>5, LockSteps, Zenon
    <2>. QED BY <2>1, <2>2, Zenon
  <1>6. PrepareBlocks'
    <2>. SUFFICES ASSUME NEW r \in Honest, NEW v \in Views, NEW w \in Views,
                         NEW x \in Values, NEW y \in Values, v < w, x # y,
                         r \in votes'[<<"Commit", v, x>>], r \in votes'[<<"Prepare", w, y>>]
                  PROVE  Blocked(v, x)'
      BY DEF PrepareBlocks
    <2>1. Blocked(v, x)
      <3>1. CASE r \in votes[<<"Commit", v, x>>] /\ r \in votes[<<"Prepare", w, y>>]
        BY <3>1, Zenon DEF PrepareBlocks
      <3>2. CASE r \notin votes[<<"Commit", v, x>>]
        <4>1. v = view'[r]
          BY <1>p, <3>2, Monotone, Zenon
        <4>2. w <= view'[r]
          BY <1>1, <1>p, Zenon DEF VotesBehind
        <4>. QED BY <1>n, <4>1, <4>2
      <3>3. CASE r \in votes[<<"Commit", v, x>>] /\ r \notin votes[<<"Prepare", w, y>>]
        <4>1. locked[r] # None => locked[r].value = y
          BY <1>p, <3>3, NewVotes, ZenonT(40) DEF CastsVote
        <4>2. /\ locked[r] # None /\ locked[r].view >= v
              /\ locked[r].view = v => locked[r].value = x
          BY <3>3, Zenon DEF CommitLocks
        <4>3. PICK u \in Views : u = locked[r].view
          BY <4>2, Zenon DEF TypeOK, Lock
        <4>4. Prepared(u, y)
          BY <4>1, <4>2, <4>3, Zenon DEF LocksProvable, VerifyPreparedCert
        <4>5. v < u
          BY <1>n, <4>1, <4>2, <4>3
        <4>. QED BY <4>4, <4>5, CertificateBlocks, Zenon
      <3>. QED BY <3>1, <3>2, <3>3, Zenon
    <2>. QED BY <2>1, BlockedStays, Zenon
  <1>7. CommittedBacked'
    <2>. SUFFICES ASSUME NEW r \in Honest, committed'[r] # None
                  PROVE  \E v \in Views : Cardinality(Voters("Commit", v, committed[r])') >= Quorum
      BY Zenon DEF CommittedBacked
    <2>1. PICK x \in Values : x = committed'[r]
      BY <1>t, Zenon DEF TypeOK
    <2>2. PICK v \in Views : Cardinality(Voters("Commit", v, x)) >= Quorum
      BY <2>1, CommitSteps, Zenon DEF CommittedBacked
    <2>3. Cardinality(Voters("Commit", v, x)') >= Quorum
      BY <1>p, <2>2, CertificatesStay, Zenon
    <2>. QED BY <2>1, <2>3, Zenon DEF Voters
  <1>. QED BY <1>t, <1>1, <1>2, <1>3, <1>4, <1>5, <1>6, <1>7
-----------------------------------------------------------------------------
(* The theorems. *)

\* The inductive invariant holds in every reachable state: with 3F + 1
\* validators of which at most F are Byzantine, the votes, locks and view changes
\* of the honest ones keep a committed value alive (bft.rs, Validator).
THEOREM BftInvariant == ASSUME FaultBound PROVE Spec => []BInv
  <1>1. Init => BInv
    BY BInvInit, Zenon
  <1>2. BInv /\ [Next]_vars => BInv'
    BY BInvStep, Zenon
  <1>. QED BY <1>1, <1>2, PTL DEF Spec

\* Type correctness, for any number of validators and Byzantine ones: a pending
\* view-change tally is for a view ahead and below the quorum (ingest_view_change).
THEOREM BftTypeCorrect == Spec => []TypeOK
  <1>. QED BY TypeInit, TypeStep, PTL DEF Spec

\* A possible commit excludes every other certificate, in its view and later:
\* the locks that ingest_prepare takes and view changes carry do their work.
LEMMA BInvExcludes == ASSUME FaultBound, BInv PROVE CommitExcludesLater
  <1>. SUFFICES ASSUME NEW v \in Views, NEW x \in Values,
                       Cardinality(Voters("Commit", v, x)) >= Quorum,
                       NEW w \in v .. MaxView, NEW y \in Values, Prepared(w, y), y # x
                PROVE  FALSE
    BY Zenon DEF CommitExcludesLater
  <1>p. "Prepare" \in Phases /\ "Commit" \in Phases
    BY Zenon DEF Phases
  <1>t. TypeOK
    BY Zenon DEF BInv
  <1>n. w \in Views /\ v \in Nat /\ w \in Nat /\ v <= w
    BY BftAssumption DEF Views
  <1>1. CASE v < w
    <2>1. Blocked(v, x)
      BY <1>1, <1>n, CertificateBlocks, Zenon DEF BInv
    <2>. QED BY <1>t, <2>1, BlockedUncertified, Zenon
  <1>2. CASE v = w
    <2>1. Voters("Commit", v, x) \in SUBSET Validators
      BY <1>p, <1>t, VotersType, Zenon
    <2>2. PICK r \in Honest : r \in votes[<<"Commit", v, x>>]
      BY <1>p, <1>t, <2>1, VotersMeet, Zenon
    <2>3. Prepared(v, x)
      BY <2>2, Zenon DEF BInv, CommitBacked
    <2>4. Voters("Prepare", v, y) \in SUBSET Validators
      BY <1>p, <1>t, VotersType, Zenon
    <2>5. PICK s \in Honest : s \in votes[<<"Prepare", v, x>>] /\ s \in Voters("Prepare", v, y)
      BY <1>2, <1>p, <1>t, <2>3, <2>4, VotersMeet, Zenon DEF Prepared
    <2>6. s \in votes[<<"Prepare", v, y>>]
      BY <2>5, Zenon DEF Voters, Honest
    <2>. QED BY <1>p, <2>5, <2>6, Zenon DEF BInv, NoHonestEquivocation
  <1>. QED BY <1>1, <1>2, <1>n

\* Once a quorum may have sent Commit for a value, no other value is prepared in
\* that view or a later one (ingest_preprepare honours the lock).
THEOREM BftCommitExcludesLater == ASSUME FaultBound PROVE Spec => []CommitExcludesLater
  <1>1. BInv => CommitExcludesLater
    BY BInvExcludes, Zenon
  <1>. QED BY <1>1, BftInvariant, PTL

LEMMA BInvAgreement == ASSUME FaultBound, BInv PROVE Agreement
  <1>. SUFFICES ASSUME NEW r \in Honest, NEW s \in Honest,
                       committed[r] # None, committed[s] # None
                PROVE  committed[r] = committed[s]
    BY Zenon DEF Agreement
  <1>p. "Prepare" \in Phases /\ "Commit" \in Phases
    BY Zenon DEF Phases
  <1>t. TypeOK
    BY Zenon DEF BInv
  <1>1. PICK x \in Values, y \in Values : x = committed[r] /\ y = committed[s]
    BY <1>t, Zenon DEF TypeOK
  <1>2. PICK v \in Views : Cardinality(Voters("Commit", v, x)) >= Quorum
    BY <1>1, Zenon DEF BInv, CommittedBacked
  <1>3. PICK w \in Views : Cardinality(Voters("Commit", w, y)) >= Quorum
    BY <1>1, Zenon DEF BInv, CommittedBacked
  <1>c. ASSUME NEW u \in Views, NEW z \in Values,
               Cardinality(Voters("Commit", u, z)) >= Quorum
        PROVE  Prepared(u, z)
    <2>1. Voters("Commit", u, z) \in SUBSET Validators
      BY <1>p, <1>t, VotersType, Zenon
    <2>2. PICK q \in Honest : q \in votes[<<"Commit", u, z>>]
      BY <1>c, <1>p, <1>t, <2>1, VotersMeet, Zenon
    <2>. QED BY <2>2, Zenon DEF BInv, CommitBacked
  <1>4. Prepared(v, x) /\ Prepared(w, y)
    BY <1>2, <1>3, <1>c, Zenon
  <1>5. w \in v .. MaxView \/ v \in w .. MaxView
    BY BftAssumption DEF Views
  <1>6. x = y
    BY <1>2, <1>3, <1>4, <1>5, BInvExcludes, Zenon DEF CommitExcludesLater
  <1>. QED BY <1>1, <1>6, Zenon

\* Two honest validators never commit different values for the slot: what the
\* module documentation of bft.rs promises.
THEOREM BftAgreement == ASSUME FaultBound PROVE Spec => []Agreement
  <1>1. BInv => Agreement
    BY BInvAgreement, Zenon
  <1>. QED BY <1>1, BftInvariant, PTL

\* An honest validator is never provably equivocating (EquivocationProof), and a
\* lock it holds or hands on has its certificate (verify_prepared_cert).
THEOREM BftHonestVotes ==
    ASSUME FaultBound PROVE Spec => [](NoHonestEquivocation /\ LocksProvable)
  <1>1. BInv => NoHonestEquivocation /\ LocksProvable
    BY Zenon DEF BInv
  <1>. QED BY <1>1, BftInvariant, PTL
=============================================================================
