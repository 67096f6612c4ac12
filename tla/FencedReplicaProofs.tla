-------------------------- MODULE FencedReplicaProofs --------------------------
(***************************************************************************)
(* Proofs about FencedReplica for any replicas, keys, values and stamps,   *)
(* and about the clock (Hlc) that issues the stamps.                        *)
(*                                                                          *)
(* NoResurrection is not inductive.  It follows from FInv: until a counter  *)
(* wraps around, cells and messages are well formed (LiveAboveFence) and     *)
(* every abandoned write is at or below the fence its replica now holds for  *)
(* the key.                                                                  *)
(***************************************************************************)
EXTENDS FencedReplica, TLAPS

USE SMTT(30), ZenonT(30)

AbandonedFenced ==
    \A r \in Replicas : \A ab \in abandoned[r] :
        /\ cells[r][ab[1]] # Absent
        /\ AtMost(ab[2], cells[r][ab[1]].fence)

FInv == TypeOK /\ (~wrapped => LiveAboveFence /\ AbandonedFenced)

\* The cell operations see: absent, or a well-formed cell.
GoodCell(c) == c = Absent \/ (c \in Cell /\ WellFormed(c))

\* The constant Absent is not a cell.
LEMMA AbsentNotCell == Absent \notin Cell
BY FencedAssumption, Zenon DEF FencedAssumption, Cell

\* The types of a cell's fields.
LEMMA CellParts ==
    ASSUME NEW c \in Cell
    PROVE  /\ c.stamp \in Timestamp /\ c.fence \in Timestamp
           /\ c.vhash \in Nat /\ c.tombstoned \in BOOLEAN
<1>1. /\ c.stamp \in Timestamp /\ c.fence \in Timestamp
      /\ c.vhash \in Values \cup {0} /\ c.tombstoned \in BOOLEAN
  BY Zenon DEF Cell
<1>2. Values \cup {0} \subseteq Nat
  BY FencedAssumption DEF FencedAssumption
<1> QED BY <1>1, <1>2, Zenon

\* The derived order on timestamps is a total order.
LEMMA TimestampOrder ==
    /\ \A s \in Timestamp : ~Before(s, s)
    /\ \A s, t \in Timestamp : Before(s, t) \/ Before(t, s) \/ s = t
    /\ \A s, t \in Timestamp : ~(Before(s, t) /\ Before(t, s))
    /\ \A s, t, u \in Timestamp : Before(s, t) /\ Before(t, u) => Before(s, u)
<1>1. \A s \in Timestamp : ~Before(s, s)
  BY DEF Before, Timestamp
<1>2. \A s, t \in Timestamp : Before(s, t) \/ Before(t, s) \/ s = t
  <2> SUFFICES ASSUME NEW s \in Timestamp, NEW t \in Timestamp,
                      ~Before(s, t), ~Before(t, s)
               PROVE  s = t
    BY Zenon
  <2>1. s.wall = t.wall /\ s.logical = t.logical
    BY DEF Before, Timestamp
  <2> QED BY <2>1 DEF Timestamp
<1>3. \A s, t \in Timestamp : ~(Before(s, t) /\ Before(t, s))
  BY DEF Before, Timestamp
<1>4. \A s, t, u \in Timestamp : Before(s, t) /\ Before(t, u) => Before(s, u)
  BY DEF Before, Timestamp
<1> QED BY <1>1, <1>2, <1>3, <1>4, Zenon

\* Later is the least upper bound of two timestamps.
LEMMA LaterBounds ==
    ASSUME NEW s \in Timestamp, NEW t \in Timestamp
    PROVE  /\ Later(s, t) \in Timestamp
           /\ AtMost(s, Later(s, t)) /\ AtMost(t, Later(s, t))
           /\ Later(s, t) = s \/ Later(s, t) = t
BY TimestampOrder, Zenon DEF Later, AtMost

LEMMA AtMostTransitive ==
    ASSUME NEW s \in Timestamp, NEW t \in Timestamp, NEW u \in Timestamp,
           AtMost(s, t), AtMost(t, u)
    PROVE  AtMost(s, u)
BY TimestampOrder, Zenon DEF AtMost

LEMMA ZeroIsTimestamp == Zero \in Timestamp
BY Zenon DEF Zero, Timestamp

LEMMA FenceOfType ==
    ASSUME NEW c \in Cell \cup {Absent}
    PROVE  FenceOf(c) \in Timestamp
BY ZeroIsTimestamp, Zenon DEF FenceOf, Cell

LEMMA TombstoneGood ==
    ASSUME NEW f \in Timestamp
    PROVE  Tombstone(f) \in Cell /\ WellFormed(Tombstone(f)) /\ Tombstone(f).fence = f
BY Zenon DEF Tombstone, Cell, WellFormed

\* merge_one turns good cells into a good cell, never lowers the fence, and
\* neither moves a pinned key's fence nor empties a pinned key that has a value.
LEMMA MergeOneGood ==
    ASSUME NEW c \in Cell \cup {Absent}, NEW in \in Cell, NEW p \in BOOLEAN
    PROVE  /\ MergeOne(c, in, p) \in Cell
           /\ WellFormed(MergeOne(c, in, p))
           /\ AtMost(FenceOf(c), MergeOne(c, in, p).fence)
           /\ p => MergeOne(c, in, p).fence = FenceOf(c)
           /\ p /\ Live(c, FenceOf(c)) => ~MergeOne(c, in, p).tombstoned
<1> DEFINE fence == IF p THEN FenceOf(c) ELSE Later(FenceOf(c), in.fence)
           best == IF Live(in, fence) /\ (Live(c, fence) => Dominates(in, c)) THEN in ELSE c
<1>1. in.fence \in Timestamp
  BY Zenon DEF Cell
<1>2. fence \in Timestamp /\ AtMost(FenceOf(c), fence) /\ (p => fence = FenceOf(c))
  BY <1>1, FenceOfType, LaterBounds, TimestampOrder, Zenon DEF AtMost
<1>3. best \in Cell \cup {Absent}
  BY Zenon
<1> HIDE DEF fence, best
<1>4. MergeOne(c, in, p) =
         IF Live(best, fence) THEN [best EXCEPT !.fence = fence] ELSE Tombstone(fence)
  BY Zenon DEF MergeOne, fence, best
<1>5. p /\ Live(c, FenceOf(c)) => Live(best, fence)
  BY <1>2, Zenon DEF best
<1>6. CASE Live(best, fence)
  <2>1. best \in Cell /\ ~best.tombstoned /\ Before(fence, best.stamp)
    BY <1>3, <1>6, Zenon DEF Live
  <2>2. [best EXCEPT !.fence = fence] \in Cell
    BY <2>1, <1>2, Zenon DEF Cell
  <2>3. /\ WellFormed([best EXCEPT !.fence = fence])
        /\ [best EXCEPT !.fence = fence].fence = fence
        /\ ~[best EXCEPT !.fence = fence].tombstoned
    BY <2>1, Zenon DEF Cell, WellFormed
  <2> QED BY <1>2, <1>4, <1>6, <2>2, <2>3, Zenon
<1>7. CASE ~Live(best, fence)
  BY <1>2, <1>4, <1>5, <1>7, TombstoneGood, Zenon
<1> QED BY <1>6, <1>7, Zenon

\* R is the join of the cells in S at fence F: the live write of S that no live
\* write of S dominates, or a tombstone when none is live.
Joined(R, S, F) ==
    /\ R \in Cell /\ WellFormed(R) /\ R.fence = F
    /\ \A x \in S : Live(x, F) => ~R.tombstoned /\ ~Dominates(x, R)
    /\ ~R.tombstoned =>
           \E x \in S : Live(x, F) /\ R.stamp = x.stamp /\ R.vhash = x.vhash

\* (stamp, hash) pairs are totally ordered.
LEMMA DominanceTotal ==
    ASSUME NEW c \in Cell, NEW d \in Cell, ~Dominates(c, d), ~Dominates(d, c)
    PROVE  c.stamp = d.stamp /\ c.vhash = d.vhash
<1>1. c.stamp \in Timestamp /\ d.stamp \in Timestamp /\ c.vhash \in Nat /\ d.vhash \in Nat
  BY CellParts, Zenon
<1>2. c.stamp = d.stamp
  BY <1>1, TimestampOrder, Zenon DEF Dominates
<1> QED BY <1>1, <1>2 DEF Dominates

\* A join is determined by the set of cells and the fence alone.
LEMMA JoinedUnique ==
    ASSUME NEW S \in SUBSET (Cell \cup {Absent}), NEW F \in Timestamp,
           NEW R, NEW Q, Joined(R, S, F), Joined(Q, S, F)
    PROVE  R = Q
<1>1. R \in Cell /\ Q \in Cell /\ R.fence = F /\ Q.fence = F
  BY Zenon DEF Joined
<1>2. R.tombstoned <=> Q.tombstoned
  BY Zenon DEF Joined
<1>3. CASE R.tombstoned
  <2>1. R.stamp = F /\ Q.stamp = F /\ R.vhash = 0 /\ Q.vhash = 0
    BY <1>1, <1>2, <1>3, Zenon DEF Joined, WellFormed, Cell
  <2> QED BY <1>1, <1>2, <1>3, <2>1 DEF Cell
<1>4. CASE ~R.tombstoned
  <2>1. PICK x \in S : Live(x, F) /\ R.stamp = x.stamp /\ R.vhash = x.vhash
    BY <1>4, Zenon DEF Joined
  <2>2. PICK y \in S : Live(y, F) /\ Q.stamp = y.stamp /\ Q.vhash = y.vhash
    BY <1>2, <1>4, Zenon DEF Joined
  <2>3. ~Dominates(x, Q) /\ ~Dominates(y, R)
    BY <2>1, <2>2, Zenon DEF Joined
  <2>4. ~Dominates(R, Q) /\ ~Dominates(Q, R)
    BY <2>1, <2>2, <2>3, Zenon DEF Dominates
  <2>5. R.stamp = Q.stamp /\ R.vhash = Q.vhash
    BY <1>1, <2>4, DominanceTotal, Zenon
  <2> QED BY <1>1, <1>2, <2>5 DEF Cell
<1> QED BY <1>3, <1>4, Zenon

\* Raising the fence can only end a write's candidacy.
LEMMA LiveAntitone ==
    ASSUME NEW x \in Cell \cup {Absent}, NEW F \in Timestamp, NEW G \in Timestamp,
           AtMost(F, G), Live(x, G)
    PROVE  Live(x, F)
<1>1. x \in Cell /\ x.stamp \in Timestamp
  BY Zenon DEF Live, Cell
<1> QED BY <1>1, TimestampOrder, Zenon DEF Live, AtMost

\* Merging one more cell into a join joins it to the set.
LEMMA JoinStep ==
    ASSUME NEW S \in SUBSET (Cell \cup {Absent}), NEW F \in Timestamp, NEW R,
           Joined(R, S, F), NEW b \in Cell
    PROVE  Joined(MergeOne(R, b, FALSE), S \cup {b}, Later(F, b.fence))
<1> DEFINE G == Later(F, b.fence)
           best == IF Live(b, G) /\ (Live(R, G) => Dominates(b, R)) THEN b ELSE R
           M == MergeOne(R, b, FALSE)
<1>1. R \in Cell /\ R.fence = F /\ FenceOf(R) = F
  BY AbsentNotCell, Zenon DEF Joined, FenceOf
<1>2. b.fence \in Timestamp /\ b.stamp \in Timestamp /\ R.stamp \in Timestamp
  BY <1>1, Zenon DEF Cell
<1>3. G \in Timestamp /\ AtMost(F, G)
  BY <1>2, LaterBounds, Zenon
<1>4. M = IF Live(best, G) THEN [best EXCEPT !.fence = G] ELSE Tombstone(G)
  BY <1>1, Zenon DEF MergeOne
<1>5. M \in Cell /\ WellFormed(M)
  BY <1>1, MergeOneGood, Zenon
<1>6. best \in Cell /\ (best = b \/ best = R)
  BY <1>1, Zenon
<1>7. M.fence = G
  BY <1>3, <1>4, <1>6, TombstoneGood, Zenon DEF Cell
<1>8. Live(best, G) => ~M.tombstoned /\ M.stamp = best.stamp /\ M.vhash = best.vhash
  BY <1>4, <1>6, Zenon DEF Cell, Live
<1>9. ~Live(best, G) => M.tombstoned
  <2>1. Tombstone(G).tombstoned
    BY Zenon DEF Tombstone
  <2> HIDE DEF M, G, best
  <2> QED BY <1>4, <2>1, Zenon
<1>10. /\ Live(b, G) => Live(best, G) /\ ~Dominates(b, best)
       /\ Live(R, G) => Live(best, G) /\ ~Dominates(R, best)
  <2>1. ~Dominates(b, b) /\ ~Dominates(R, R)
    BY <1>1, <1>2, CellParts, TimestampOrder DEF Dominates
  <2>2. ~(Dominates(b, R) /\ Dominates(R, b))
    BY <1>1, <1>2, CellParts, TimestampOrder DEF Dominates
  <2> QED BY <2>1, <2>2, Zenon
<1> HIDE DEF G, best, M
<1>11. ASSUME NEW x \in S \cup {b}, Live(x, G)
       PROVE  ~M.tombstoned /\ ~Dominates(x, M)
  <2>1. CASE x = b
    BY <1>8, <1>10, <1>11, <2>1, Zenon DEF Dominates
  <2>2. CASE x \in S
    <3>1. Live(x, F)
      BY <1>3, <1>11, <2>2, LiveAntitone, Zenon
    <3>2. ~R.tombstoned /\ ~Dominates(x, R)
      BY <3>1, <2>2, Zenon DEF Joined
    <3>3. x \in Cell /\ x.stamp \in Timestamp /\ x.vhash \in Nat /\ Before(G, x.stamp)
      BY <1>11, <2>2, CellParts, Zenon DEF Live
    <3>4. AtMost(x.stamp, R.stamp)
      BY <3>2, Zenon DEF Dominates, AtMost
    <3>5. Live(R, G)
      BY <1>1, <1>2, <1>3, <3>2, <3>3, <3>4, TimestampOrder, AbsentNotCell, Zenon DEF Live, AtMost
    <3>6. Live(best, G) /\ ~Dominates(R, best)
      BY <3>5, <1>10, Zenon
    <3>7. ~Dominates(x, best)
      <4>1. best.stamp \in Timestamp /\ best.vhash \in Nat /\ R.vhash \in Nat
        BY <1>1, <1>6, CellParts, Zenon
      <4> QED BY <4>1, <1>2, <3>2, <3>3, <3>6, TimestampOrder DEF Dominates
    <3> QED BY <1>8, <3>6, <3>7, Zenon DEF Dominates
  <2> QED BY <2>1, <2>2, Zenon
<1>12. ASSUME ~M.tombstoned
       PROVE  \E x \in S \cup {b} : Live(x, G) /\ M.stamp = x.stamp /\ M.vhash = x.vhash
  <2>1. Live(best, G) /\ M.stamp = best.stamp /\ M.vhash = best.vhash
    BY <1>8, <1>9, <1>12, Zenon
  <2>2. CASE best = b
    BY <2>1, <2>2, Zenon
  <2>3. CASE best = R
    <3>1. ~R.tombstoned /\ Before(G, R.stamp)
      BY <2>1, <2>3, Zenon DEF Live
    <3>2. PICK x \in S : Live(x, F) /\ R.stamp = x.stamp /\ R.vhash = x.vhash
      BY <3>1, Zenon DEF Joined
    <3>3. Live(x, G)
      BY <3>1, <3>2, Zenon DEF Live
    <3> QED BY <2>1, <2>3, <3>2, <3>3, Zenon
  <2> QED BY <1>6, <2>2, <2>3, Zenon
<1> QED BY <1>5, <1>7, <1>11, <1>12, Zenon DEF Joined, G, M

LEMMA LaterOrder ==
    ASSUME NEW s \in Timestamp, NEW t \in Timestamp, NEW u \in Timestamp
    PROVE  /\ Later(Later(s, t), u) = Later(Later(s, u), t)
           /\ Later(Later(Later(s, t), u), t) = Later(Later(s, t), u)
BY TimestampOrder, Zenon DEF Later

\* The first merge into a key joins what the replica has with the message.
LEMMA JoinStart ==
    ASSUME NEW c \in Cell \cup {Absent}, NEW a \in Cell
    PROVE  Joined(MergeOne(c, a, FALSE), {c, a}, Later(FenceOf(c), a.fence))
<1> DEFINE f == Later(FenceOf(c), a.fence)
           best == IF Live(a, f) /\ (Live(c, f) => Dominates(a, c)) THEN a ELSE c
           M == MergeOne(c, a, FALSE)
<1>1. M = IF Live(best, f) THEN [best EXCEPT !.fence = f] ELSE Tombstone(f)
  BY Zenon DEF MergeOne
<1>2. M \in Cell /\ WellFormed(M)
  BY MergeOneGood, Zenon
<1>3. best = a \/ best = c
  BY Zenon
<1>4. /\ Live(a, f) => Live(best, f) /\ ~Dominates(a, best)
      /\ Live(c, f) => Live(best, f) /\ ~Dominates(c, best)
  <2>1. ~Dominates(a, a)
    BY CellParts, TimestampOrder DEF Dominates
  <2>2. ASSUME c \in Cell
        PROVE  ~Dominates(c, c) /\ ~(Dominates(a, c) /\ Dominates(c, a))
    BY <2>2, CellParts, TimestampOrder DEF Dominates
  <2>3. Live(c, f) => c \in Cell
    BY Zenon DEF Live
  <2> QED BY <2>1, <2>2, <2>3, Zenon
<1>5. Tombstone(f).tombstoned /\ Tombstone(f).fence = f
  BY Zenon DEF Tombstone
<1> HIDE DEF M, f, best
<1>6. CASE Live(best, f)
  <2>1. best \in Cell /\ ~best.tombstoned
    BY <1>3, <1>6, Zenon DEF Live
  <2>2. M.stamp = best.stamp /\ M.vhash = best.vhash /\ ~M.tombstoned /\ M.fence = f
    BY <1>1, <1>6, <2>1, Zenon DEF Cell
  <2>3. \A x \in {c, a} : Live(x, f) => ~Dominates(x, M)
    BY <1>4, <2>2, Zenon DEF Dominates
  <2>4. \E x \in {c, a} : Live(x, f) /\ M.stamp = x.stamp /\ M.vhash = x.vhash
    BY <1>3, <1>6, <2>2, Zenon
  <2> QED BY <1>2, <2>2, <2>3, <2>4, Zenon DEF Joined, M, f
<1>7. CASE ~Live(best, f)
  <2>1. M.tombstoned /\ M.fence = f
    BY <1>1, <1>5, <1>7, Zenon
  <2>2. \A x \in {c, a} : ~Live(x, f)
    BY <1>4, <1>7, Zenon
  <2> QED BY <1>2, <2>1, <2>2, Zenon DEF Joined, M, f
<1> QED BY <1>6, <1>7, Zenon

\* Two merges into a key give the same cell in either order, and repeating the
\* first one changes nothing.
LEMMA MergeCommutes ==
    ASSUME NEW c \in Cell \cup {Absent}, NEW a \in Cell, NEW b \in Cell
    PROVE  LET ab == MergeOne(MergeOne(c, a, FALSE), b, FALSE)
           IN  /\ ab = MergeOne(MergeOne(c, b, FALSE), a, FALSE)
               /\ ab = MergeOne(ab, a, FALSE)
<1> DEFINE A == MergeOne(c, a, FALSE)
           B == MergeOne(c, b, FALSE)
           ab == MergeOne(A, b, FALSE)
           ba == MergeOne(B, a, FALSE)
           fc == FenceOf(c)
           S == {c, a, b}
           F == Later(Later(fc, a.fence), b.fence)
<1>1. a.fence \in Timestamp /\ b.fence \in Timestamp /\ fc \in Timestamp
  BY CellParts, FenceOfType, Zenon
<1>2. Later(fc, a.fence) \in Timestamp /\ Later(fc, b.fence) \in Timestamp /\ F \in Timestamp
  BY <1>1, LaterBounds, Zenon
<1>3. Joined(A, {c, a}, Later(fc, a.fence)) /\ Joined(B, {c, b}, Later(fc, b.fence))
  BY JoinStart, Zenon
<1> HIDE DEF A, B, fc
<1>4. Joined(ab, {c, a} \cup {b}, F)
  BY <1>2, <1>3, JoinStep, Zenon
<1>5. Joined(ba, {c, b} \cup {a}, Later(Later(fc, b.fence), a.fence))
  BY <1>2, <1>3, JoinStep, Zenon
<1>6. {c, a} \cup {b} = S /\ {c, b} \cup {a} = S /\ S \cup {a} = S
  BY Zenon
<1>7. Later(Later(fc, b.fence), a.fence) = F /\ Later(F, a.fence) = F
  BY <1>1, LaterOrder
<1>8. S \in SUBSET (Cell \cup {Absent})
  BY Zenon
<1> HIDE DEF S, F, ab, ba
<1>9. ab = ba
  BY <1>2, <1>4, <1>5, <1>6, <1>7, <1>8, JoinedUnique, Zenon
<1>10. Joined(MergeOne(ab, a, FALSE), S \cup {a}, Later(F, a.fence))
  BY <1>2, <1>4, <1>6, <1>8, JoinStep, Zenon
<1>11. ab = MergeOne(ab, a, FALSE)
  BY <1>2, <1>4, <1>6, <1>7, <1>8, <1>10, JoinedUnique, Zenon
<1> QED BY <1>9, <1>11, Zenon DEF ab, ba, A, B

\* What a step may do to the cell of a key its replica has pinned.
KeepsPinned(c, d) ==
    /\ FenceOf(d) = FenceOf(c)
    /\ Live(c, FenceOf(c)) => Live(d, FenceOf(d))

\* What a step may do to one cell: keep it good, keep or raise the fence, and
\* never let it disappear.
Advances(c, d) ==
    /\ d \in Cell \cup {Absent}
    /\ GoodCell(c) => GoodCell(d)
    /\ AtMost(FenceOf(c), FenceOf(d))
    /\ c # Absent => d # Absent

LEMMA AdvancesSame ==
    ASSUME NEW c \in Cell \cup {Absent}
    PROVE  Advances(c, c)
BY FenceOfType, TimestampOrder, Zenon DEF Advances, AtMost

\* Cells found in a reachable state are good unless a counter has wrapped around.
LEMMA CellsGood ==
    ASSUME FInv, NEW r \in Replicas, NEW k \in Keys
    PROVE  cells[r][k] \in Cell \cup {Absent} /\ (~wrapped => GoodCell(cells[r][k]))
BY Zenon DEF FInv, TypeOK, States, LiveAboveFence, GoodCell

\* The counter stays a counter, and grows unless it wraps around.
LEMMA BumpFacts ==
    ASSUME NEW l \in Nat
    PROVE  Bump(l) \in Nat /\ (~(l >= MaxLogical) => Bump(l) = l + 1)
BY HlcAssumption DEF HlcAssumption, Bump

\* A write only advances the cell it touches.  So do a rollback and a quarantine,
\* unless the counter wraps around.
LEMMA PutAdvances ==
    ASSUME FInv, NEW r \in Replicas, NEW k \in Keys, NEW v \in Values,
           NEW stamp \in Stamps, Put(r, k, v, stamp)
    PROVE  \E d \in Cell : /\ cells' = [cells EXCEPT ![r][k] = d]
                           /\ Advances(cells[r][k], d)
<1> DEFINE c == cells[r][k]
           d == [stamp |-> stamp, vhash |-> v, fence |-> FenceOf(c), tombstoned |-> FALSE]
<1>1. c \in Cell \cup {Absent} /\ FenceOf(c) \in Timestamp /\ stamp \in Timestamp /\ v # 0
  BY CellsGood, FenceOfType, FencedAssumption, Zenon DEF FencedAssumption
<1>2. Before(FenceOf(c), stamp) /\ cells' = [cells EXCEPT ![r][k] = d]
  BY Zenon DEF Put, Write
<1>3. d \in Cell
  BY <1>1, Zenon DEF Cell
<1>4. d # Absent /\ d.fence = FenceOf(c) /\ d.stamp = stamp /\ d.tombstoned = FALSE
  BY <1>3, AbsentNotCell, Zenon
<1> HIDE DEF d, c
<1>5. Advances(c, d)
  BY <1>1, <1>2, <1>3, <1>4, TimestampOrder, Zenon
     DEF Advances, GoodCell, WellFormed, FenceOf, AtMost
<1> QED BY <1>2, <1>3, <1>5, Zenon DEF c

LEMMA RollbackAdvances ==
    ASSUME FInv, NEW r \in Replicas, NEW k \in Keys, NEW good \in Values,
           NEW now \in Walls, RollbackKey(r, k, good, now)
    PROVE  \E d \in Cell : /\ cells' = [cells EXCEPT ![r][k] = d]
                           /\ ~wrapped' => /\ Advances(cells[r][k], d)
                                           /\ AtMost(cells[r][k].stamp, d.fence)
<1> DEFINE c == cells[r][k]
           f == Later(c.stamp, c.fence)
           w == MaxOf(f.wall, now)
           s == [wall |-> w, logical |-> Bump(f.logical)]
           d == [stamp |-> s, vhash |-> good, fence |-> f, tombstoned |-> FALSE]
<1>1. c \in Cell /\ c.stamp \in Timestamp /\ c.fence \in Timestamp
  BY CellsGood, CellParts, Zenon DEF RollbackKey
<1>2. f \in Timestamp /\ AtMost(c.stamp, f) /\ AtMost(c.fence, f)
  BY <1>1, LaterBounds, Zenon
<1>3. now \in Nat /\ good # 0
  BY FencedAssumption, Zenon DEF FencedAssumption
<1>4. f.wall \in Nat /\ f.logical \in Nat
  BY <1>2, Zenon DEF Timestamp
<1>5. w \in Nat /\ f.wall <= w
  BY <1>3, <1>4 DEF MaxOf
<1>6. cells' = [cells EXCEPT ![r][k] = d] /\ wrapped' = (wrapped \/ f.logical >= MaxLogical)
  BY Zenon DEF RollbackKey, Write, Abandon
<1> HIDE DEF c, f, w
<1>7. s \in Timestamp /\ (~wrapped' => Before(f, s))
  <2>1. Bump(f.logical) \in Nat /\ (~wrapped' => Bump(f.logical) = f.logical + 1)
    BY <1>4, <1>6, BumpFacts, Zenon
  <2> QED BY <1>4, <1>5, <2>1 DEF Timestamp, Before
<1>8. d \in Cell
  BY <1>2, <1>3, <1>7, Zenon DEF Cell
<1>9. d # Absent /\ c # Absent /\ d.fence = f /\ d.stamp = s /\ d.tombstoned = FALSE
  BY <1>1, <1>8, AbsentNotCell, Zenon
<1> HIDE DEF d, s
<1>10. ~wrapped' => Advances(c, d)
  BY <1>2, <1>7, <1>8, <1>9, Zenon DEF Advances, GoodCell, WellFormed, FenceOf
<1> QED BY <1>2, <1>6, <1>8, <1>9, <1>10, Zenon DEF c

LEMMA QuarantineAdvances ==
    ASSUME FInv, NEW r \in Replicas, NEW k \in Keys,
           NEW now \in Walls, QuarantineKey(r, k, now)
    PROVE  \E d \in Cell : /\ cells' = [cells EXCEPT ![r][k] = d]
                           /\ ~wrapped' => /\ Advances(cells[r][k], d)
                                           /\ AtMost(cells[r][k].stamp, d.fence)
<1> DEFINE c == cells[r][k]
           w == MaxOf(MaxOf(c.stamp.wall, c.fence.wall), now)
           f == [wall |-> w, logical |-> Bump(c.stamp.logical)]
           d == Tombstone(f)
<1>1. /\ c \in Cell /\ c.stamp \in Timestamp /\ c.fence \in Timestamp
      /\ ~wrapped => WellFormed(c)
  BY CellsGood, CellParts, Zenon DEF QuarantineKey, GoodCell
<1>2. now \in Nat
  BY FencedAssumption, Zenon DEF FencedAssumption
<1>3. /\ c.stamp.wall \in Nat /\ c.stamp.logical \in Nat
      /\ c.fence.wall \in Nat /\ c.fence.logical \in Nat
  BY <1>1, Zenon DEF Timestamp
<1>4. cells' = [cells EXCEPT ![r][k] = d] /\ wrapped' = (wrapped \/ c.stamp.logical >= MaxLogical)
  BY Zenon DEF QuarantineKey, Write, Abandon
<1> HIDE DEF c
<1>5. w \in Nat /\ c.stamp.wall <= w /\ c.fence.wall <= w
  BY <1>2, <1>3 DEF MaxOf
<1> HIDE DEF w
<1>6. f \in Timestamp /\ (~wrapped' => AtMost(c.stamp, f))
  <2>1. /\ Bump(c.stamp.logical) \in Nat
        /\ ~wrapped' => Bump(c.stamp.logical) = c.stamp.logical + 1
    BY <1>3, <1>4, BumpFacts, Zenon
  <2> QED BY <1>3, <1>5, <2>1 DEF Timestamp, AtMost, Before
<1>7. ~wrapped' => AtMost(c.fence, c.stamp)
  BY <1>1, <1>4, TimestampOrder, Zenon DEF WellFormed, AtMost
<1>8. ~wrapped' => AtMost(c.fence, f)
  BY <1>1, <1>6, <1>7, AtMostTransitive, Zenon
<1> HIDE DEF f
<1>9. d \in Cell /\ WellFormed(d) /\ d.fence = f
  BY <1>6, TombstoneGood, Zenon
<1> HIDE DEF d
<1>10. ~wrapped' => Advances(c, d)
  BY <1>1, <1>8, <1>9, AbsentNotCell, Zenon DEF Advances, GoodCell, FenceOf
<1> QED BY <1>4, <1>6, <1>9, <1>10, Zenon DEF c

\* So does merging any part of a message, which keeps pinned keys.
LEMMA MergeAdvances ==
    ASSUME FInv, NEW m \in net, NEW decoded \in SUBSET Keys
    PROVE  /\ Merge(m.to, m.state, decoded) \in States
           /\ \A k \in Keys :
                  Advances(cells[m.to][k], Merge(m.to, m.state, decoded)[k])
           /\ \A k \in pinned[m.to] :
                  KeepsPinned(cells[m.to][k], Merge(m.to, m.state, decoded)[k])
<1>1. m.to \in Replicas /\ m.state \in States
  BY Zenon DEF FInv, TypeOK, Messages
<1>2. ASSUME NEW k \in Keys, k \in decoded, m.state[k] # Absent
      PROVE  LET c == cells[m.to][k]
                 d == MergeOne(c, m.state[k], k \in pinned[m.to])
             IN  /\ d \in Cell /\ Advances(c, d)
                 /\ k \in pinned[m.to] => KeepsPinned(c, d)
  <2> DEFINE c == cells[m.to][k]
             p == k \in pinned[m.to]
             d == MergeOne(c, m.state[k], p)
  <2>1. c \in Cell \cup {Absent} /\ m.state[k] \in Cell
    BY <1>1, <1>2, CellsGood, Zenon DEF States
  <2>2. p \in BOOLEAN
    OBVIOUS
  <2> HIDE DEF p, c
  <2>3. /\ d \in Cell /\ WellFormed(d) /\ AtMost(FenceOf(c), d.fence)
        /\ p => d.fence = FenceOf(c)
        /\ p /\ Live(c, FenceOf(c)) => ~d.tombstoned
    BY <2>1, <2>2, MergeOneGood, Zenon
  <2>4. d # Absent
    BY <2>3, AbsentNotCell, Zenon
  <2> HIDE DEF d
  <2>5. Advances(c, d)
    BY <2>3, <2>4, Zenon DEF Advances, GoodCell, FenceOf
  <2>6. p => KeepsPinned(c, d)
    BY <2>3, <2>4, Zenon DEF KeepsPinned, FenceOf, Live, WellFormed
  <2> QED BY <2>3, <2>5, <2>6, Zenon DEF c, p, d
<1>3. ASSUME NEW k \in Keys
      PROVE  cells[m.to][k] \in Cell \cup {Absent} /\ Advances(cells[m.to][k], cells[m.to][k])
  BY <1>1, CellsGood, AdvancesSame, Zenon
<1>4. ASSUME NEW k \in Keys
      PROVE  /\ Merge(m.to, m.state, decoded)[k] \in Cell \cup {Absent}
             /\ Advances(cells[m.to][k], Merge(m.to, m.state, decoded)[k])
             /\ k \in pinned[m.to] =>
                  KeepsPinned(cells[m.to][k], Merge(m.to, m.state, decoded)[k])
  <2>1. CASE k \in decoded /\ m.state[k] # Absent
    BY <1>2, <2>1, Zenon DEF Merge
  <2>2. CASE ~(k \in decoded /\ m.state[k] # Absent)
    <3>1. Merge(m.to, m.state, decoded)[k] = cells[m.to][k]
      BY <2>2, Zenon DEF Merge
    <3> QED BY <1>3, <3>1, Zenon DEF KeepsPinned
  <2> QED BY <2>1, <2>2, Zenon
<1>5. pinned[m.to] \subseteq Keys
  BY <1>1, Zenon DEF FInv, TypeOK
<1>6. Merge(m.to, m.state, decoded) \in States
  BY <1>4, Zenon DEF Merge, States
<1> QED BY <1>4, <1>5, <1>6, Zenon

\* Every step advances every cell unless a counter wraps around, and keeps the fences and values of pinned keys.
LEMMA StepAdvances ==
    ASSUME FInv, Next
    PROVE  /\ cells' \in [Replicas -> States]
           /\ ~wrapped' => \A r \in Replicas, k \in Keys : Advances(cells[r][k], cells'[r][k])
           /\ \A r \in Replicas : \A k \in pinned[r] :
                  KeepsPinned(cells[r][k], cells'[r][k])
<1> USE DEF FInv, TypeOK
<1>1. \A r \in Replicas, k \in Keys : Advances(cells[r][k], cells[r][k])
  BY CellsGood, AdvancesSame, Zenon
<1>2. CASE UNCHANGED cells
  BY <1>1, <1>2, Zenon DEF KeepsPinned
<1>3. ASSUME NEW r \in Replicas, NEW k \in Keys, NEW d \in Cell,
             cells' = [cells EXCEPT ![r][k] = d],
             ~wrapped' => Advances(cells[r][k], d),
             k \in pinned[r] => KeepsPinned(cells[r][k], d)
      PROVE  /\ cells' \in [Replicas -> States]
             /\ ~wrapped' => \A s \in Replicas, l \in Keys : Advances(cells[s][l], cells'[s][l])
             /\ \A s \in Replicas : \A l \in pinned[s] :
                    KeepsPinned(cells[s][l], cells'[s][l])
  <2>1. cells' \in [Replicas -> States]
    BY <1>3, Zenon DEF States
  <2>2. \A s \in Replicas, l \in Keys :
            cells'[s][l] = IF s = r /\ l = k THEN d ELSE cells[s][l]
    BY <1>3, Zenon DEF States
  <2>3. \A s \in Replicas : pinned[s] \subseteq Keys
    BY Zenon
  <2>4. \A c : KeepsPinned(c, c)
    BY Zenon DEF KeepsPinned
  <2> QED BY <1>1, <1>3, <2>1, <2>2, <2>3, <2>4
<1>4. ASSUME NEW m \in net, NEW decoded \in SUBSET Keys,
             cells' = [cells EXCEPT ![m.to] = Merge(m.to, m.state, decoded)]
      PROVE  /\ cells' \in [Replicas -> States]
             /\ ~wrapped' => \A s \in Replicas, l \in Keys : Advances(cells[s][l], cells'[s][l])
             /\ \A s \in Replicas : \A l \in pinned[s] :
                    KeepsPinned(cells[s][l], cells'[s][l])
  <2>1. m.to \in Replicas
    BY Zenon DEF Messages
  <2>2. \A s \in Replicas :
            cells'[s] = IF s = m.to THEN Merge(m.to, m.state, decoded) ELSE cells[s]
    BY <1>4, Zenon
  <2>3. cells' \in [Replicas -> States]
    BY <1>4, <2>1, MergeAdvances, Zenon
  <2>4. \A s \in Replicas, l \in Keys : Advances(cells[s][l], cells'[s][l])
    BY <1>1, <2>2, MergeAdvances, Zenon
  <2>5. \A s \in Replicas : \A l \in pinned[s] : KeepsPinned(cells[s][l], cells'[s][l])
    <3> SUFFICES ASSUME NEW s \in Replicas, NEW l \in pinned[s]
                 PROVE  KeepsPinned(cells[s][l], cells'[s][l])
      BY Zenon
    <3>1. \A k \in pinned[m.to] :
              KeepsPinned(cells[m.to][k], Merge(m.to, m.state, decoded)[k])
      BY MergeAdvances, Zenon
    <3> QED BY <2>2, <3>1, Zenon DEF KeepsPinned
  <2> QED BY <2>3, <2>4, <2>5, Zenon
<1>5. CASE \E r \in Replicas, k \in Keys : CallerStep(r, k)
  <2>1. PICK r \in Replicas, k \in Keys : CallerStep(r, k)
    BY <1>5, Zenon
  <2>2. CASE Pin(r, k)
    BY <1>2, <2>2, Zenon DEF Pin
  <2>3. CASE \E v \in Values, stamp \in Stamps : Put(r, k, v, stamp)
    <3>1. PICK v \in Values, stamp \in Stamps : Put(r, k, v, stamp)
      BY <2>3, Zenon
    <3>2. PICK d \in Cell : cells' = [cells EXCEPT ![r][k] = d] /\ Advances(cells[r][k], d)
      BY <3>1, PutAdvances, Zenon
    <3>3. KeepsPinned(cells[r][k], d)
      <4> DEFINE e == [stamp |-> stamp, vhash |-> v, fence |-> FenceOf(cells[r][k]),
                       tombstoned |-> FALSE]
      <4>1. cells' = [cells EXCEPT ![r][k] = e] /\ Before(FenceOf(cells[r][k]), stamp)
        BY <3>1, Zenon DEF Put, Write
      <4>2. cells[r] \in States
        BY Zenon
      <4>3. e.fence = FenceOf(cells[r][k]) /\ e.stamp = stamp /\ ~e.tombstoned
        BY Zenon
      <4> HIDE DEF e
      <4>4. cells'[r][k] = e /\ cells'[r][k] = d
        BY <3>2, <4>1, <4>2 DEF States
      <4> QED BY <4>1, <4>3, <4>4, AbsentNotCell, Zenon DEF KeepsPinned, FenceOf, Live
    <3> QED BY <1>3, <3>2, <3>3, Zenon
  <2>4. CASE \E v \in Values, now \in Walls : RollbackKey(r, k, v, now)
    <3>1. k \notin pinned[r]
      BY <2>4, Zenon DEF RollbackKey
    <3>2. PICK v \in Values, now \in Walls : RollbackKey(r, k, v, now)
      BY <2>4, Zenon
    <3>3. PICK d \in Cell : /\ cells' = [cells EXCEPT ![r][k] = d]
                            /\ ~wrapped' => /\ Advances(cells[r][k], d)
                                            /\ AtMost(cells[r][k].stamp, d.fence)
      BY <3>2, RollbackAdvances
    <3> QED BY <1>3, <3>1, <3>3, Zenon
  <2>5. CASE \E now \in Walls : QuarantineKey(r, k, now)
    <3>1. k \notin pinned[r]
      BY <2>5, Zenon DEF QuarantineKey
    <3>2. PICK now \in Walls : QuarantineKey(r, k, now)
      BY <2>5, Zenon
    <3>3. PICK d \in Cell : /\ cells' = [cells EXCEPT ![r][k] = d]
                            /\ ~wrapped' => /\ Advances(cells[r][k], d)
                                            /\ AtMost(cells[r][k].stamp, d.fence)
      BY <3>2, QuarantineAdvances
    <3> QED BY <1>3, <3>1, <3>3, Zenon
  <2> QED BY <2>1, <2>2, <2>3, <2>4, <2>5, Zenon DEF CallerStep
<1>6. CASE \E r, to \in Replicas : Gossip(r, to)
  BY <1>2, <1>6, Zenon DEF Gossip
<1>7. CASE \E m \in net : Deliver(m)
  BY <1>4, <1>7, Zenon DEF Deliver
<1>8. CASE \E m \in net, end \in Keys : DeliverTruncated(m, end)
  <2>1. PICK m \in net, end \in Keys : DeliverTruncated(m, end)
    BY <1>8, Zenon
  <2>2. {k \in Keys : k < end} \in SUBSET Keys
    BY Zenon
  <2> QED BY <1>4, <2>1, <2>2, Zenon DEF DeliverTruncated
<1> QED BY <1>5, <1>6, <1>7, <1>8, Zenon DEF Next

LEMMA StepNet ==
    ASSUME FInv, Next
    PROVE  \A m \in net' :
               /\ m \in Messages
               /\ ~wrapped => \A k \in Keys : m.state[k] # Absent => WellFormed(m.state[k])
<1>1. net' \subseteq net \/ \E r, to \in Replicas : net' = net \cup {[to |-> to, state |-> cells[r]]}
  <2>1. ASSUME NEW r \in Replicas, NEW k \in Keys, CallerStep(r, k)
        PROVE  net' \subseteq net
    BY <2>1, Zenon DEF CallerStep, Pin, Put, RollbackKey, QuarantineKey, Write
  <2> QED BY <2>1, Zenon DEF Next, Gossip, Deliver, DeliverTruncated
<1>2. ASSUME NEW r \in Replicas, NEW to \in Replicas
      PROVE  /\ [to |-> to, state |-> cells[r]] \in Messages
             /\ ~wrapped => \A k \in Keys : cells[r][k] # Absent => WellFormed(cells[r][k])
  BY Zenon DEF FInv, TypeOK, Messages, LiveAboveFence
<1> QED BY <1>1, <1>2 DEF FInv, TypeOK, LiveAboveFence

\* A step abandons at most the write of the cell whose fence it just raised
\* past that write.
LEMMA StepAbandons ==
    ASSUME FInv, Next, NEW r \in Replicas, NEW ab \in abandoned'[r]
    PROVE  \/ ab \in abandoned[r]
           \/ /\ ab \in Keys \X Timestamp
              /\ cells'[r][ab[1]] \in Cell
              /\ ~wrapped' => AtMost(ab[2], cells'[r][ab[1]].fence)
<1> USE DEF FInv, TypeOK
<1>1. CASE UNCHANGED abandoned
  BY <1>1, Zenon
<1>2. ASSUME NEW s \in Replicas, NEW k \in Keys, NEW d \in Cell,
             cells[s][k] # Absent,
             cells' = [cells EXCEPT ![s][k] = d],
             ~wrapped' => AtMost(cells[s][k].stamp, d.fence),
             abandoned' = [abandoned EXCEPT ![s] = @ \cup {<<k, cells[s][k].stamp>>}]
      PROVE  \/ ab \in abandoned[r]
             \/ /\ ab \in Keys \X Timestamp
                /\ cells'[r][ab[1]] \in Cell
                /\ ~wrapped' => AtMost(ab[2], cells'[r][ab[1]].fence)
  <2>1. ab \in abandoned[r] \/ (r = s /\ ab = <<k, cells[s][k].stamp>>)
    BY <1>2, Zenon
  <2>2. CASE r = s /\ ab = <<k, cells[s][k].stamp>>
    <3>1. ab[1] = k /\ ab[2] = cells[s][k].stamp
      BY <2>2, Zenon
    <3>2. cells'[r][k] = d
      BY <1>2, <2>2, Zenon DEF States
    <3>3. cells[s][k].stamp \in Timestamp
      BY <1>2, CellsGood, CellParts, Zenon
    <3> QED BY <1>2, <2>2, <3>1, <3>2, <3>3, Zenon
  <2> QED BY <2>1, <2>2, Zenon
<1>3. ASSUME NEW s \in Replicas, NEW k \in Keys, CallerStep(s, k)
      PROVE  \/ ab \in abandoned[r]
             \/ /\ ab \in Keys \X Timestamp
                /\ cells'[r][ab[1]] \in Cell
                /\ ~wrapped' => AtMost(ab[2], cells'[r][ab[1]].fence)
  <2>1. CASE Pin(s, k) \/ \E v \in Values, stamp \in Stamps : Put(s, k, v, stamp)
    BY <1>1, <2>1, Zenon DEF Pin, Put
  <2>2. CASE \E v \in Values, now \in Walls : RollbackKey(s, k, v, now)
    <3>1. PICK v \in Values, now \in Walls : RollbackKey(s, k, v, now)
      BY <2>2, Zenon
    <3>2. /\ cells[s][k] # Absent
          /\ abandoned' = [abandoned EXCEPT ![s] = @ \cup {<<k, cells[s][k].stamp>>}]
      BY <3>1, Zenon DEF RollbackKey, Abandon
    <3>3. PICK d \in Cell : /\ cells' = [cells EXCEPT ![s][k] = d]
                            /\ ~wrapped' => /\ Advances(cells[s][k], d)
                                            /\ AtMost(cells[s][k].stamp, d.fence)
      BY <3>1, RollbackAdvances
    <3> QED BY <1>2, <3>2, <3>3, Zenon
  <2>3. CASE \E now \in Walls : QuarantineKey(s, k, now)
    <3>1. PICK now \in Walls : QuarantineKey(s, k, now)
      BY <2>3, Zenon
    <3>2. /\ cells[s][k] # Absent
          /\ abandoned' = [abandoned EXCEPT ![s] = @ \cup {<<k, cells[s][k].stamp>>}]
      BY <3>1, Zenon DEF QuarantineKey, Abandon
    <3>3. PICK d \in Cell : /\ cells' = [cells EXCEPT ![s][k] = d]
                            /\ ~wrapped' => /\ Advances(cells[s][k], d)
                                            /\ AtMost(cells[s][k].stamp, d.fence)
      BY <3>1, QuarantineAdvances
    <3> QED BY <1>2, <3>2, <3>3, Zenon
  <2> QED BY <1>3, <2>1, <2>2, <2>3, Zenon DEF CallerStep
<1>4. CASE ~\E s \in Replicas, k \in Keys : CallerStep(s, k)
  BY <1>1, <1>4, Zenon DEF Next, Gossip, Deliver, DeliverTruncated
<1> QED BY <1>3, <1>4, Zenon

\* The flag is never taken back.
LEMMA StepWraps ==
    ASSUME FInv, Next
    PROVE  wrapped' \in BOOLEAN /\ (wrapped => wrapped')
<1>1. ASSUME NEW r \in Replicas, NEW k \in Keys, CallerStep(r, k)
      PROVE  (wrapped' = wrapped) \/ (wrapped' = (wrapped \/ wrapped'))
  BY <1>1, Zenon DEF CallerStep, Pin, Put, RollbackKey, QuarantineKey, Abandon
<1>2. (wrapped' = wrapped) \/ (wrapped' = (wrapped \/ wrapped'))
  BY <1>1, Zenon DEF Next, Gossip, Deliver, DeliverTruncated
<1> QED BY <1>2, Zenon DEF FInv, TypeOK

LEMMA FInvInit == Init => FInv
<1> SUFFICES ASSUME Init PROVE FInv
  BY Zenon
<1>1. wrapped \in BOOLEAN
  BY Zenon DEF Init
<1>2. TypeOK
  BY <1>1 DEF Init, TypeOK, States
<1>3. LiveAboveFence /\ AbandonedFenced
  BY DEF Init, LiveAboveFence, AbandonedFenced
<1> QED BY <1>2, <1>3, Zenon DEF FInv

LEMMA FInvStep == FInv /\ [Next]_vars => FInv'
<1> SUFFICES ASSUME FInv, [Next]_vars
             PROVE  FInv'
  BY Zenon
<1>1. CASE UNCHANGED vars
  BY <1>1, Zenon DEF vars, FInv, TypeOK, LiveAboveFence, AbandonedFenced, WellFormed, AtMost, Before
<1>2. CASE Next
  <2>1. /\ cells' \in [Replicas -> States]
        /\ ~wrapped' => \A r \in Replicas, k \in Keys : Advances(cells[r][k], cells'[r][k])
    BY <1>2, StepAdvances, Zenon
  <2>2. /\ net' \subseteq Messages
        /\ ~wrapped => \A m \in net', k \in Keys : m.state[k] # Absent => WellFormed(m.state[k])
    BY <1>2, StepNet, Zenon
  <2>3. ASSUME NEW r \in Replicas, NEW ab \in abandoned'[r]
        PROVE  /\ ab \in Keys \X Timestamp
               /\ ~wrapped' => /\ cells'[r][ab[1]] # Absent
                               /\ AtMost(ab[2], cells'[r][ab[1]].fence)
    <3>1. CASE ab \in abandoned[r]
      <4> DEFINE k == ab[1]
      <4>1. ab \in Keys \X Timestamp /\ k \in Keys /\ ab[2] \in Timestamp
        BY <3>1 DEF FInv, TypeOK
      <4>2. ASSUME ~wrapped'
            PROVE  cells'[r][k] # Absent /\ AtMost(ab[2], cells'[r][k].fence)
        <5>1. cells[r][k] # Absent /\ AtMost(ab[2], cells[r][k].fence)
          BY <1>2, <3>1, <4>2, StepWraps, Zenon DEF FInv, AbandonedFenced
        <5>2. Advances(cells[r][k], cells'[r][k])
          BY <2>1, <4>1, <4>2, Zenon
        <5>3. cells'[r][k] # Absent /\ AtMost(cells[r][k].fence, cells'[r][k].fence)
          BY <5>1, <5>2, Zenon DEF Advances, FenceOf
        <5>4. cells[r][k].fence \in Timestamp /\ cells'[r][k].fence \in Timestamp
          BY <4>1, <5>1, <5>2, <5>3, CellsGood, CellParts, Zenon DEF Advances
        <5> QED BY <4>1, <5>1, <5>3, <5>4, AtMostTransitive, Zenon
      <4> QED BY <4>1, <4>2, Zenon
    <3>2. CASE ab \notin abandoned[r]
      BY <1>2, <2>3, <3>2, StepAbandons, AbsentNotCell, Zenon
    <3> QED BY <3>1, <3>2, Zenon
  <2>4. pinned' \in [Replicas -> SUBSET Keys] /\ ops' \in Nat
    <3>1. ASSUME NEW r \in Replicas, NEW k \in Keys, CallerStep(r, k)
          PROVE  pinned' \in [Replicas -> SUBSET Keys] /\ ops' \in Nat
      <4>1. pinned \in [Replicas -> SUBSET Keys] /\ ops \in Nat
        BY Zenon DEF FInv, TypeOK
      <4>2. CASE Pin(r, k)
        BY <4>1, <4>2, Zenon DEF Pin
      <4>3. CASE ~Pin(r, k)
        <5>1. ops' = ops + 1 /\ UNCHANGED pinned
          BY <3>1, <4>3, Zenon DEF CallerStep, Put, RollbackKey, QuarantineKey, Write
        <5> QED BY <4>1, <5>1
      <4> QED BY <4>2, <4>3, Zenon
    <3> QED BY <1>2, <3>1, Zenon DEF Next, Gossip, Deliver, DeliverTruncated, FInv, TypeOK
  <2>5. DOMAIN abandoned' = Replicas /\ abandoned' = [r \in Replicas |-> abandoned'[r]]
    <3>1. ASSUME NEW r \in Replicas, NEW k \in Keys, CallerStep(r, k)
          PROVE  DOMAIN abandoned' = Replicas /\ abandoned' = [s \in Replicas |-> abandoned'[s]]
      BY <3>1, Zenon DEF CallerStep, Pin, Put, RollbackKey, QuarantineKey, Abandon, FInv, TypeOK
    <3> QED BY <1>2, <3>1, Zenon DEF Next, Gossip, Deliver, DeliverTruncated, FInv, TypeOK
  <2>6. abandoned' \in [Replicas -> SUBSET (Keys \X Timestamp)]
    BY <2>3, <2>5, Zenon
  <2>7. TypeOK'
    BY <1>2, <2>1, <2>2, <2>4, <2>6, StepWraps, Zenon DEF TypeOK
  <2>8. ASSUME ~wrapped'
        PROVE  LiveAboveFence' /\ AbandonedFenced'
    <3>1. ~wrapped
      BY <1>2, <2>8, StepWraps, Zenon
    <3>2. \A r \in Replicas, k \in Keys : GoodCell(cells'[r][k])
      BY <2>1, <2>8, <3>1, CellsGood, Zenon DEF Advances
    <3>3. LiveAboveFence'
      BY <2>2, <3>1, <3>2, Zenon DEF LiveAboveFence, GoodCell, WellFormed
    <3>4. AbandonedFenced'
      BY <2>3, <2>8, Zenon DEF AbandonedFenced
    <3> QED BY <3>3, <3>4, Zenon
  <2> QED BY <2>7, <2>8, Zenon DEF FInv
<1> QED BY <1>1, <1>2, Zenon

\* The inductive invariant holds in every reachable state.
THEOREM FencedInvariant == Spec => []FInv
BY FInvInit, FInvStep, PTL DEF Spec

\* In every replica and message a live value is stamped above its fence, until a
\* counter wraps around.
THEOREM FencedLiveAboveFence == Spec => [](~wrapped => LiveAboveFence)
<1>1. FInv => (~wrapped => LiveAboveFence)
  BY Zenon DEF FInv
<1> QED BY <1>1, FencedInvariant, PTL

\* A write rolled back at a replica is never live there again, for any number
\* of replicas, keys and messages, until a counter wraps around.
THEOREM FencedNoResurrection == Spec => []NoResurrection
<1>1. FInv => NoResurrection
  <2> SUFFICES ASSUME FInv, ~wrapped, NEW r \in Replicas, NEW ab \in abandoned[r],
                      cells[r][ab[1]].stamp = ab[2]
               PROVE  cells[r][ab[1]] # Absent /\ cells[r][ab[1]].tombstoned
    BY Zenon DEF NoResurrection, FInv, AbandonedFenced
  <2>1. ab[1] \in Keys /\ ab[2] \in Timestamp
    BY DEF FInv, TypeOK
  <2>2. cells[r][ab[1]] # Absent /\ AtMost(ab[2], cells[r][ab[1]].fence)
    BY Zenon DEF FInv, AbandonedFenced
  <2>3. cells[r][ab[1]] \in Cell /\ WellFormed(cells[r][ab[1]])
    BY <2>1, <2>2, CellsGood, Zenon DEF GoodCell
  <2> QED BY <2>2, <2>3, Zenon DEF WellFormed, AtMost
<1> QED BY <1>1, FencedInvariant, PTL

\* No step lowers a fence, until a counter wraps around.
THEOREM FencedFenceMonotone == Spec => FenceMonotone
<1>1. FInv /\ [Next]_vars =>
        [~wrapped' => \A r \in Replicas, k \in Keys :
            AtMost(FenceOf(cells[r][k]), FenceOf(cells'[r][k]))]_vars
  BY StepAdvances, Zenon DEF Advances
<1> QED BY <1>1, FencedInvariant, PTL DEF Spec, FenceMonotone

\* Neither gossip nor a caller rolls back a key at a replica that pinned it: its
\* fence stays and a value stays a value.
THEOREM FencedPinnedNeverRolledBack == Spec => PinnedNeverRolledBack
<1>1. ASSUME FInv, [Next]_vars
      PROVE  [\A r \in Replicas : \A k \in pinned[r] :
                 /\ FenceOf(cells'[r][k]) = FenceOf(cells[r][k])
                 /\ Live(cells[r][k], FenceOf(cells[r][k]))
                      => Live(cells'[r][k], FenceOf(cells'[r][k]))]_vars
  BY <1>1, StepAdvances, Zenon DEF KeepsPinned
<1> QED BY <1>1, FencedInvariant, PTL DEF Spec, PinnedNeverRolledBack

\* Merging is insensitive to the order and the repetition of messages.
THEOREM FencedMergeOrderIrrelevant == Spec => []MergeOrderIrrelevant
<1>1. FInv => MergeOrderIrrelevant
  <2> SUFFICES ASSUME FInv, NEW m1 \in net, NEW m2 \in net, m1.to = m2.to,
                      NEW k \in Keys \ pinned[m1.to],
                      m1.state[k] # Absent, m2.state[k] # Absent
               PROVE  LET ab == MergeOne(MergeOne(cells[m1.to][k], m1.state[k], FALSE),
                                         m2.state[k], FALSE)
                      IN  /\ ab = MergeOne(MergeOne(cells[m1.to][k], m2.state[k], FALSE),
                                           m1.state[k], FALSE)
                          /\ ab = MergeOne(ab, m1.state[k], FALSE)
    BY Zenon DEF MergeOrderIrrelevant
  <2>1. m1.to \in Replicas /\ m1.state[k] \in Cell /\ m2.state[k] \in Cell
    BY Zenon DEF FInv, TypeOK, Messages, States
  <2>2. cells[m1.to][k] \in Cell \cup {Absent}
    BY <2>1, CellsGood, Zenon
  <2> QED BY <2>1, <2>2, MergeCommutes, Zenon
<1> QED BY <1>1, FencedInvariant, PTL
--------------------------------------------------------------------------------
(* The hybrid logical clock: the order on stamps is total, and each update rule *)
(* lands strictly above everything it was given.                               *)

\* The types of a stamp's fields.
LEMMA FieldTypes ==
    ASSUME NEW t \in Timestamp
    PROVE  t.wall \in Nat /\ t.logical \in Nat
  BY Zenon DEF Timestamp

\* Stamps are totally ordered: the derived Ord of Timestamp.
THEOREM BeforeIsTotal ==
    ASSUME NEW s \in Timestamp, NEW t \in Timestamp, NEW u \in Timestamp
    PROVE  /\ ~Before(s, s)
           /\ Before(s, t) /\ Before(t, u) => Before(s, u)
           /\ Before(s, t) \/ Before(t, s) \/ s = t
  <1>1. s.wall \in Nat /\ s.logical \in Nat /\ t.wall \in Nat /\ t.logical \in Nat
        /\ u.wall \in Nat /\ u.logical \in Nat
    BY FieldTypes, Zenon
  <1>2. ~Before(s, s)
    BY <1>1 DEF Before
  <1>3. Before(s, t) /\ Before(t, u) => Before(s, u)
    BY <1>1 DEF Before
  <1>4. s.wall = t.wall /\ s.logical = t.logical => s = t
    BY DEF Timestamp
  <1>5. Before(s, t) \/ Before(t, s) \/ s = t
    BY <1>1, <1>4 DEF Before
  <1>. QED BY <1>2, <1>3, <1>5, Zenon

\* The larger of two readings.
LEMMA MaxOfNat ==
    ASSUME NEW a \in Nat, NEW b \in Nat
    PROVE  MaxOf(a, b) \in {a, b} /\ MaxOf(a, b) >= a /\ MaxOf(a, b) >= b
  BY DEF MaxOf

\* Hlc::local issues a stamp strictly after the clock's last one, and not behind
\* physical time.
THEOREM LocalAdvances ==
    ASSUME NEW last \in Timestamp, NEW pt \in Nat
    PROVE  /\ Local(last, pt) \in Timestamp
           /\ Before(last, Local(last, pt))
           /\ Local(last, pt).wall >= pt
  <1>. DEFINE wall == MaxOf(last.wall, pt)
              logical == IF wall = last.wall THEN last.logical + 1 ELSE 0
  <1>1. last.wall \in Nat /\ last.logical \in Nat
    BY FieldTypes, Zenon
  <1>2. wall \in Nat /\ wall >= last.wall /\ wall >= pt
    BY <1>1, MaxOfNat, Zenon
  <1>. HIDE DEF wall
  <1>3. logical \in Nat
    BY <1>1
  <1>4. Local(last, pt) = [wall |-> wall, logical |-> logical]
    BY Zenon DEF Local, wall
  <1>5. wall > last.wall \/ (wall = last.wall /\ logical > last.logical)
    BY <1>1, <1>2
  <1>. HIDE DEF logical
  <1>. QED BY <1>1, <1>2, <1>3, <1>4, <1>5 DEF Before, Timestamp

\* Hlc::receive lands strictly after both the clock and the message, so a
\* message's cause is ordered before its effect at the receiver.
THEOREM ReceiveDominates ==
    ASSUME NEW last \in Timestamp, NEW msg \in Timestamp, NEW pt \in Nat
    PROVE  /\ Receive(last, pt, msg) \in Timestamp
           /\ Before(last, Receive(last, pt, msg))
           /\ Before(msg, Receive(last, pt, msg))
  <1>. DEFINE wall == MaxOf(MaxOf(last.wall, msg.wall), pt)
              both == MaxOf(last.logical, msg.logical)
              logical == CASE wall = last.wall /\ wall = msg.wall -> both + 1
                           [] wall = last.wall /\ wall # msg.wall -> last.logical + 1
                           [] wall # last.wall /\ wall = msg.wall -> msg.logical + 1
                           [] OTHER -> 0
  <1>1. last.wall \in Nat /\ last.logical \in Nat /\ msg.wall \in Nat /\ msg.logical \in Nat
    BY FieldTypes, Zenon
  <1>2. wall \in Nat /\ wall >= last.wall /\ wall >= msg.wall
    BY <1>1, MaxOfNat
  <1>3. both \in Nat /\ both >= last.logical /\ both >= msg.logical
    BY <1>1, MaxOfNat, Zenon
  <1>4. Receive(last, pt, msg) = [wall |-> wall, logical |-> logical]
    BY Zenon DEF Receive
  <1>. HIDE DEF wall, both
  <1>5. logical \in Nat
    BY <1>1, <1>3
  <1>6. wall > last.wall \/ (wall = last.wall /\ logical > last.logical)
    BY <1>1, <1>2, <1>3
  <1>7. wall > msg.wall \/ (wall = msg.wall /\ logical > msg.logical)
    BY <1>1, <1>2, <1>3
  <1>. HIDE DEF logical
  <1>. QED BY <1>1, <1>2, <1>4, <1>5, <1>6, <1>7 DEF Before, Timestamp
================================================================================
