---------------------------------- MODULE Hlc ----------------------------------
(***************************************************************************)
(* Hybrid logical clock values (dominion-core/src/hlc.rs): the derived      *)
(* lexicographic order on Timestamp and the two update rules, Hlc::local    *)
(* and Hlc::receive.  A rule whose logical counter would pass MaxLogical    *)
(* (u32::MAX in the code) returns Err(CounterExhausted) and leaves the      *)
(* clock alone: Exhausted here.                                             *)
(***************************************************************************)
EXTENDS Integers

CONSTANT MaxLogical

ASSUME HlcAssumption == MaxLogical \in Nat

Timestamp == [wall : Nat, logical : Nat]

\* Timestamp::default()
Zero == [wall |-> 0, logical |-> 0]

\* The derived Ord: by wall, then by logical.
Before(s, t) ==
    \/ s.wall < t.wall
    \/ s.wall = t.wall /\ s.logical < t.logical

AtMost(s, t) == ~Before(t, s)

Later(s, t) == IF Before(s, t) THEN t ELSE s

MaxOf(a, b) == IF a < b THEN b ELSE a

\* checked_add(1) on the logical counter fails exactly here.
Exhausted(t) == t.logical > MaxLogical

Local(last, pt) ==
    LET wall == MaxOf(last.wall, pt)
    IN  [wall |-> wall, logical |-> IF wall = last.wall THEN last.logical + 1 ELSE 0]

\* Mutant: the counter follows the local clock even when the message is ahead.
ReceiveLocalCounter(last, pt, msg) ==
    LET wall == MaxOf(MaxOf(last.wall, msg.wall), pt)
    IN  [wall |-> wall, logical |-> IF wall = last.wall THEN last.logical + 1 ELSE 0]

Receive(last, pt, msg) ==
    LET wall == MaxOf(MaxOf(last.wall, msg.wall), pt)
    IN  [wall |-> wall,
         logical |-> CASE wall = last.wall /\ wall = msg.wall ->
                              MaxOf(last.logical, msg.logical) + 1
                       [] wall = last.wall /\ wall # msg.wall -> last.logical + 1
                       [] wall # last.wall /\ wall = msg.wall -> msg.logical + 1
                       [] OTHER -> 0]
================================================================================
