----------------------------- MODULE Multikernel -----------------------------
(***************************************************************************)
(* The machine as a network of cores (dominion-core/src/multikernel.rs):    *)
(* each core has its own replica, its own hybrid logical clock and an       *)
(* inbox; state moves only in stamped messages.  Callers pass the physical  *)
(* time they read, and the cores' readings are skewed.                      *)
(***************************************************************************)
EXTENDS Hlc, Sequences, FiniteSets, SequencesExt

CONSTANTS
    Cores,     \* core ids, naturals
    Names,     \* keys of the replica
    Values,
    Walls,     \* physical clock readings
    MaxOps,    \* bound on writes and sends
    Absent

VARIABLES
    clock,     \* per core: Hlc::last
    replica,   \* per core: name -> value
    inbox,     \* per core: messages [from, stamp, key, value], in order of arrival
    ops        \* writes and sends so far

vars == <<clock, replica, inbox, ops>>

\* The clock after Hlc::local or Hlc::receive; on CounterExhausted it stays, and
\* the callers here go on with it.
Tick(last, pt) ==
    IF Exhausted(Local(last, pt)) THEN last ELSE Local(last, pt)

TickReceive(last, pt, stamp) ==
    IF Exhausted(Receive(last, pt, stamp)) THEN last ELSE Receive(last, pt, stamp)

\* Mutant: messages are applied as they arrived.
OrderArrival(msgs) == [i \in 1 .. Len(msgs) |-> i]

\* The positions of an inbox sorted by stamp, then sender; the sort is stable.
Order(msgs) ==
    LET Precedes(i, j) ==
            \/ Before(msgs[i].stamp, msgs[j].stamp)
            \/ msgs[i].stamp = msgs[j].stamp /\ msgs[i].from < msgs[j].from
            \/ msgs[i].stamp = msgs[j].stamp /\ msgs[i].from = msgs[j].from /\ i < j
    IN  SetToSortSeq(1 .. Len(msgs), Precedes)

\* What applying an inbox in that order makes of a replica: per name, the last
\* message wins (no message finds a later stamp already applied).
Apply(old, msgs) ==
    FoldLeft(LAMBDA r, i : [r EXCEPT ![msgs[i].key] = msgs[i].value], old, Order(msgs))

Received(last, pt, msgs) ==
    FoldLeft(LAMBDA t, i : TickReceive(t, pt, msgs[i].stamp), last, Order(msgs))
------------------------------------------------------------------------------
Init ==
    /\ clock = [c \in Cores |-> Zero]
    /\ replica = [c \in Cores |-> [k \in Names |-> Absent]]
    /\ inbox = [c \in Cores |-> <<>>]
    /\ ops = 0

Operation ==
    /\ ops < MaxOps
    /\ ops' = ops + 1

LocalWrite(c, k, v, pt) ==
    /\ Operation
    /\ clock' = [clock EXCEPT ![c] = Tick(clock[c], pt)]
    /\ replica' = [replica EXCEPT ![c][k] = v]
    /\ UNCHANGED inbox

\* send: on an exhausted counter the message carries the last stamp issued.
Send(from, to, k, v, pt) ==
    /\ Operation
    /\ clock' = [clock EXCEPT ![from] = Tick(clock[from], pt)]
    /\ inbox' = [inbox EXCEPT ![to] =
           Append(@, [from |-> from, stamp |-> clock'[from], key |-> k, value |-> v])]
    /\ UNCHANGED replica

\* deliver: the whole inbox is taken, sorted and applied.
Deliver(c, pt) ==
    /\ inbox[c] # <<>>
    /\ clock' = [clock EXCEPT ![c] = Received(clock[c], pt, inbox[c])]
    /\ replica' = [replica EXCEPT ![c] = Apply(replica[c], inbox[c])]
    /\ inbox' = [inbox EXCEPT ![c] = <<>>]
    /\ UNCHANGED ops

Next ==
    \/ \E c \in Cores, k \in Names, v \in Values, pt \in Walls : LocalWrite(c, k, v, pt)
    \/ \E from, to \in Cores, k \in Names, v \in Values, pt \in Walls :
           Send(from, to, k, v, pt)
    \/ \E c \in Cores, pt \in Walls : Deliver(c, pt)

Spec == Init /\ [][Next]_vars
------------------------------------------------------------------------------
Spent(t) == t.logical >= MaxLogical

\* The clocks order causes before effects, whatever the skew of the physical
\* readings: a core's clock never goes back, a message is stamped strictly after
\* everything its sender had seen, and delivery leaves the receiver strictly after
\* every message it took in.  Strictness ends where the logical counter does.
HappensBefore ==
    [][\A c \in Cores :
         /\ AtMost(clock[c], clock'[c])
         /\ Len(inbox'[c]) > Len(inbox[c]) =>
              LET m == Last(inbox'[c])
              IN  Spent(clock[m.from]) \/ Before(clock[m.from], m.stamp)
         /\ Len(inbox'[c]) < Len(inbox[c]) =>
              \A i \in 1 .. Len(inbox[c]) :
                  \/ Spent(clock'[c])
                  \/ \E j \in 1 .. Len(inbox[c]) : Spent(inbox[c][j].stamp)
                  \/ Before(inbox[c][i].stamp, clock'[c])]_vars

\* Delivering an inbox gives one result, in whatever order its messages arrived,
\* as long as no sender has used a stamp twice.
ArrivalOrderIrrelevant ==
    \A c \in Cores :
        LET msgs == inbox[c]
            n    == Len(msgs)
            Shuffles == {p \in [1 .. n -> 1 .. n] : \A i, j \in 1 .. n : i # j => p[i] # p[j]}
        IN  (\A i, j \in 1 .. n :
                i # j => <<msgs[i].stamp, msgs[i].from>> # <<msgs[j].stamp, msgs[j].from>>)
            => \A p \in Shuffles :
                   Apply(replica[c], msgs) = Apply(replica[c], [i \in 1 .. n |-> msgs[p[i]]])
==============================================================================
