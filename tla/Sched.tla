-------------------------------- MODULE Sched --------------------------------
(***************************************************************************)
(* The cooperative scheduler of isolated domains and their message channels *)
(* (dominion-core/src/sched.rs), driven by one executor that dispatches a   *)
(* domain, runs a step of it and hands it back, while domains are spawned,  *)
(* killed and talk to each other.  Domain ids count up from 1 and are never *)
(* used twice; domains are never removed from the table.                    *)
(***************************************************************************)
EXTENDS Integers, Sequences, FiniteSets, SequencesExt

CONSTANTS
    MaxDomains,   \* bound on spawned domains
    MaxInbox      \* bound on messages waiting in an inbox (the code has none)

ASSUME SchedAssumption == MaxDomains \in Nat /\ MaxInbox \in Nat

VARIABLES
    sched,      \* [state: the domains' states by id, queue: run_queue]
    channels,   \* unordered pairs
    inbox,      \* per domain, the senders of the waiting messages
    hand,       \* the domain the executor is running, or 0
    passed      \* history: per domain, who was dispatched since it was queued

vars == <<sched, channels, inbox, hand, passed>>

Known(s) == DOMAIN s.state

IsReady(d) == d \in Known(sched) /\ sched.state[d] = "Ready"

NoDomains == [state |-> <<>>, queue |-> <<>>]

Spawned(s) == [state |-> Append(s.state, "Ready"), queue |-> Append(s.queue, Len(s.state) + 1)]

\* next, on a queue that is not empty
Dispatched(s) == [state |-> [s.state EXCEPT ![Head(s.queue)] = "Running"], queue |-> Tail(s.queue)]

\* Mutant: the domain that ran goes back to the front.
YieldedFront(s, id) ==
    IF s.state[id] = "Finished" THEN s
    ELSE [state |-> [s.state EXCEPT ![id] = "Ready"], queue |-> <<id>> \o s.queue]

\* yield_back
Yielded(s, id) ==
    IF s.state[id] = "Finished" THEN s
    ELSE [state |-> [s.state EXCEPT ![id] = "Ready"], queue |-> Append(s.queue, id)]

\* kill and finish
Killed(s, id) ==
    [state |-> [s.state EXCEPT ![id] = "Finished"], queue |-> SelectSeq(s.queue, LAMBDA q : q # id)]

ChannelExists(a, b) == {a, b} \in channels
------------------------------------------------------------------------------
SchedInit ==
    /\ sched = NoDomains
    /\ channels = {} /\ inbox = <<>> /\ hand = 0 /\ passed = <<>>

Spawn ==
    /\ Len(sched.state) < MaxDomains
    /\ sched' = Spawned(sched)
    /\ inbox' = Append(inbox, <<>>) /\ passed' = Append(passed, {})
    /\ UNCHANGED <<channels, hand>>

Dispatch ==
    /\ hand = 0 /\ sched.queue # <<>>
    /\ sched' = Dispatched(sched)
    /\ hand' = Head(sched.queue)
    /\ passed' = [d \in Known(sched) |-> IF d = hand' THEN {} ELSE passed[d] \cup {hand'}]
    /\ UNCHANGED <<channels, inbox>>

YieldBack ==
    /\ hand # 0
    /\ sched' = Yielded(sched, hand)
    /\ passed' = [passed EXCEPT ![hand] = {}]
    /\ hand' = 0
    /\ UNCHANGED <<channels, inbox>>

Finish ==
    /\ hand # 0
    /\ sched' = Killed(sched, hand)
    /\ hand' = 0
    /\ UNCHANGED <<channels, inbox, passed>>

Kill(id) ==
    /\ sched' = Killed(sched, id)
    /\ UNCHANGED <<channels, inbox, hand, passed>>

OpenChannel(a, b) ==
    /\ channels' = channels \cup {{a, b}}
    /\ UNCHANGED <<sched, inbox, hand, passed>>

Send(from, to) ==
    /\ Len(inbox[to]) < MaxInbox
    /\ ChannelExists(from, to)
    /\ inbox' = [inbox EXCEPT ![to] = Append(@, from)]
    /\ UNCHANGED <<sched, channels, hand, passed>>

Recv(id) ==
    /\ inbox[id] # <<>>
    /\ inbox' = [inbox EXCEPT ![id] = Tail(@)]
    /\ UNCHANGED <<sched, channels, hand, passed>>

SchedNext ==
    \/ Spawn \/ Dispatch \/ YieldBack \/ Finish
    \/ \E id \in Known(sched) : Kill(id) \/ Recv(id)
    \/ \E a, b \in Known(sched) : OpenChannel(a, b) \/ Send(a, b)

\* The executor keeps dispatching and hands back what it dispatched.
SchedSpec ==
    /\ SchedInit /\ [][SchedNext]_vars
    /\ WF_vars(Dispatch) /\ WF_vars(YieldBack \/ Finish)
------------------------------------------------------------------------------
\* Round robin: while a domain waits, no other is dispatched twice.
NoOvertaking ==
    [][hand # hand' /\ hand' # 0 =>
          \A d \in Known(sched) : sched'.state[d] = "Ready" => hand' \notin passed[d]]_vars

\* Every Ready domain is dispatched or killed in the end.
EveryReadyRuns ==
    \A d \in 1 .. MaxDomains :
        IsReady(d) ~> ~ IsReady(d)
==============================================================================
