------------------------------- MODULE Reactive -------------------------------
(***************************************************************************)
(* ReactivePlane (pubsub.rs): publish/subscribe over a bounded event log,   *)
(* with the notify path of the NDN forwarder (ndn.rs) and the quotas and    *)
(* revocations of the capability firewall (firewall.rs).  A log that grows  *)
(* past MAX_EVENT_LOG loses its oldest half and every cursor into it is     *)
(* rebased.  A name is a sequence of components, an object a pair of its    *)
(* kind and its body (equal objects have equal hashes).  A call that only   *)
(* returns an error changes nothing and is a stuttering step.               *)
(***************************************************************************)
EXTENDS Naturals, Sequences

CONSTANTS Caps,           \* minted capabilities: [node, right, topic, identity]
          Objects,        \* objects that are published: <<kind, body>>
          SubOptions,     \* options of subscriptions: [delivery, since, schema, ttl]
          Predicates,     \* predicates of standing queries: sets of objects
          Revocable,      \* nodes that are revoked
          Limits,         \* quotas that are set: <<node, ops>>
          MAX_EVENT_LOG,  \* pubsub.rs: 10_000
          Unlimited,      \* no quota, no TTL, no schema, no since hash
          MaxPublishes, MaxListeners, MaxEpoch

ASSUME ReactiveAssumption == MAX_EVENT_LOG \in Nat

VARIABLES epoch,
          events,     \* the log in memory: [topic, object]
          subs,       \* SubState by id, with what its consumer got (history)
          queries,    \* QueryState by id
          presence,   \* per identity: [last, count]
          pit,        \* standing Interests: name -> faces
          quota, barred,   \* the firewall's view of the nodes: quotas, the revoked ones
          notified,   \* faces the last publish woke
          history     \* every event ever published (history)

planeVars == <<epoch, events, subs, queries, presence, pit, quota, barred, notified, history>>

Nodes == {c.node : c \in Caps}
Topics == {c.topic : c \in Caps}
Identities == {c.identity : c \in Caps}

\* How many events compaction has drained: the log is a suffix of the history.
Dropped == Len(history) - Len(events)

HasPrefix(name, prefix) ==
    Len(prefix) <= Len(name) /\ SubSeq(name, 1, Len(prefix)) = prefix

PlaneInit ==
    /\ epoch = 0 /\ events = <<>> /\ subs = <<>> /\ queries = <<>>
    /\ presence = [i \in Identities |-> [last |-> 0, count |-> 0]]
    /\ pit = [t \in Topics |-> {}]
    /\ quota = [n \in Nodes |-> Unlimited] /\ barred = {}
    /\ notified = {} /\ history = <<>>

PlaneTick ==
    /\ epoch < MaxEpoch
    /\ epoch' = epoch + 1
    /\ UNCHANGED <<events, subs, queries, presence, pit, quota, barred, notified, history>>

SetQuota(node, ops) ==
    /\ quota' = [quota EXCEPT ![node] = ops]
    /\ UNCHANGED <<epoch, events, subs, queries, presence, pit, barred, notified, history>>

\* The plane draws no edges between nodes, so revocation reaches the node itself.
RevokeNode(node) ==
    /\ node \notin barred
    /\ barred' = barred \cup {node}
    /\ UNCHANGED <<epoch, events, subs, queries, presence, pit, quota, notified, history>>

Consume(node) ==
    \/ quota[node] = Unlimited /\ UNCHANGED quota
    \/ /\ quota[node] \notin {Unlimited, 0}
       /\ quota' = [quota EXCEPT ![node] = @ - 1]

\* A new subscription starts at the end of the log, or past the first event with
\* the hash `since`.
StartsAt(since, start) ==
    IF since = Unlimited THEN start = Len(events)
    ELSE /\ start > 0 /\ events[start].object = since
         /\ \A i \in 1 .. start - 1 : events[i].object # since

Subscription(cap, face, opts, start) ==
    [topic |-> cap.topic, node |-> cap.node, face |-> face,
     delivery |-> opts.delivery, schema |-> opts.schema, ttl |-> opts.ttl,
     cursor |-> start, seen |-> {}, lagged |-> FALSE,
     from |-> Dropped + start, got |-> <<>>, told |-> 0]

\* The Interest is seated before `since` is looked up, and stays when it is refused.
Subscribe(cap, face, opts) ==
    /\ cap.right = "READ" /\ cap.node \notin barred
    /\ Len(subs) + Len(queries) < MaxListeners
    /\ pit' = [pit EXCEPT ![cap.topic] = @ \cup {face}]
    /\ \/ \E start \in 0 .. Len(events) :
             /\ StartsAt(opts.since, start)
             /\ subs' = Append(subs, Subscription(cap, face, opts, start))
       \/ /\ opts.since # Unlimited
          /\ \A i \in DOMAIN events : events[i].object # opts.since
          /\ UNCHANGED subs
    /\ UNCHANGED <<epoch, events, queries, presence, quota, barred, notified, history>>

\* Faces with a pending Interest in a name under `prefix`.
Notify(prefix) == UNION {pit[t] : t \in {u \in Topics : HasPrefix(u, prefix)}}

\* Mutant: only a cursor at the very start of the log is flagged.
RebaseFlagsFirst(sub, keep_from) ==
    [sub EXCEPT !.lagged = @ \/ (sub.cursor = 0 /\ sub.delivery # "AtMostOnce"),
                !.cursor = IF @ > keep_from THEN @ - keep_from ELSE 0]

\* Mutant: a cursor past the drained events goes back to the start as well.
RebaseToStart(sub, keep_from) ==
    [sub EXCEPT !.lagged = @ \/ (sub.cursor < keep_from /\ sub.delivery # "AtMostOnce"),
                !.cursor = 0]

\* A cursor inside the drained events is clamped, and flagged unless gaps are fine.
Rebase(sub, keep_from) ==
    [sub EXCEPT !.lagged = @ \/ (sub.cursor < keep_from /\ sub.delivery # "AtMostOnce"),
                !.cursor = IF @ > keep_from THEN @ - keep_from ELSE 0]

\* A standing query pushes an object the first time it matches.
Match(q, object) ==
    IF q.kind = object[1] /\ object \in q.predicate /\ object \notin q.matched
    THEN [q EXCEPT !.matched = @ \cup {object}, !.delta = Append(@, object)]
    ELSE q

Publish(cap, object) ==
    /\ cap.right = "WRITE" /\ cap.node \notin barred
    /\ Len(history) < MaxPublishes
    /\ Consume(cap.node)
    /\ history' = Append(history, [topic |-> cap.topic, object |-> object])
    /\ LET pushed == Append(events, [topic |-> cap.topic, object |-> object])
           keep_from == Len(pushed) - MAX_EVENT_LOG \div 2
       IN  IF Len(pushed) > MAX_EVENT_LOG
           THEN /\ events' = SubSeq(pushed, keep_from + 1, Len(pushed))
                /\ subs' = [i \in DOMAIN subs |-> Rebase(subs[i], keep_from)]
           ELSE events' = pushed /\ UNCHANGED subs
    /\ presence' = [presence EXCEPT ![cap.identity] = [last |-> epoch, count |-> @.count + 1]]
    /\ queries' = [q \in DOMAIN queries |-> Match(queries[q], object)]
    /\ notified' = Notify(cap.topic)
    /\ UNCHANGED <<epoch, pit, barred>>

\* An event under the subscription's topic, of its schema if it has one.
Asks(sub, event) ==
    /\ HasPrefix(event.topic, sub.topic)
    /\ sub.schema \in {Unlimited, event.object[1]}

\* The log positions at or past a subscription's cursor that it asked for.
Wanted(sub) == {k \in sub.cursor + 1 .. Len(events) : Asks(sub, events[k])}

\* ExactlyOnce leaves out what it has seen before, in this poll or an earlier one.
Delivered(sub) ==
    IF sub.delivery = "ExactlyOnce"
    THEN {k \in Wanted(sub) :
            /\ events[k].object \notin sub.seen
            /\ \A j \in Wanted(sub) : j < k => events[j].object # events[k].object}
    ELSE Wanted(sub)

\* Positions in the log in ascending order; there is one such sequence.
Ascending(S) ==
    {out \in UNION {[1 .. n -> S] : n \in 0 .. Len(events)} :
        /\ \A m, n \in DOMAIN out : m < n => out[m] < out[n]
        /\ \A k \in S : \E n \in DOMAIN out : out[n] = k}

\* What a successful poll leaves in the subscription.
Caught(sub, out) ==
    [sub EXCEPT
        !.got = @ \o [n \in DOMAIN out |-> Dropped + out[n]],
        !.seen = IF sub.delivery = "ExactlyOnce"
                 THEN @ \cup {events[k].object : k \in Delivered(sub)} ELSE @,
        !.cursor = Len(events)]

\* Expired and revoked polls fail first; a gap is reported once, before the quota.
Poll(i) ==
    /\ subs[i].ttl \in {Unlimited} \cup epoch .. MaxEpoch
    /\ subs[i].node \notin barred
    /\ \/ /\ subs[i].lagged
          /\ subs' = [subs EXCEPT ![i].lagged = FALSE, ![i].told = Dropped]
          /\ UNCHANGED quota
       \/ /\ ~subs[i].lagged
          /\ Consume(subs[i].node)
          /\ \E out \in Ascending(Delivered(subs[i])) :
                 subs' = [subs EXCEPT ![i] = Caught(@, out)]
    /\ UNCHANGED <<epoch, events, queries, presence, pit, barred, notified, history>>

StandingQuery(cap, kind, predicate) ==
    /\ cap.right = "READ"
    /\ Len(subs) + Len(queries) < MaxListeners
    /\ queries' = Append(queries,
           [kind |-> kind, predicate |-> predicate, matched |-> {}, delta |-> <<>>])
    /\ UNCHANGED <<epoch, events, subs, presence, pit, quota, barred, notified, history>>

PollQuery(q) ==
    /\ queries[q].delta # <<>>
    /\ queries' = [queries EXCEPT ![q].delta = <<>>]
    /\ UNCHANGED <<epoch, events, subs, presence, pit, quota, barred, notified, history>>

PlaneNext ==
    \/ PlaneTick
    \/ \E l \in Limits : SetQuota(l[1], l[2])
    \/ \E n \in Revocable : RevokeNode(n)
    \/ \E c \in Caps, o \in SubOptions : Subscribe(c, Len(subs) + 1, o)
    \/ \E c \in Caps, o \in Objects : Publish(c, o)
    \/ \E i \in DOMAIN subs : Poll(i)
    \/ \E c \in Caps, o \in Objects, p \in Predicates : StandingQuery(c, o[1], p)
    \/ \E q \in DOMAIN queries : PollQuery(q)

PlaneSpec == PlaneInit /\ [][PlaneNext]_planeVars
-----------------------------------------------------------------------------
\* The events of the history that subscription s asked for.
Asked(s) == {g \in s.from + 1 .. Len(history) : Asks(s, history[g])}

\* No silent gap (the Lagged error of poll, pubsub.rs): to a subscriber that
\* did not ask for AtMostOnce, an event it asked for is delivered, still ahead of
\* its cursor, or among the drained ones it has been told, or will be told next,
\* that it lost.  ExactlyOnce may deliver an equal object instead.
NoSilentGap ==
    \A i \in DOMAIN subs : subs[i].delivery # "AtMostOnce" =>
        \A g \in Asked(subs[i]) :
            \/ g > Dropped + subs[i].cursor
            \/ \E n \in DOMAIN subs[i].got :
                  \/ subs[i].got[n] = g
                  \/ /\ subs[i].delivery = "ExactlyOnce"
                     /\ history[subs[i].got[n]].object = history[g].object
            \/ g <= Dropped /\ subs[i].lagged
            \/ g <= subs[i].told

\* Polls deliver what was asked for, in the order it was published, no event
\* twice, and to an ExactlyOnce subscriber no object twice (poll, pubsub.rs),
\* across any number of compactions that rebase its cursor.
InOrderOnce ==
    \A i \in DOMAIN subs :
        /\ \A n \in DOMAIN subs[i].got : subs[i].got[n] \in Asked(subs[i])
        /\ \A m, n \in DOMAIN subs[i].got : m < n =>
              /\ subs[i].got[m] < subs[i].got[n]
              /\ subs[i].delivery = "ExactlyOnce" =>
                    history[subs[i].got[m]].object # history[subs[i].got[n]].object
==============================================================================
