------------------------------ MODULE MCNetwork ------------------------------
(***************************************************************************)
(* What carries messages: a secure session, the receive ring of the network *)
(* card, publish/subscribe over named data, and a connection that migrates. *)
(* They do not call each other: a behaviour drives one of them, chosen at   *)
(* first, and leaves the others alone.                                      *)
(***************************************************************************)
EXTENDS Session, Reactive, Connection

CONSTANTS Size, IdxWrap, NoAddr, RxCount, MaxFrames

VARIABLES part,
          table, ring, lastUsed, device,
          headToBuf, content, arrived, got, frames, head, buf, pc

cardVars == <<table, ring, lastUsed, device,
              headToBuf, content, arrived, got, frames, head, buf, pc>>
allVars == <<part, vars, cardVars, planeVars, connVars>>

Card == INSTANCE VirtioNet

\* How long a session lives matters to the behaviours that drive it.
NetworkInit ==
    /\ part \in {"session", "card", "plane", "path"}
    /\ Init /\ Card!Init /\ PlaneInit /\ ConnInit
    /\ part # "session" => expires_at = MaxTime

InSession(A) == part = "session" /\ A /\ UNCHANGED <<part, cardVars, planeVars, connVars>>
InCard(A) == part = "card" /\ A /\ UNCHANGED <<part, vars, planeVars, connVars>>
InPlane(A) == part = "plane" /\ A /\ UNCHANGED <<part, vars, cardVars, connVars>>
InPath(A) == part = "path" /\ A /\ UNCHANGED <<part, vars, cardVars, planeVars>>

NetworkNext ==
    \/ InSession(Next)
    \/ InCard(Card!Next)
    \/ InPlane(PlaneNext)
    \/ InPath(ConnNext)

\* The shell polls the network card again and again.
NetworkSpec == NetworkInit /\ [][NetworkNext]_allVars /\ WF_allVars(InCard(Card!DriverStep))
------------------------------------------------------------------------------
\* One publisher below the topic of one subscriber and beside that of another.
MCCaps == {[node |-> 1, right |-> "WRITE", topic |-> <<"a", "b">>, identity |-> "p"],
           [node |-> 2, right |-> "READ", topic |-> <<"a">>, identity |-> "s"],
           [node |-> 3, right |-> "READ", topic |-> <<"a", "c">>, identity |-> "s"]}

\* Objects are <<schema, payload>>.
MCObjects == {<<"k", 1>>, <<"j", 1>>}

Opt(delivery, since, schema, ttl) ==
    [delivery |-> delivery, since |-> since, schema |-> schema, ttl |-> ttl]

MCOptions == {Opt("AtMostOnce", Unlimited, Unlimited, Unlimited),
              Opt("AtLeastOnce", Unlimited, "k", Unlimited),
              Opt("AtLeastOnce", Unlimited, Unlimited, 0),
              Opt("ExactlyOnce", Unlimited, Unlimited, Unlimited),
              Opt("ExactlyOnce", <<"k", 1>>, Unlimited, Unlimited)}

MCLimits == {<<2, 1>>}

MCPredicates == {{<<"k", 1>>}}
------------------------------------------------------------------------------
\* Frames come out of the receive ring as they went in: none lost, repeated,
\* reordered, or overwritten in its buffer before it was copied.
FramesInOrder == Card!FramesInOrder

\* Between polls every buffer that fits the queue is posted again.
NoBufferLost == Card!NoBufferLost

\* Every frame the card writes is returned by some poll.
FramesReceived == Card!FramesReceived
==============================================================================
