------------------------------ MODULE Connection ------------------------------
(***************************************************************************)
(* Connection migration (transport.rs): a connection to a peer moves to a   *)
(* new path only after the peer echoed a challenge from there.  The peer    *)
(* roams; challenges go to the path they are about and are answered by the  *)
(* peer when it is there; echoes are never lost from `echoes`, so they      *)
(* arrive late, repeatedly and in any order.  A challenge is a keyed hash of *)
(* the stream position and the path, here the pair itself.                  *)
(***************************************************************************)
EXTENDS Naturals

CONSTANTS Paths,        \* locators
          FirstPath,    \* the path of the handshake
          NoChallenge,  \* no migration pending
          MaxStream     \* bound on the stream position

VARIABLES path, seq,
          pending,     \* the path being validated and its challenge, or NoChallenge
          peerAt,      \* where the peer is
          challenges,  \* challenges sent
          echoes,      \* challenges echoed by the peer
          seen         \* history: <<path, seq>> the peer answered from

connVars == <<path, seq, pending, peerAt, challenges, echoes, seen>>

ConnInit ==
    /\ path = FirstPath /\ seq = 0 /\ pending = NoChallenge
    /\ peerAt = FirstPath /\ challenges = {} /\ echoes = {} /\ seen = {}

Send ==
    /\ seq < MaxStream
    /\ seq' = seq + 1
    /\ UNCHANGED <<path, pending, peerAt, challenges, echoes, seen>>

\* Mutant: the new path is left out of the hash.
ChallengePathless(new_path) == <<seq, FirstPath>>

Challenge(new_path) == <<seq, new_path>>

BeginMigration(new_path) ==
    /\ pending' = [path |-> new_path, challenge |-> Challenge(new_path)]
    /\ challenges' = challenges \cup {pending'}
    /\ UNCHANGED <<path, seq, peerAt, echoes, seen>>

\* Any echo ends the validation; only the right one moves the connection.
CompleteMigration(echoed) ==
    /\ pending # NoChallenge
    /\ pending' = NoChallenge
    /\ path' = IF echoed = pending.challenge THEN pending.path ELSE path
    /\ UNCHANGED <<seq, peerAt, challenges, echoes, seen>>

Roam ==
    /\ peerAt' \in Paths
    /\ UNCHANGED <<path, seq, pending, challenges, echoes, seen>>

\* The peer echoes a challenge that reaches it where it is.
Echo(c) ==
    /\ peerAt = c.path
    /\ echoes' = echoes \cup {c.challenge}
    /\ seen' = seen \cup {<<c.path, c.challenge[1]>>}
    /\ UNCHANGED <<path, seq, pending, peerAt, challenges>>

ConnNext ==
    \/ Send
    \/ \E p \in Paths : BeginMigration(p)
    \/ \E e \in echoes : CompleteMigration(e)
    \/ Roam
    \/ \E c \in challenges : Echo(c)

ConnSpec == ConnInit /\ [][ConnNext]_connVars
------------------------------------------------------------------------------
\* The connection moves "after path validation" (transport.rs): to a path the
\* peer answered from at the very stream position the validation began at,
\* whatever late or repeated echoes of other validations arrive meanwhile; and
\* a move never resets the stream.
PathValidated ==
    [][path' # path =>
          /\ <<path', pending.challenge[1]>> \in seen
          /\ pending.path = path' /\ seq' = seq]_connVars
==============================================================================
