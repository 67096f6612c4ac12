------------------------------- MODULE Session -------------------------------
(***************************************************************************)
(* The receiving half of an identity-bound session (dominion-core/src/      *)
(* session.rs): frames sealed with consecutive sequence numbers arrive late, *)
(* out of order, twice or not at all, and corrupted ones arrive among them. *)
(* Both ends seal under the same key, associated data and numbering, so a   *)
(* frame of this end that comes back to it is as authentic as one of the    *)
(* peer's with that number.  `open` checks that the session is live, then the     *)
(* frame's authenticity, and only then the sliding anti-replay window: the  *)
(* highest sequence number accepted and a bitmap of what was accepted below *)
(* it.  The bitmap is the set of its bits that are 1.                       *)
(***************************************************************************)
EXTENDS Integers

CONSTANTS
    Window,    \* REPLAY_WINDOW, the width of recv_window
    MaxSeq,    \* bound on the frames each end seals
    MaxTime    \* bound on the logical clock

ASSUME SessionAssumption == Window \in Nat \ {0} /\ MaxSeq \in Nat /\ MaxTime \in Nat

VARIABLES
    now,           \* the logical epoch the callers pass
    expires_at,
    revoked,       \* at this end
    send_seq,      \* this end's next sequence number: it has sealed 0 .. send_seq - 1
    peer_seq,      \* the peer's
    recv_high,
    recv_window,   \* depths below recv_high whose bit is 1
    received_any,
    answer,        \* what the last open returned: [seq, result]
    times          \* history: how often a frame of each number was accepted

recvVars == <<recv_high, recv_window, received_any>>
vars == <<now, expires_at, revoked, send_seq, peer_seq, recvVars, answer, times>>

Seqs == 0 .. MaxSeq
Bits == 0 .. Window - 1

TypeOK ==
    /\ now \in Nat /\ expires_at \in Nat /\ revoked \in BOOLEAN
    /\ send_seq \in 0 .. MaxSeq + 1 /\ peer_seq \in 0 .. MaxSeq + 1
    /\ recv_high \in Seqs /\ recv_window \in SUBSET Bits /\ received_any \in BOOLEAN
    /\ answer \in [seq : Seqs, result : {"none", "ok", "dead", "authfailed", "replayed"}]
    /\ times \in [Seqs -> Nat]
------------------------------------------------------------------------------
\* initiate and accept leave both ends with the same fresh counters.
Init ==
    /\ now = 0 /\ expires_at \in 0 .. MaxTime /\ revoked = FALSE
    /\ send_seq = 0 /\ peer_seq = 0
    /\ recv_high = 0 /\ recv_window = {} /\ received_any = FALSE
    /\ answer = [seq |-> 0, result |-> "none"]
    /\ times = [s \in Seqs |-> 0]

Tick ==
    /\ now < MaxTime
    /\ now' = now + 1
    /\ UNCHANGED <<expires_at, revoked, send_seq, peer_seq, recvVars, answer, times>>

Revoke ==
    /\ ~revoked
    /\ revoked' = TRUE
    /\ UNCHANGED <<now, expires_at, send_seq, peer_seq, recvVars, answer, times>>

Live == ~revoked /\ now <= expires_at

\* seal
Seal ==
    /\ Live
    /\ send_seq <= MaxSeq
    /\ send_seq' = send_seq + 1
    /\ UNCHANGED <<now, expires_at, revoked, peer_seq, recvVars, answer, times>>

\* The peer seals a frame; its session expires at the same epoch.
PeerSeal ==
    /\ now <= expires_at
    /\ peer_seq <= MaxSeq
    /\ peer_seq' = peer_seq + 1
    /\ UNCHANGED <<now, expires_at, revoked, send_seq, recvVars, answer, times>>

\* recv_window << n, in Window bits.
ShiftLeft(w, n) == {d \in Bits : d - n \in w}

\* Mutant: sliding forgets what was accepted below.
AdvanceForgets(s) == recv_high' = s /\ recv_window' = {0}

\* check_and_record_seq, seq > recv_high: slide the window and set bit 0.
Advance(s) ==
    /\ recv_high' = s
    /\ recv_window' = {0} \cup (IF s - recv_high >= Window THEN {}
                                ELSE ShiftLeft(recv_window, s - recv_high))

Accept(s) ==
    /\ answer' = [seq |-> s, result |-> "ok"]
    /\ times' = [times EXCEPT ![s] = @ + 1]

Refuse(s, result) ==
    /\ answer' = [seq |-> s, result |-> result]
    /\ UNCHANGED <<recvVars, times>>

Replayed(s) ==
    \/ recv_high - s >= Window
    \/ recv_high - s \in recv_window

\* check_and_record_seq on an authenticated sequence number.
CheckAndRecord(s) ==
    \/ /\ ~received_any
       /\ received_any' = TRUE /\ recv_high' = s /\ recv_window' = {0}
       /\ Accept(s)
    \/ /\ received_any /\ s > recv_high
       /\ Advance(s)
       /\ Accept(s)
       /\ UNCHANGED received_any
    \/ /\ received_any /\ s <= recv_high /\ ~Replayed(s)
       /\ recv_window' = recv_window \cup {recv_high - s}
       /\ Accept(s)
       /\ UNCHANGED <<recv_high, received_any>>
    \/ /\ received_any /\ s <= recv_high /\ Replayed(s)
       /\ Refuse(s, "replayed")

\* Mutant: the window is updated before the frame is authenticated.
OpenUnauthenticated(s, genuine) ==
    /\ \/ ~Live /\ Refuse(s, "dead")
       \/ Live /\ ~genuine /\ s > recv_high
          /\ Advance(s) /\ answer' = [seq |-> s, result |-> "authfailed"]
          /\ UNCHANGED <<received_any, times>>
       \/ Live /\ genuine /\ CheckAndRecord(s)
    /\ UNCHANGED <<now, expires_at, revoked, send_seq, peer_seq>>

\* open: liveness, authenticity, then the window.  A frame the network damaged
\* carries any sequence number.
Open(s, genuine) ==
    /\ \/ ~Live /\ Refuse(s, "dead")
       \/ Live /\ ~genuine /\ Refuse(s, "authfailed")
       \/ Live /\ genuine /\ CheckAndRecord(s)
    /\ UNCHANGED <<now, expires_at, revoked, send_seq, peer_seq>>

\* Any frame either end has sealed so far may arrive, now or again.
Next ==
    \/ Tick \/ Revoke \/ Seal \/ PeerSeal
    \/ \E s \in 0 .. send_seq - 1 : Open(s, TRUE)
    \/ \E s \in 0 .. peer_seq - 1 : Open(s, TRUE)
    \/ \E s \in Seqs : Open(s, FALSE)

Spec == Init /\ [][Next]_vars
------------------------------------------------------------------------------
\* No sequence number, and so no frame, is handed to the application twice,
\* however often and in whatever order the network delivers it.
AcceptedOnce == \A s \in Seqs : times[s] <= 1

\* A genuine frame is refused as a replay only if its number was accepted before
\* or is a full window below the highest accepted: reordering within the window,
\* and frames that failed authentication, cost nothing.
RefusedOnlyIfSeenOrOld ==
    answer.result = "replayed" =>
        \/ times[answer.seq] = 1
        \/ \E h \in Seqs : times[h] = 1 /\ h - answer.seq >= Window

\* The window remembers exactly what was accepted within it, and nothing was
\* accepted above its top: the inductive core of the two properties above.
WindowExact ==
    /\ ~received_any => \A s \in Seqs : times[s] = 0
    /\ received_any =>
          /\ 0 \in recv_window
          /\ \A s \in Seqs : s > recv_high => times[s] = 0
          /\ \A s \in Seqs : s <= recv_high /\ recv_high - s < Window =>
                 (recv_high - s \in recv_window <=> times[s] = 1)
==============================================================================
