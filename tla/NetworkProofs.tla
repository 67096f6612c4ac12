---------------------------- MODULE NetworkProofs ----------------------------
(***************************************************************************)
(* What sessions and connections promise, for every value of their          *)
(* constants.  The anti-replay window of a session is exact: no frame is    *)
(* delivered twice and no fresh frame within the window is refused.  A      *)
(* connection moves only to a path the peer answered from.  A subscription  *)
(* gets what it asked for in order and once, and learns of what compaction  *)
(* took from it, for any log size, any subscribers and any number of        *)
(* compactions.                                                             *)
(***************************************************************************)
EXTENDS Session, Connection, Reactive, WellFoundedInduction, TLAPS

USE SMTT(30), ZenonT(30)

------------------------------------------------------------------------------
(***************************************************************************)
(* Session: the window.                                                     *)
(***************************************************************************)

\* What a step keeps: types, the exact window, and the two properties it gives.
Inv == TypeOK /\ WindowExact /\ AcceptedOnce /\ RefusedOnlyIfSeenOrOld

\* A session starts with an empty window and no frame delivered.
LEMMA InitInv == Init => Inv
<1> SUFFICES ASSUME Init PROVE Inv
  BY Zenon
<1>1. TypeOK
  <2>1. /\ now \in Nat /\ expires_at \in Nat
        /\ send_seq \in 0 .. MaxSeq + 1 /\ peer_seq \in 0 .. MaxSeq + 1
    BY SessionAssumption DEF Init
  <2>2. revoked \in BOOLEAN /\ received_any \in BOOLEAN
    BY Zenon DEF Init
  <2>3. recv_high \in Seqs /\ recv_window \in SUBSET Bits
    BY SessionAssumption DEF Init, Seqs
  <2>4. answer \in [seq : Seqs, result : {"none", "ok", "dead", "authfailed", "replayed"}]
    BY SessionAssumption DEF Init, Seqs
  <2>5. times \in [Seqs -> Nat]
    BY Zenon DEF Init
  <2> QED
    BY <2>1, <2>2, <2>3, <2>4, <2>5, Zenon DEF TypeOK
<1>2. WindowExact
  <2>1. \A s \in Seqs : times[s] = 0
    BY Zenon DEF Init
  <2>2. ~received_any
    BY Zenon DEF Init
  <2> QED
    BY <2>1, <2>2, Zenon DEF WindowExact
<1>3. AcceptedOnce
  BY DEF Init, AcceptedOnce
<1>4. RefusedOnlyIfSeenOrOld
  BY Zenon DEF Init, RefusedOnlyIfSeenOrOld
<1> QED
  BY <1>1, <1>2, <1>3, <1>4, Zenon DEF Inv

\* The bit at depth d after a slide by n is the bit that was at depth d - n.
LEMMA ShiftMoves ==
    ASSUME NEW w \in SUBSET Bits, NEW n \in Nat, NEW d \in Bits
    PROVE  d \in ShiftLeft(w, n) <=> d - n \in w
  BY Zenon DEF ShiftLeft

\* A step that neither records a frame nor answers one keeps the invariant.
LEMMA QuietStep ==
    ASSUME Inv, UNCHANGED <<recvVars, answer, times>>,
           now' \in Nat, expires_at' \in Nat, revoked' \in BOOLEAN,
           send_seq' \in 0 .. MaxSeq + 1, peer_seq' \in 0 .. MaxSeq + 1
    PROVE  Inv'
  BY Zenon DEF Inv, TypeOK, WindowExact, AcceptedOnce, RefusedOnlyIfSeenOrOld, recvVars

\* Refusing a frame keeps it when the reason given is the real one.
LEMMA RefuseStep ==
    ASSUME Inv, NEW s \in Seqs, NEW result \in {"dead", "authfailed", "replayed"},
           Refuse(s, result),
           result = "replayed" =>
               \/ times[s] = 1
               \/ \E h \in Seqs : times[h] = 1 /\ h - s >= Window,
           UNCHANGED <<now, expires_at, revoked, send_seq, peer_seq>>
    PROVE  Inv'
<1>1. TypeOK'
  BY Zenon DEF Inv, TypeOK, Refuse, recvVars
<1>2. WindowExact' /\ AcceptedOnce'
  BY Zenon DEF Inv, WindowExact, AcceptedOnce, Refuse, recvVars
<1>3. RefusedOnlyIfSeenOrOld'
  BY Zenon DEF Inv, RefusedOnlyIfSeenOrOld, Refuse, recvVars
<1> QED
  BY <1>1, <1>2, <1>3, Zenon DEF Inv

\* Accepting a frame not delivered before counts it once and no other.
LEMMA AcceptCounts ==
    ASSUME Inv, NEW s \in Seqs, times[s] = 0, Accept(s)
    PROVE  /\ times' \in [Seqs -> Nat]
           /\ times'[s] = 1
           /\ \A u \in Seqs : u # s => times'[u] = times[u]
           /\ answer' \in [seq : Seqs, result : {"none", "ok", "dead", "authfailed", "replayed"}]
           /\ AcceptedOnce' /\ RefusedOnlyIfSeenOrOld'
<1>1. times \in [Seqs -> Nat]
  BY Zenon DEF Inv, TypeOK
<1>2. times'[s] = 1 /\ \A u \in Seqs : u # s => times'[u] = times[u]
  BY <1>1 DEF Accept
<1>3. times' \in [Seqs -> Nat]
  BY <1>1 DEF Accept
<1>4. AcceptedOnce'
  BY <1>2, <1>1 DEF Inv, AcceptedOnce
<1>5. answer' \in [seq : Seqs, result : {"none", "ok", "dead", "authfailed", "replayed"}]
  BY Zenon DEF Accept
<1>6. RefusedOnlyIfSeenOrOld'
  BY Zenon DEF Accept, RefusedOnlyIfSeenOrOld
<1> QED
  BY <1>2, <1>3, <1>4, <1>5, <1>6, Zenon

\* check_and_record_seq keeps it: the first frame, a new highest one, one within
\* the window, and a replay.
LEMMA RecordStep ==
    ASSUME Inv, NEW s \in Seqs, CheckAndRecord(s),
           UNCHANGED <<now, expires_at, revoked, send_seq, peer_seq>>
    PROVE  Inv'
<1> USE SessionAssumption DEF Seqs, Bits
<1>0. recv_high \in Seqs /\ recv_window \in SUBSET Bits /\ times \in [Seqs -> Nat]
  BY Zenon DEF Inv, TypeOK
<1>1. CASE /\ ~received_any
           /\ received_any' = TRUE /\ recv_high' = s /\ recv_window' = {0}
           /\ Accept(s)
  <2>1. times[s] = 0
    BY <1>1, Zenon DEF Inv, WindowExact
  <2>2. WindowExact'
    BY <1>0, <1>1, <2>1, AcceptCounts DEF Inv, WindowExact
  <2>3. TypeOK'
    BY <1>1, <2>1, AcceptCounts DEF Inv, TypeOK
  <2> QED
    BY <1>1, <2>1, <2>2, <2>3, AcceptCounts, Zenon DEF Inv
<1>2. CASE /\ received_any /\ s > recv_high
           /\ Advance(s)
           /\ Accept(s)
           /\ UNCHANGED received_any
  <2>1. times[s] = 0
    BY <1>2, Zenon DEF Inv, WindowExact
  <2>2. recv_window' \in SUBSET Bits /\ 0 \in recv_window'
    BY <1>0, <1>2 DEF Advance, ShiftLeft
  <2>3. ASSUME NEW u \in Seqs, u <= s, s - u < Window
        PROVE  s - u \in recv_window' <=> times'[u] = 1
    <3>1. CASE u = s
      BY <2>1, <2>2, <3>1, <1>2, AcceptCounts
    <3>2. CASE u # s /\ u > recv_high
      <4>1. times'[u] = 0
        BY <2>1, <3>2, <1>2, AcceptCounts, SMTT(30) DEF Inv, WindowExact
      <4>2. (s - u) - (s - recv_high) \notin recv_window
        BY <1>0, <3>2
      <4> QED
        BY <1>0, <1>2, <3>2, <4>1, <4>2 DEF Advance, ShiftLeft
    <3>3. CASE u <= recv_high
      <4>1. times'[u] = times[u] /\ u # s
        BY <2>1, <3>3, <1>2, <1>0, AcceptCounts
      <4>2. s - recv_high < Window /\ recv_high - u < Window
        BY <1>0, <1>2, <2>3, <3>3
      <4>3. (s - u) - (s - recv_high) = recv_high - u /\ s - u # 0
        BY <1>0, <1>2, <3>3, <4>1
      <4>4. recv_high - u \in recv_window <=> times[u] = 1
        BY <1>0, <1>2, <3>3, <4>2, Zenon DEF Inv, WindowExact
      <4>5. s - u \in recv_window' <=> recv_high - u \in recv_window
        BY <1>0, <1>2, <2>3, <4>2, <4>3 DEF Advance, ShiftLeft
      <4> QED
        BY <4>1, <4>4, <4>5, Zenon
    <3> QED
      BY <3>1, <3>2, <3>3, <1>0
  <2>4. \A u \in Seqs : u > s => times'[u] = 0
    BY <1>0, <1>2, <2>1, AcceptCounts DEF Inv, WindowExact
  <2>5. WindowExact'
    BY <1>2, <2>2, <2>3, <2>4, Zenon DEF WindowExact, Advance
  <2>6. TypeOK'
    BY <1>2, <2>1, <2>2, AcceptCounts, SMTT(30) DEF Inv, TypeOK, Advance
  <2> QED
    BY <1>2, <2>1, <2>5, <2>6, AcceptCounts, Zenon DEF Inv
<1>3. CASE /\ received_any /\ s <= recv_high /\ ~Replayed(s)
           /\ recv_window' = recv_window \cup {recv_high - s}
           /\ Accept(s)
           /\ UNCHANGED <<recv_high, received_any>>
  <2>1. recv_high - s < Window /\ recv_high - s \notin recv_window /\ recv_high - s \in Bits
    BY <1>0, <1>3 DEF Replayed
  <2>2. times[s] = 0
    BY <1>0, <1>3, <2>1 DEF Inv, WindowExact, AcceptedOnce
  <2>3. ASSUME NEW u \in Seqs, u <= recv_high, recv_high - u < Window
        PROVE  recv_high - u \in recv_window' <=> times'[u] = 1
    <3>1. CASE u = s
      BY <1>3, <2>2, <3>1, AcceptCounts, Zenon
    <3>2. CASE u # s
      <4>1. times'[u] = times[u] /\ recv_high - u # recv_high - s
        BY <1>0, <1>3, <2>2, <3>2, AcceptCounts
      <4>2. recv_high - u \in recv_window <=> times[u] = 1
        BY <1>3, <2>3, Zenon DEF Inv, WindowExact
      <4> QED
        BY <1>3, <4>1, <4>2, Zenon
    <3> QED
      BY <3>1, <3>2, Zenon
  <2>4. \A u \in Seqs : u > recv_high => times'[u] = 0
    BY <1>0, <1>3, <2>2, AcceptCounts DEF Inv, WindowExact
  <2>5. WindowExact'
    BY <1>3, <2>3, <2>4, Zenon DEF Inv, WindowExact
  <2>6. TypeOK'
    BY <1>0, <1>3, <2>1, <2>2, AcceptCounts, Zenon DEF Inv, TypeOK
  <2> QED
    BY <1>3, <2>2, <2>5, <2>6, AcceptCounts, Zenon DEF Inv
<1>4. CASE received_any /\ s <= recv_high /\ Replayed(s) /\ Refuse(s, "replayed")
  <2>1. times[recv_high] = 1
    BY <1>0, <1>4 DEF Inv, WindowExact
  <2>2. \/ times[s] = 1
        \/ \E h \in Seqs : times[h] = 1 /\ h - s >= Window
    BY <1>0, <1>4, <2>1 DEF Inv, WindowExact, Replayed
  <2> QED
    BY <1>4, <2>2, RefuseStep, Zenon
<1> QED
  BY <1>1, <1>2, <1>3, <1>4, Zenon DEF CheckAndRecord

\* Every step keeps the invariant.
LEMMA NextInv == Inv /\ [Next]_vars => Inv'
<1> SUFFICES ASSUME Inv, [Next]_vars PROVE Inv'
  BY Zenon
<1>1. CASE Tick
  BY <1>1, QuietStep DEF Tick, Inv, TypeOK
<1>2. CASE Revoke
  BY <1>2, QuietStep, Zenon DEF Revoke, Inv, TypeOK
<1>3. CASE Seal \/ PeerSeal
  <2>1. send_seq' \in 0 .. MaxSeq + 1 /\ peer_seq' \in 0 .. MaxSeq + 1
    BY <1>3, SessionAssumption DEF Seal, PeerSeal, Inv, TypeOK
  <2> QED
    BY <1>3, <2>1, QuietStep, Zenon DEF Seal, PeerSeal, Inv, TypeOK
<1>4. ASSUME NEW s \in Seqs, NEW genuine \in BOOLEAN, Open(s, genuine)
      PROVE  Inv'
  <2>1. CASE Refuse(s, "dead") \/ Refuse(s, "authfailed")
    BY <1>4, <2>1, RefuseStep, Zenon DEF Open
  <2>2. CASE CheckAndRecord(s)
    BY <1>4, <2>2, RecordStep, Zenon DEF Open
  <2> QED
    BY <1>4, <2>1, <2>2, Zenon DEF Open
<1>5. CASE \/ \E s \in 0 .. send_seq - 1 : Open(s, TRUE)
           \/ \E s \in 0 .. peer_seq - 1 : Open(s, TRUE)
  <2>1. 0 .. send_seq - 1 \subseteq Seqs /\ 0 .. peer_seq - 1 \subseteq Seqs
    BY SessionAssumption DEF Inv, TypeOK, Seqs
  <2>2. PICK s \in Seqs : Open(s, TRUE)
    BY <1>5, <2>1, Zenon
  <2> QED
    BY <1>4, <2>2, Zenon
<1>6. CASE \E s \in Seqs : Open(s, FALSE)
  BY <1>4, <1>6, Zenon
<1>7. CASE UNCHANGED vars
  BY <1>7, QuietStep, Zenon DEF vars, Inv, TypeOK
<1> QED
  BY <1>1, <1>2, <1>3, <1>5, <1>6, <1>7, Zenon DEF Next

\* The window remembers exactly the frames accepted within it, for every width.
THEOREM SessionWindowExact == Spec => []WindowExact
<1>1. Inv => WindowExact
  BY Zenon DEF Inv
<1> QED
  BY InitInv, NextInv, <1>1, PTL DEF Spec

\* No sequence number reaches the application twice, however the network repeats
\* the frames of either end.
THEOREM SessionAcceptedOnce == Spec => []AcceptedOnce
<1>1. Inv => AcceptedOnce
  BY Zenon DEF Inv
<1> QED
  BY InitInv, NextInv, <1>1, PTL DEF Spec

\* Only a number seen before, or a full window old, is refused as a replay.
THEOREM SessionRefusals == Spec => []RefusedOnlyIfSeenOrOld
<1>1. Inv => RefusedOnlyIfSeenOrOld
  BY Zenon DEF Inv
<1> QED
  BY InitInv, NextInv, <1>1, PTL DEF Spec

------------------------------------------------------------------------------
(***************************************************************************)
(* Connection: a challenge names the path it is about, so an echo proves    *)
(* that the peer was there, and completing a migration with it moves the    *)
(* connection nowhere else.                                                 *)
(***************************************************************************)

\* What an echo proves: each challenge carries its path, and each echoed one was
\* answered by the peer from the path it carries.
EchoesProve ==
    /\ \A c \in challenges : c.challenge[2] = c.path
    /\ \A e \in echoes : <<e[2], e[1]>> \in seen
    /\ pending # NoChallenge => pending.challenge[2] = pending.path

\* No challenge is out when a connection starts.
LEMMA EchoesProveInit == ConnInit => EchoesProve
  BY Zenon DEF ConnInit, EchoesProve

\* Every operation of the connection and every move of the peer keeps it.
LEMMA EchoesProveStep == EchoesProve /\ [ConnNext]_connVars => EchoesProve'
  <1>. SUFFICES ASSUME EchoesProve, [ConnNext]_connVars PROVE EchoesProve'
    BY Zenon
  <1>1. CASE Send
    BY <1>1, Zenon DEF Send, EchoesProve
  <1>2. ASSUME NEW p \in Paths, BeginMigration(p) PROVE EchoesProve'
    <2>1. pending'.path = p /\ pending'.challenge[2] = p
      BY <1>2, Zenon DEF BeginMigration, Challenge
    <2>2. challenges' = challenges \cup {pending'} /\ echoes' = echoes /\ seen' = seen
      BY <1>2, Zenon DEF BeginMigration
    <2>. QED BY <2>1, <2>2, Zenon DEF EchoesProve
  <1>3. ASSUME NEW e \in echoes, CompleteMigration(e) PROVE EchoesProve'
    BY <1>3, Zenon DEF CompleteMigration, EchoesProve
  <1>4. CASE Roam
    BY <1>4, Zenon DEF Roam, EchoesProve
  <1>5. ASSUME NEW c \in challenges, Echo(c) PROVE EchoesProve'
    <2>1. c.challenge[2] = c.path
      BY Zenon DEF EchoesProve
    <2>2. /\ echoes' = echoes \cup {c.challenge}
          /\ seen' = seen \cup {<<c.path, c.challenge[1]>>}
          /\ challenges' = challenges /\ pending' = pending
      BY <1>5, Zenon DEF Echo
    <2>. QED BY <2>1, <2>2, Zenon DEF EchoesProve
  <1>6. CASE UNCHANGED connVars
    BY <1>6, Zenon DEF connVars, EchoesProve
  <1>. QED BY <1>1, <1>2, <1>3, <1>4, <1>5, <1>6, Zenon DEF ConnNext

\* A connection moves only to a path the peer answered from, at the stream
\* position the validation began at, and never resets its stream
\* (complete_migration of transport.rs).
THEOREM ConnectionPathValidated == ConnSpec => PathValidated
  <1>. DEFINE Validated == path' # path =>
                   /\ <<path', pending.challenge[1]>> \in seen
                   /\ pending.path = path' /\ seq' = seq
  <1>1. EchoesProve /\ [ConnNext]_connVars => [Validated]_connVars
    <2>. SUFFICES ASSUME EchoesProve, ConnNext, path' # path PROVE Validated
      BY Zenon DEF connVars
    <2>1. PICK e \in echoes : CompleteMigration(e)
      BY Zenon DEF ConnNext, Send, BeginMigration, Roam, Echo
    <2>2. e = pending.challenge /\ path' = pending.path /\ pending # NoChallenge /\ seq' = seq
      BY <2>1, Zenon DEF CompleteMigration
    <2>. QED BY <2>2, Zenon DEF EchoesProve
  <1>. QED BY <1>1, EchoesProveInit, EchoesProveStep, PTL DEF ConnSpec, PathValidated

------------------------------------------------------------------------------
(***************************************************************************)
(* Publish and subscribe.  The log in memory is a suffix of the history, so *)
(* a position keeps its event when the log moves.                           *)
(***************************************************************************)
Event == [topic : Topics, object : Objects]

Subscriptions ==
    [topic : Topics, node : Nodes, face : Nat,
     delivery : {o.delivery : o \in SubOptions}, schema : {o.schema : o \in SubOptions},
     ttl : {o.ttl : o \in SubOptions},
     cursor : Nat, seen : SUBSET Objects, lagged : BOOLEAN,
     from : Nat, got : Seq(Nat), told : Nat]

\* The log in memory is what compaction left of the history.
LogIsSuffix ==
    /\ events \in Seq(Event) /\ history \in Seq(Event)
    /\ Len(events) <= Len(history)
    /\ \A k \in 1 .. Len(events) : events[k] = history[Dropped + k]

\* The cursor is within the log, past where the subscription began, and past all
\* that was delivered and all that was reported lost.
CursorInLog(s) ==
    /\ s.cursor <= Len(events)
    /\ s.from <= Dropped + s.cursor
    /\ s.told <= Dropped
    /\ \A n \in 1 .. Len(s.got) : s.got[n] <= Dropped + s.cursor

\* InOrderOnce of one subscription.
DeliversInOrder(s) ==
    /\ \A n \in 1 .. Len(s.got) : s.got[n] \in Asked(s)
    /\ \A m, n \in 1 .. Len(s.got) : m < n => s.got[m] < s.got[n]

\* The object of the n-th event a subscription got.
GotObject(s, n) == history[s.got[n]].object

\* An ExactlyOnce subscription has seen the objects it got, and got each of them once.
SeenIsGot(s) ==
    s.delivery = "ExactlyOnce" =>
        /\ \A n \in 1 .. Len(s.got) : GotObject(s, n) \in s.seen
        /\ \A o \in s.seen : \E n \in 1 .. Len(s.got) : GotObject(s, n) = o
        /\ \A m, n \in 1 .. Len(s.got) : m < n => GotObject(s, m) # GotObject(s, n)

\* What became of an event a subscription asked for, by now.
Served(s, g) ==
    \E n \in 1 .. Len(s.got) :
        \/ s.got[n] = g
        \/ s.delivery = "ExactlyOnce" /\ GotObject(s, n) = history[g].object

Accounted(s) ==
    s.delivery # "AtMostOnce" =>
        \A g \in Asked(s) :
            \/ g > Dropped + s.cursor
            \/ Served(s, g)
            \/ g <= Dropped /\ s.lagged
            \/ g <= s.told

SubInv(s) ==
    s \in Subscriptions /\ CursorInLog(s) /\ DeliversInOrder(s) /\ SeenIsGot(s) /\ Accounted(s)

PlaneInv ==
    /\ LogIsSuffix
    /\ subs \in Seq(Subscriptions)
    /\ \A i \in 1 .. Len(subs) : SubInv(subs[i])

\* The plane starts with an empty log and no subscription.
LEMMA PlaneInvInit == PlaneInit => PlaneInv
  BY DEF PlaneInit, PlaneInv, LogIsSuffix

\* A position of the history at or past the cut is one of the log.
LEMMA CutCursor ==
    \A cur, len, hist, drop \in Nat : drop = hist - len /\ drop + cur <= hist => cur <= len
  OBVIOUS

\* Two places past a prefix of length l, counted from its end.
LEMMA PastPrefix ==
    \A l, n \in Nat : \A a, b \in l + 1 .. l + n :
        a - l \in 1 .. n /\ b - l \in 1 .. n /\ (a < b => a - l < b - l)
  OBVIOUS

\* An event ahead of a cursor in the log is one of the history, after where the
\* subscription began.
LEMMA AheadOfCursor ==
    \A from, drop, cur, len, hist \in Nat : \A k \in cur + 1 .. len :
        drop + len = hist /\ from <= drop + cur
        => drop + k \in from + 1 .. hist /\ k \in 1 .. len /\ k \in Nat
  OBVIOUS

\* The log and its history only grow by one event: positions keep their meaning.
LEMMA SubInvShift ==
    ASSUME LogIsSuffix, LogIsSuffix', NEW s, SubInv(s), Len(history') = Len(history) + 1,
           \A g \in 1 .. Len(history) : history'[g] = history[g],
           NEW d \in Nat, Dropped' = Dropped + d,
           NEW t \in Subscriptions,
           t.topic = s.topic, t.delivery = s.delivery, t.schema = s.schema,
           t.from = s.from, t.got = s.got, t.seen = s.seen, t.told = s.told,
           t.cursor = (IF s.cursor > d THEN s.cursor - d ELSE 0),
           t.lagged <=> s.lagged \/ (s.cursor < d /\ s.delivery # "AtMostOnce")
    PROVE  SubInv(t)'
<1>0. /\ s.cursor \in Nat /\ s.from \in Nat /\ s.told \in Nat /\ s.got \in Seq(Nat)
      /\ s \in Subscriptions /\ t.cursor \in Nat
  BY Zenon DEF SubInv, Subscriptions
<1>1. /\ Len(events) \in Nat /\ Len(history) \in Nat /\ Len(events') \in Nat
      /\ Len(history') = Len(history) + 1
      /\ Dropped \in Nat /\ Dropped' \in Nat
      /\ \A g \in 1 .. Len(history) : history'[g] = history[g]
  BY DEF LogIsSuffix, Dropped
<1>2. /\ Dropped + s.cursor <= Dropped' + t.cursor
      /\ Dropped' + t.cursor <= Len(history')
      /\ t.cursor <= Len(events')
  <2>1. /\ s.cursor <= Len(events)
        /\ Dropped = Len(history) - Len(events) /\ Dropped' = Len(history') - Len(events')
    BY Zenon DEF SubInv, CursorInLog, Dropped
  <2>2. Dropped + s.cursor <= Len(history) /\ Len(history') \in Nat
    BY <1>0, <1>1, <2>1
  <2>3. CASE s.cursor > d
    <3>1. t.cursor = s.cursor - d
      BY <2>3, Zenon
    <3>2. Dropped' + t.cursor = Dropped + s.cursor
      BY <1>0, <1>1, <3>1
    <3>3. Dropped' + t.cursor <= Len(history')
      BY <1>0, <1>1, <2>2, <3>2
    <3>4. t.cursor <= Len(events')
      BY <1>0, <1>1, <2>1, <2>2, <3>3, CutCursor, Zenon
    <3>. QED BY <1>0, <1>1, <3>2, <3>3, <3>4
  <2>4. CASE ~(s.cursor > d)
    <3>1. t.cursor = 0 /\ s.cursor <= d
      BY <1>0, <2>4
    <3>2. Dropped + s.cursor <= Dropped' /\ Dropped' + t.cursor = Dropped'
      BY <1>0, <1>1, <3>1
    <3>3. Dropped' <= Len(history')
      BY <1>1, <2>1, <2>2
    <3>4. t.cursor <= Len(events')
      BY <1>1, <3>1
    <3>. QED BY <3>2, <3>3, <3>4, Zenon
  <2>. QED BY <2>3, <2>4, Zenon
<1>3. \A g : Asks(t, g) <=> Asks(s, g)
  BY Zenon DEF Asks
<1>4. /\ \A g \in Asked(s) : g \in Asked(t)' /\ g \in 1 .. Len(history)
      /\ \A g \in Asked(t)' : g \in Asked(s) \/ g = Len(history')
  BY <1>0, <1>1, <1>3 DEF Asked
<1>5. CursorInLog(t)'
  <2>1. /\ s.from <= Dropped + s.cursor /\ s.told <= Dropped
        /\ \A n \in 1 .. Len(s.got) : s.got[n] <= Dropped + s.cursor /\ s.got[n] \in Nat
    BY <1>0, SMTT(30) DEF SubInv, CursorInLog
  <2>2. \A n \in 1 .. Len(s.got) : s.got[n] <= Dropped' + t.cursor
    <3>1. \A x \in Nat : x <= Dropped + s.cursor => x <= Dropped' + t.cursor
      BY <1>0, <1>1, <1>2
    <3>. QED BY <2>1, <3>1, Zenon
  <2>3. s.from <= Dropped' + t.cursor /\ s.told <= Dropped'
    BY <1>0, <1>1, <1>2, <2>1, SMTT(30)
  <2>. QED BY <1>2, <2>2, <2>3, Zenon DEF CursorInLog
<1>6. DeliversInOrder(t)'
  BY <1>0, <1>1, <1>4, SMTT(30) DEF SubInv, DeliversInOrder
<1>7. \A n \in 1 .. Len(s.got) : GotObject(t, n)' = GotObject(s, n)
  BY <1>1, <1>4 DEF SubInv, DeliversInOrder, GotObject
<1>8. SeenIsGot(t)'
  BY <1>7 DEF SubInv, SeenIsGot
<1>9. Accounted(t)'
  <2>1. SUFFICES ASSUME t.delivery # "AtMostOnce", NEW g \in Asked(t)'
                 PROVE  \/ g > Dropped' + t.cursor
                        \/ Served(t, g)'
                        \/ g <= Dropped' /\ t.lagged
                        \/ g <= t.told
    BY Zenon DEF Accounted
  <2>2. CASE g = Len(history')
    BY <1>0, <1>1, <1>2, <2>1, <2>2, SMTT(30) DEF SubInv, CursorInLog, Dropped
  <2>3. CASE g \in Asked(s)
    <3>1. \/ g > Dropped + s.cursor
          \/ Served(s, g)
          \/ g <= Dropped /\ s.lagged
          \/ g <= s.told
      BY <2>1, <2>3, Zenon DEF SubInv, Accounted
    <3>2. g \in Nat /\ history'[g] = history[g]
      BY <1>1, <1>4, <2>3
    <3>3. CASE Served(s, g)
      BY <1>7, <3>2, <3>3 DEF Served
    <3>4. CASE g > Dropped + s.cursor
      BY <1>0, <1>1, <3>2, <3>4, <2>1
    <3>5. CASE g <= Dropped /\ s.lagged
      BY <1>1, <3>2, <3>5
    <3>. QED BY <3>1, <3>3, <3>4, <3>5, Zenon
  <2>. QED BY <1>4, <2>2, <2>3, Zenon
<1>. QED BY <1>5, <1>6, <1>8, <1>9, Zenon DEF SubInv

\* A nonempty set of naturals has a least element.
LEMMA LeastNatural ==
    ASSUME NEW T \in SUBSET Nat, T # {}
    PROVE  \E x \in T : \A y \in T : x <= y
<1>1. PICK x \in T : \A y \in T : ~(<<y, x>> \in OpToRel(<, Nat))
  BY WFMin, NatLessThanWellFounded, Zenon
<1>2. \A y \in T : ~(y < x)
  BY <1>1, Zenon DEF OpToRel
<1>. QED BY <1>2

\* The elements of a concatenation.
LEMMA ConcatIndex ==
    ASSUME NEW S, NEW p \in Seq(S), NEW q \in Seq(S)
    PROVE  /\ Len(p \o q) = Len(p) + Len(q)
           /\ \A n \in 1 .. Len(p) + Len(q) :
                 (p \o q)[n] = IF n <= Len(p) THEN p[n] ELSE q[n - Len(p)]
  OBVIOUS

\* What a step that leaves the log alone does not touch stays sound.
LEMMA SubInvKept ==
    ASSUME NEW s, SubInv(s), UNCHANGED <<events, history>>
    PROVE  SubInv(s)'
  BY DEF SubInv, CursorInLog, DeliversInOrder, SeenIsGot, Accounted, Served, GotObject,
         Asked, Dropped

\* A poll that delivers `out` keeps the invariant of its subscription.
LEMMA SubInvCaught ==
    ASSUME LogIsSuffix, NEW s, SubInv(s), NEW out \in Ascending(Delivered(s)),
           NEW t, t = Caught(s, out)
    PROVE  SubInv(t)
<1>. DEFINE N == Len(out)
            L == Len(s.got)
            add == [n \in DOMAIN out |-> Dropped + out[n]]
<1>. HIDE DEF N, L, add
<1>0. /\ s \in Subscriptions /\ s.cursor \in Nat /\ s.from \in Nat /\ s.told \in Nat
      /\ s.got \in Seq(Nat) /\ s.seen \in SUBSET Objects /\ L \in Nat
      /\ s.lagged \in BOOLEAN
  <2>1. s \in Subscriptions
    BY Zenon DEF SubInv
  <2>. QED BY <2>1 DEF Subscriptions, L
<1>1. /\ Len(events) \in Nat /\ Len(history) \in Nat /\ Dropped \in Nat
      /\ Dropped + Len(events) = Len(history)
      /\ \A k \in 1 .. Len(events) : events[k] = history[Dropped + k] /\ events[k].object \in Objects
  <2>1. Len(events) \in Nat /\ Len(history) \in Nat /\ Len(events) <= Len(history)
    BY DEF LogIsSuffix
  <2>2. \A k \in 1 .. Len(events) : events[k] \in Event
    BY DEF LogIsSuffix
  <2>. QED BY <2>1, <2>2 DEF LogIsSuffix, Dropped, Event
<1>2. /\ Delivered(s) \subseteq Wanted(s)
      /\ Wanted(s) \in SUBSET (s.cursor + 1 .. Len(events))
  BY Zenon DEF Delivered, Wanted
<1>3. Delivered(s) \in SUBSET Nat
  BY <1>0, <1>1, <1>2
<1>4. /\ N \in Nat /\ out \in [1 .. N -> Delivered(s)] /\ DOMAIN out = 1 .. N
      /\ \A m, n \in 1 .. N : m < n => out[m] < out[n]
      /\ \A k \in Delivered(s) : \E n \in 1 .. N : out[n] = k
  <2>1. PICK l \in 0 .. Len(events) : out \in [1 .. l -> Delivered(s)]
    BY Zenon DEF Ascending
  <2>2. l \in Nat /\ N = l /\ DOMAIN out = 1 .. l
    BY <1>1, <2>1 DEF N
  <2>. QED BY <2>1, <2>2, Zenon DEF Ascending
<1>5. add \in [1 .. N -> Nat] /\ \A n \in 1 .. N : add[n] = Dropped + out[n]
  BY <1>1, <1>3, <1>4 DEF add
<1>6. add \in Seq(Nat) /\ Len(add) = N
  BY <1>4, <1>5
<1>7. /\ t \in Subscriptions
      /\ t.topic = s.topic /\ t.delivery = s.delivery /\ t.schema = s.schema
      /\ t.from = s.from /\ t.told = s.told /\ t.cursor = Len(events)
      /\ t.got = s.got \o add
      /\ t.lagged = s.lagged
  <2>1. s.got \o add \in Seq(Nat)
    BY <1>0, <1>6
  <2>2. {events[k].object : k \in Delivered(s)} \in SUBSET Objects
    BY <1>0, <1>1, <1>2
  <2>. QED BY <1>0, <1>1, <2>1, <2>2, Zenon DEF Caught, Subscriptions, add
<1>8. t.seen = IF s.delivery = "ExactlyOnce"
               THEN s.seen \cup {events[k].object : k \in Delivered(s)} ELSE s.seen
  BY <1>0, Zenon DEF Caught, Subscriptions
<1>9. /\ Len(t.got) = L + N
      /\ \A n \in 1 .. L : t.got[n] = s.got[n]
      /\ \A n \in L + 1 .. L + N : t.got[n] = Dropped + out[n - L]
  <2>1. /\ Len(t.got) = L + N
        /\ \A n \in 1 .. L + N : t.got[n] = IF n <= L THEN s.got[n] ELSE add[n - L]
    <3>1. /\ Len(s.got \o add) = Len(s.got) + Len(add)
          /\ \A n \in 1 .. Len(s.got) + Len(add) :
                (s.got \o add)[n] = IF n <= Len(s.got) THEN s.got[n] ELSE add[n - Len(s.got)]
      BY <1>0, <1>6, ConcatIndex, Zenon
    <3>. QED BY <1>6, <1>7, <3>1, Zenon DEF L
  <2>2. /\ \A n \in 1 .. L : n \in 1 .. L + N /\ n <= L
        /\ \A n \in L + 1 .. L + N : n \in 1 .. L + N /\ ~(n <= L) /\ n - L \in 1 .. N
    BY <1>0, <1>4
  <2>. QED BY <1>5, <2>1, <2>2, Zenon
<1>10. ASSUME NEW k \in Wanted(s)
       PROVE  /\ k \in s.cursor + 1 .. Len(events) /\ Dropped + k \in Asked(s)
              /\ history[Dropped + k] = events[k] /\ k \in Nat
  <2>1. k \in s.cursor + 1 .. Len(events) /\ Asks(s, events[k])
    BY Zenon DEF Wanted
  <2>2. s.from <= Dropped + s.cursor
    BY Zenon DEF SubInv, CursorInLog
  <2>3. Dropped + k \in s.from + 1 .. Len(history) /\ k \in 1 .. Len(events) /\ k \in Nat
    BY <1>0, <1>1, <2>1, <2>2, AheadOfCursor, Zenon
  <2>4. history[Dropped + k] = events[k]
    BY <1>1, <2>3, Zenon
  <2>. QED BY <2>1, <2>3, <2>4, Zenon DEF Asked
<1>11. Asked(t) = Asked(s)
  BY <1>7, Zenon DEF Asked, Asks
<1>12. ASSUME NEW n \in L + 1 .. L + N
       PROVE  /\ n - L \in 1 .. N /\ out[n - L] \in Delivered(s) /\ out[n - L] \in Wanted(s)
              /\ t.got[n] = Dropped + out[n - L]
              /\ GotObject(t, n) = events[out[n - L]].object
  <2>1. n - L \in 1 .. N
    BY <1>0, <1>4
  <2>2. out[n - L] \in Delivered(s) /\ out[n - L] \in Wanted(s)
    BY <1>2, <1>4, <2>1, Zenon
  <2>3. t.got[n] = Dropped + out[n - L]
    BY <1>9, Zenon
  <2>. QED BY <1>10, <2>1, <2>2, <2>3, Zenon DEF GotObject
<1>13. \A n \in 1 .. L : t.got[n] = s.got[n] /\ GotObject(t, n) = GotObject(s, n)
  BY <1>9, Zenon DEF GotObject
<1>14. \A n \in 1 .. L + N : n \in 1 .. L \/ n \in L + 1 .. L + N
  BY <1>0, <1>4
<1>15. DeliversInOrder(t)
  <2>1. ASSUME NEW n \in 1 .. L + N PROVE t.got[n] \in Asked(t)
    <3>1. CASE n \in 1 .. L
      BY <1>11, <1>13, <3>1, Zenon DEF SubInv, DeliversInOrder, L
    <3>2. CASE n \in L + 1 .. L + N
      BY <1>10, <1>11, <1>12, <3>2, Zenon
    <3>. QED BY <1>14, <3>1, <3>2, Zenon
  <2>2. ASSUME NEW m \in 1 .. L + N, NEW n \in 1 .. L + N, m < n
        PROVE  t.got[m] < t.got[n]
    <3>1. CASE n \in 1 .. L
      <4>1. m \in 1 .. L
        BY <1>0, <1>4, <2>2, <3>1
      <4>. QED BY <1>13, <2>2, <3>1, <4>1, Zenon DEF SubInv, DeliversInOrder, L
    <3>2. CASE m \in 1 .. L /\ n \in L + 1 .. L + N
      <4>1. s.got[m] \in Nat /\ s.got[m] <= Dropped + s.cursor
        BY <1>0, <3>2 DEF SubInv, CursorInLog, L
      <4>2. out[n - L] > s.cursor /\ out[n - L] \in Nat /\ t.got[n] = Dropped + out[n - L]
        <5>1. out[n - L] \in s.cursor + 1 .. Len(events)
          BY <1>10, <1>12, <3>2, Zenon
        <5>2. \A x \in s.cursor + 1 .. Len(events) : x > s.cursor /\ x \in Nat
          BY <1>0, <1>1
        <5>. QED BY <1>12, <3>2, <5>1, <5>2, Zenon
      <4>3. t.got[m] = s.got[m]
        BY <1>13, <3>2, Zenon
      <4>4. \A x, y \in Nat : x <= Dropped + s.cursor /\ y > s.cursor => x < Dropped + y
        BY <1>0, <1>1
      <4>. QED BY <4>1, <4>2, <4>3, <4>4, Zenon
    <3>3. CASE m \in L + 1 .. L + N /\ n \in L + 1 .. L + N
      <4>1. m - L \in 1 .. N /\ n - L \in 1 .. N /\ m - L < n - L
        BY <1>0, <1>4, <2>2, <3>3
      <4>2. out[m - L] < out[n - L] /\ out[m - L] \in Nat /\ out[n - L] \in Nat
        BY <1>3, <1>4, <4>1, Zenon
      <4>3. \A x, y \in Nat : x < y => Dropped + x < Dropped + y
        BY <1>1
      <4>. QED BY <1>9, <3>3, <4>2, <4>3, Zenon
    <3>. QED BY <1>0, <1>4, <1>14, <2>2, <3>1, <3>2, <3>3, Zenon
  <2>. QED BY <1>9, <2>1, <2>2, Zenon DEF DeliversInOrder
<1>16. CursorInLog(t)
  <2>1. \A n \in 1 .. Len(t.got) : t.got[n] <= Dropped + t.cursor
    <3>1. \A g \in Asked(t) : g <= Len(history)
      BY <1>0, <1>1, <1>7 DEF Asked
    <3>. QED BY <1>1, <1>7, <1>15, <3>1, Zenon DEF DeliversInOrder
  <2>2. s.from <= Dropped + s.cursor /\ s.told <= Dropped /\ s.cursor <= Len(events)
    BY Zenon DEF SubInv, CursorInLog
  <2>3. s.from <= Dropped + Len(events)
    BY <1>0, <1>1, <2>2
  <2>. QED BY <1>1, <1>7, <2>1, <2>2, <2>3 DEF CursorInLog
<1>17. SeenIsGot(t)
  <2>. SUFFICES ASSUME s.delivery = "ExactlyOnce" PROVE SeenIsGot(t)
    BY <1>7, Zenon DEF SeenIsGot
  <2>1. /\ \A n \in 1 .. L : GotObject(s, n) \in s.seen
        /\ \A o \in s.seen : \E n \in 1 .. L : GotObject(s, n) = o
        /\ \A m, n \in 1 .. L : m < n => GotObject(s, m) # GotObject(s, n)
    BY Zenon DEF SubInv, SeenIsGot, L
  <2>2. t.seen = s.seen \cup {events[k].object : k \in Delivered(s)}
    BY <1>8, Zenon
  <2>3. ASSUME NEW k \in Delivered(s)
        PROVE  /\ events[k].object \notin s.seen
               /\ \A j \in Delivered(s) : j < k => events[j].object # events[k].object
    BY <1>2, Zenon DEF Delivered
  <2>4. ASSUME NEW n \in 1 .. L + N PROVE GotObject(t, n) \in t.seen
    <3>1. CASE n \in 1 .. L
      BY <1>13, <2>1, <2>2, <3>1, Zenon
    <3>2. CASE n \in L + 1 .. L + N
      BY <1>12, <2>2, <3>2, Zenon
    <3>. QED BY <1>14, <3>1, <3>2, Zenon
  <2>5. ASSUME NEW o \in t.seen PROVE \E n \in 1 .. L + N : GotObject(t, n) = o
    <3>1. CASE o \in s.seen
      <4>1. PICK n \in 1 .. L : GotObject(s, n) = o
        BY <2>1, <3>1, Zenon
      <4>2. n \in 1 .. L + N
        BY <1>0, <1>4
      <4>. QED BY <1>13, <4>1, <4>2, Zenon
    <3>2. ASSUME NEW k \in Delivered(s), o = events[k].object
          PROVE  \E n \in 1 .. L + N : GotObject(t, n) = o
      <4>1. PICK n \in 1 .. N : out[n] = k
        BY <1>4, Zenon
      <4>2. L + n \in L + 1 .. L + N /\ L + n \in 1 .. L + N /\ (L + n) - L = n
        BY <1>0, <1>4
      <4>3. GotObject(t, L + n) = events[out[(L + n) - L]].object
        BY <1>12, <4>2, Zenon
      <4>. QED BY <3>2, <4>1, <4>2, <4>3, Zenon
    <3>. QED BY <2>2, <3>1, <3>2, Zenon
  <2>6. ASSUME NEW m \in 1 .. L + N, NEW n \in 1 .. L + N, m < n
        PROVE  GotObject(t, m) # GotObject(t, n)
    <3>1. CASE n \in 1 .. L
      <4>1. m \in 1 .. L
        BY <1>0, <1>4, <2>6, <3>1
      <4>. QED BY <1>13, <2>1, <2>6, <3>1, <4>1
    <3>2. CASE m \in 1 .. L /\ n \in L + 1 .. L + N
      <4>1. GotObject(t, m) \in s.seen
        BY <1>13, <2>1, <3>2, Zenon
      <4>2. GotObject(t, n) \notin s.seen
        BY <1>12, <2>3, <3>2
      <4>. QED BY <4>1, <4>2, Zenon
    <3>3. CASE m \in L + 1 .. L + N /\ n \in L + 1 .. L + N
      <4>1. m - L \in 1 .. N /\ n - L \in 1 .. N /\ m - L < n - L
        BY <1>0, <1>4, <2>6, <3>3, PastPrefix, Zenon
      <4>2. out[m - L] < out[n - L] /\ out[m - L] \in Delivered(s) /\ out[n - L] \in Delivered(s)
        BY <1>4, <4>1, Zenon
      <4>. QED BY <1>12, <2>3, <3>3, <4>2
    <3>. QED BY <1>0, <1>4, <1>14, <2>6, <3>1, <3>2, <3>3, Zenon
  <2>. QED BY <1>9, <2>4, <2>5, <2>6 DEF SeenIsGot
<1>18. Accounted(t)
  <2>1. SUFFICES ASSUME s.delivery # "AtMostOnce", NEW g \in Asked(s)
                 PROVE  \/ Served(t, g)
                        \/ g <= Dropped /\ t.lagged
                        \/ g <= t.told
    BY <1>7, <1>11, Zenon DEF Accounted
  <2>2. \/ g > Dropped + s.cursor
        \/ Served(s, g)
        \/ g <= Dropped /\ s.lagged
        \/ g <= s.told
    BY <2>1, Zenon DEF SubInv, Accounted
  <2>3. ASSUME NEW n \in 1 .. L PROVE n \in 1 .. L + N
    BY <1>0, <1>4
  <2>4. CASE Served(s, g)
    <3>1. PICK n \in 1 .. L : \/ s.got[n] = g
                              \/ s.delivery = "ExactlyOnce" /\ GotObject(s, n) = history[g].object
      BY <2>4, Zenon DEF Served, L
    <3>. QED BY <1>7, <1>9, <1>13, <2>3, <3>1, Zenon DEF Served
  <2>5. CASE g > Dropped + s.cursor
    <3>. DEFINE k == g - Dropped
    <3>1. /\ k \in s.cursor + 1 .. Len(events) /\ g = Dropped + k
          /\ history[g] = events[k] /\ Asks(s, events[k])
      <4>1. g \in s.from + 1 .. Len(history) /\ Asks(s, history[g])
        BY Zenon DEF Asked
      <4>2. k \in s.cursor + 1 .. Len(events) /\ k \in 1 .. Len(events) /\ g = Dropped + k
        BY <1>0, <1>1, <2>5, <4>1
      <4>. QED BY <1>1, <4>1, <4>2, Zenon
    <3>2. k \in Wanted(s)
      BY <3>1, Zenon DEF Wanted
    <3>3. ASSUME NEW j \in Delivered(s) PROVE \E n \in 1 .. Len(t.got) :
              t.got[n] = Dropped + j /\ GotObject(t, n) = events[j].object
      <4>1. PICK n \in 1 .. N : out[n] = j
        BY <1>4, Zenon
      <4>2. L + n \in L + 1 .. L + N /\ L + n \in 1 .. L + N /\ (L + n) - L = n
        BY <1>0, <1>4
      <4>3. t.got[L + n] = Dropped + j /\ GotObject(t, L + n) = events[j].object
        BY <1>12, <4>1, <4>2, Zenon
      <4>. QED BY <1>9, <4>2, <4>3, Zenon
    <3>4. CASE k \in Delivered(s)
      BY <3>1, <3>3, <3>4, Zenon DEF Served
    <3>5. CASE k \notin Delivered(s)
      <4>1. s.delivery = "ExactlyOnce" /\ t.delivery = "ExactlyOnce"
        BY <1>7, <3>2, <3>5, Zenon DEF Delivered
      <4>2. CASE events[k].object \in s.seen
        <5>1. PICK n \in 1 .. L : GotObject(s, n) = events[k].object
          BY <4>1, <4>2, Zenon DEF SubInv, SeenIsGot, L
        <5>. QED BY <1>9, <1>13, <2>3, <3>1, <4>1, <5>1, Zenon DEF Served
      <4>3. CASE events[k].object \notin s.seen
        <5>. DEFINE Same == {j \in Wanted(s) : events[j].object = events[k].object}
        <5>1. Same \in SUBSET Nat /\ Same # {}
          BY <1>10, <3>2, Zenon
        <5>2. PICK j \in Same : \A i \in Same : j <= i
          BY <5>1, LeastNatural, Zenon
        <5>3. \A i \in Wanted(s) : i < j => events[i].object # events[j].object
          BY <1>10, <5>2
        <5>4. j \in Delivered(s)
          BY <4>1, <4>3, <5>2, <5>3, Zenon DEF Delivered
        <5>. QED BY <3>1, <3>3, <4>1, <5>2, <5>4 DEF Served
      <4>. QED BY <4>2, <4>3, Zenon
    <3>. QED BY <3>4, <3>5, Zenon
  <2>. QED BY <1>7, <2>2, <2>4, <2>5, Zenon
<1>. QED BY <1>7, <1>15, <1>16, <1>17, <1>18, Zenon DEF SubInv

\* A poll that reports the gap keeps it: what was drained is what the subscriber
\* now knows of.
LEMMA SubInvTold ==
    ASSUME LogIsSuffix, NEW s, SubInv(s),
           NEW t, t = [s EXCEPT !.lagged = FALSE, !.told = Dropped]
    PROVE  SubInv(t)
<1>1. Dropped \in Nat /\ s \in Subscriptions /\ s.told \in Nat
  BY DEF LogIsSuffix, Dropped, SubInv, Subscriptions
<1>2. /\ t \in Subscriptions
      /\ t.topic = s.topic /\ t.delivery = s.delivery /\ t.schema = s.schema
      /\ t.from = s.from /\ t.cursor = s.cursor /\ t.got = s.got /\ t.seen = s.seen
      /\ t.told = Dropped
  BY <1>1, Zenon DEF Subscriptions
<1>3. Asked(t) = Asked(s)
  BY <1>2, Zenon DEF Asked, Asks
<1>4. CursorInLog(t) /\ DeliversInOrder(t)
  BY <1>1, <1>2, <1>3 DEF SubInv, CursorInLog, DeliversInOrder
<1>5. SeenIsGot(t)
  BY <1>2 DEF SubInv, SeenIsGot, GotObject
<1>6. Accounted(t)
  <2>1. SUFFICES ASSUME s.delivery # "AtMostOnce", NEW g \in Asked(s)
                 PROVE  g > Dropped + t.cursor \/ Served(t, g) \/ g <= t.told
    BY <1>2, <1>3, Zenon DEF Accounted
  <2>2. \/ g > Dropped + s.cursor
        \/ Served(s, g)
        \/ g <= Dropped
        \/ g <= s.told
    BY <2>1, Zenon DEF SubInv, Accounted
  <2>3. CASE Served(s, g)
    BY <1>2, <2>3 DEF Served, GotObject
  <2>4. g \in Int /\ s.told <= Dropped
    BY DEF SubInv, CursorInLog, Asked
  <2>. QED BY <1>1, <1>2, <2>2, <2>3, <2>4
<1>. QED BY <1>2, <1>4, <1>5, <1>6, Zenon DEF SubInv

\* A subscription starts within the log, with nothing delivered and nothing owed.
LEMMA SubInvNew ==
    ASSUME LogIsSuffix, NEW cap \in Caps, NEW opts \in SubOptions, NEW face \in Nat,
           NEW start \in 0 .. Len(events),
           NEW t, t = Subscription(cap, face, opts, start)
    PROVE  SubInv(t)
<1>1. Len(events) \in Nat /\ Len(history) \in Nat /\ Dropped \in Nat
  BY DEF LogIsSuffix, Dropped
<1>2. start \in Nat /\ start <= Len(events)
  BY <1>1
<1>3. /\ t.cursor = start /\ t.from = Dropped + start
      /\ t.got = <<>> /\ t.seen = {} /\ t.told = 0
  BY Zenon DEF Subscription
<1>4. t \in Subscriptions
  <2>1. Dropped + start \in Nat
    BY <1>1, <1>2
  <2>2. cap.topic \in Topics /\ cap.node \in Nodes
    BY Zenon DEF Topics, Nodes
  <2>. QED BY <1>2, <2>1, <2>2 DEF Subscriptions, Subscription
<1>5. CursorInLog(t) /\ DeliversInOrder(t) /\ SeenIsGot(t)
  BY <1>1, <1>2, <1>3 DEF CursorInLog, DeliversInOrder, SeenIsGot
<1>6. Accounted(t)
  BY <1>1, <1>2, <1>3 DEF Accounted, Asked
<1>. QED BY <1>4, <1>5, <1>6, Zenon DEF SubInv

\* What compaction does to a subscription.
LEMMA RebaseFields ==
    ASSUME NEW s \in Subscriptions, NEW d \in Nat, NEW t, t = Rebase(s, d)
    PROVE  /\ t \in Subscriptions
           /\ t.topic = s.topic /\ t.delivery = s.delivery /\ t.schema = s.schema
           /\ t.from = s.from /\ t.got = s.got /\ t.seen = s.seen /\ t.told = s.told
           /\ t.cursor = (IF s.cursor > d THEN s.cursor - d ELSE 0)
           /\ t.lagged = (s.lagged \/ (s.cursor < d /\ s.delivery # "AtMostOnce"))
<1>1. s.cursor \in Nat /\ s.lagged \in BOOLEAN
  BY Zenon DEF Subscriptions
<1>2. (IF s.cursor > d THEN s.cursor - d ELSE 0) \in Nat
  BY <1>1
<1>. QED BY <1>1, <1>2, Zenon DEF Rebase, Subscriptions

\* Publishing keeps every subscription, with or without compaction.
LEMMA PlaneInvPublish ==
    ASSUME PlaneInv, NEW cap \in Caps, NEW object \in Objects, Publish(cap, object)
    PROVE  PlaneInv'
<1>. DEFINE e == [topic |-> cap.topic, object |-> object]
            pushed == Append(events, e)
            keep == Len(pushed) - MAX_EVENT_LOG \div 2
<1>. HIDE DEF e, pushed, keep
<1>0. /\ events \in Seq(Event) /\ history \in Seq(Event) /\ e \in Event
      /\ Len(events) \in Nat /\ Len(history) \in Nat /\ Len(events) <= Len(history)
      /\ \A k \in 1 .. Len(events) : events[k] = history[Dropped + k]
  BY DEF PlaneInv, LogIsSuffix, Event, Topics, e
<1>1. /\ pushed \in Seq(Event) /\ Len(pushed) = Len(events) + 1
      /\ \A k \in 1 .. Len(events) : pushed[k] = events[k]
      /\ pushed[Len(events) + 1] = e
  BY <1>0 DEF pushed
<1>2. /\ history' \in Seq(Event) /\ Len(history') = Len(history) + 1
      /\ history' = Append(history, e)
      /\ \A g \in 1 .. Len(history) : history'[g] = history[g]
      /\ history'[Len(history) + 1] = e
  BY <1>0 DEF Publish, e
<1>3. \A k \in 1 .. Len(pushed) : pushed[k] = history'[Dropped + k]
  <2>1. SUFFICES ASSUME NEW k \in 1 .. Len(pushed) PROVE pushed[k] = history'[Dropped + k]
    BY Zenon
  <2>2. CASE k = Len(events) + 1
    <3>1. Dropped + k = Len(history) + 1
      BY <1>0, <2>2 DEF Dropped
    <3>. QED BY <1>1, <1>2, <2>2, <3>1, Zenon
  <2>3. CASE k \in 1 .. Len(events)
    <3>1. Dropped + k \in 1 .. Len(history)
      BY <1>0, <2>3 DEF Dropped
    <3>. QED BY <1>0, <1>1, <1>2, <2>3, <3>1, Zenon
  <2>. QED BY <1>0, <1>1, <2>2, <2>3
<1>4. /\ subs \in Seq(Subscriptions) /\ DOMAIN subs = 1 .. Len(subs) /\ Len(subs) \in Nat
      /\ \A i \in 1 .. Len(subs) : SubInv(subs[i]) /\ subs[i] \in Subscriptions
  BY DEF PlaneInv
<1>5. CASE Len(pushed) > MAX_EVENT_LOG
  <2>0. keep \in Nat /\ keep <= Len(pushed)
    BY <1>0, <1>1, <1>5, ReactiveAssumption DEF keep
  <2>1. events' = SubSeq(pushed, keep + 1, Len(pushed))
    BY <1>5, Zenon DEF Publish, pushed, keep, e
  <2>2. /\ events' \in Seq(Event) /\ Len(events') = Len(pushed) - keep
        /\ \A k \in 1 .. Len(pushed) - keep : events'[k] = pushed[keep + k]
    <3>1. keep + 1 \in 1 .. Len(pushed) + 1 /\ Len(pushed) \in Nat
      BY <1>0, <1>1, <2>0
    <3>2. /\ SubSeq(pushed, keep + 1, Len(pushed)) \in Seq(Event)
          /\ Len(SubSeq(pushed, keep + 1, Len(pushed))) = Len(pushed) - keep
      BY <1>1, <2>0, <3>1
    <3>3. \A k \in 1 .. Len(pushed) - keep :
              SubSeq(pushed, keep + 1, Len(pushed))[k] = pushed[keep + k]
      BY <1>1, <2>0, <3>1
    <3>. QED BY <2>1, <3>2, <3>3, Zenon
  <2>3. Dropped' = Dropped + keep
    BY <1>0, <1>1, <1>2, <2>0, <2>2 DEF Dropped
  <2>4. LogIsSuffix'
    <3>1. Len(events') <= Len(history')
      BY <1>0, <1>1, <1>2, <2>0, <2>2
    <3>2. ASSUME NEW k \in 1 .. Len(events') PROVE events'[k] = history'[Dropped' + k]
      <4>1. keep + k \in 1 .. Len(pushed) /\ k \in 1 .. Len(pushed) - keep
        BY <1>0, <1>1, <2>0, <2>2
      <4>2. Dropped + (keep + k) = Dropped' + k
        <5>1. Dropped \in Int /\ k \in Int
          BY <1>0, <4>1, <2>0 DEF Dropped
        <5>. QED BY <2>0, <2>3, <5>1
      <4>. QED BY <1>3, <2>2, <4>1, <4>2, Zenon
    <3>. QED BY <1>2, <2>2, <3>1, <3>2, Zenon DEF LogIsSuffix
  <2>5. subs' = [i \in 1 .. Len(subs) |-> Rebase(subs[i], keep)]
    BY <1>4, <1>5, Zenon DEF Publish, pushed, keep, e
  <2>6. ASSUME NEW i \in 1 .. Len(subs)
        PROVE  subs'[i] \in Subscriptions /\ SubInv(subs[i])'
    <3>1. PICK s : s = subs[i]
      BY Zenon
    <3>2. PICK t : t = subs'[i]
      BY Zenon
    <3>0. PICK d \in Nat : d = keep
      BY <2>0, Zenon
    <3>3. t = Rebase(s, d)
      BY <2>5, <3>0, <3>1, <3>2, Zenon
    <3>4. s \in Subscriptions /\ SubInv(s)
      BY <1>4, <3>1, Zenon
    <3>5. LogIsSuffix
      BY Zenon DEF PlaneInv
    <3>6. /\ t \in Subscriptions
          /\ t.topic = s.topic /\ t.delivery = s.delivery /\ t.schema = s.schema
          /\ t.from = s.from /\ t.got = s.got /\ t.seen = s.seen /\ t.told = s.told
          /\ t.cursor = (IF s.cursor > d THEN s.cursor - d ELSE 0)
          /\ t.lagged = (s.lagged \/ (s.cursor < d /\ s.delivery # "AtMostOnce"))
      BY <3>3, <3>4, RebaseFields
    <3>7. SubInv(t)'
      <4>1. Dropped' = Dropped + d
        BY <2>3, <3>0, Zenon
      <4>2. t.lagged <=> s.lagged \/ (s.cursor < d /\ s.delivery # "AtMostOnce")
        BY <3>6, Zenon
      <4>. QED BY <1>2, <2>4, <3>4, <3>5, <3>6, <4>1, <4>2, SubInvShift, Zenon
    <3>. QED BY <3>2, <3>6, <3>7, Zenon
  <2>7. subs' \in Seq(Subscriptions) /\ Len(subs') = Len(subs)
    BY <1>4, <2>5, <2>6
  <2>. QED BY <2>4, <2>6, <2>7, Zenon DEF PlaneInv
<1>6. CASE ~(Len(pushed) > MAX_EVENT_LOG)
  <2>1. events' = pushed /\ subs' = subs
    BY <1>6, Zenon DEF Publish, pushed, e
  <2>2. Dropped' = Dropped + 0
    <3>1. Len(events') = Len(events) + 1 /\ Len(history') = Len(history) + 1
      BY <1>1, <1>2, <2>1, Zenon
    <3>2. Len(events) \in Nat /\ Len(history) \in Nat
      BY <1>0
    <3>. QED BY <3>1, <3>2 DEF Dropped
  <2>3. LogIsSuffix'
    <3>1. Dropped' = Dropped
      BY <1>0, <2>2 DEF Dropped
    <3>2. Len(events') <= Len(history') /\ Len(events') = Len(pushed)
      BY <1>0, <1>1, <1>2, <2>1
    <3>3. \A k \in 1 .. Len(events') : events'[k] = history'[Dropped' + k]
      BY <1>3, <2>1, <3>1, Zenon
    <3>. QED BY <1>1, <1>2, <2>1, <3>2, <3>3, Zenon DEF LogIsSuffix
  <2>4. ASSUME NEW i \in 1 .. Len(subs) PROVE SubInv(subs[i])'
    <3>1. PICK s : s = subs[i]
      BY Zenon
    <3>2. s \in Subscriptions /\ SubInv(s) /\ LogIsSuffix
      BY <1>4, <3>1, Zenon DEF PlaneInv
    <3>3. s.cursor \in Nat
      BY <3>2, Zenon DEF Subscriptions
    <3>4. /\ s.cursor = (IF s.cursor > 0 THEN s.cursor - 0 ELSE 0)
          /\ ~(s.cursor < 0) /\ 0 \in Nat
      BY <3>3
    <3>5. SubInv(s)'
      BY <1>2, <2>2, <2>3, <3>2, <3>4, SubInvShift, Zenon
    <3>. QED BY <2>1, <3>1, <3>5, Zenon
  <2>. QED BY <1>4, <2>1, <2>3, <2>4, Zenon DEF PlaneInv
<1>. QED BY <1>5, <1>6, Zenon

\* A step that leaves the log alone and puts a sound subscription, or none, in
\* place of an old one, or after them.
LEMMA PlaneInvSubs ==
    ASSUME PlaneInv, UNCHANGED <<events, history>>, NEW n \in Nat, Len(subs') = n,
           subs' \in Seq(Subscriptions),
           \A i \in 1 .. n : (i \in 1 .. Len(subs) /\ subs'[i] = subs[i]) \/ SubInv(subs'[i])
    PROVE  PlaneInv'
<1>1. LogIsSuffix'
  BY Zenon DEF PlaneInv, LogIsSuffix, Dropped
<1>2. ASSUME NEW i \in 1 .. n PROVE SubInv(subs[i])'
  <2>1. PICK t : t = subs'[i]
    BY Zenon
  <2>2. SubInv(t)
    BY <2>1, Zenon DEF PlaneInv
  <2>3. SubInv(t)'
    BY <2>2, SubInvKept, Zenon
  <2>. QED BY <2>1, <2>3, Zenon
<1>. QED BY <1>1, <1>2, Zenon DEF PlaneInv

\* subscribe, granted or refused for its `since` hash.
LEMMA PlaneInvSubscribe ==
    ASSUME PlaneInv, NEW cap \in Caps, NEW face \in Nat, NEW opts \in SubOptions,
           Subscribe(cap, face, opts)
    PROVE  PlaneInv'
<1>1. UNCHANGED <<events, history>>
  BY Zenon DEF Subscribe
<1>2. subs \in Seq(Subscriptions) /\ LogIsSuffix /\ Len(subs) \in Nat
  BY DEF PlaneInv
<1>3. CASE UNCHANGED subs
  BY <1>1, <1>2, <1>3, PlaneInvSubs, Zenon
<1>4. ASSUME NEW start \in 0 .. Len(events),
             subs' = Append(subs, Subscription(cap, face, opts, start))
      PROVE  PlaneInv'
  <2>1. PICK t : t = Subscription(cap, face, opts, start)
    BY Zenon
  <2>2. SubInv(t) /\ t \in Subscriptions
    BY <1>2, <2>1, SubInvNew, Zenon DEF SubInv
  <2>3. /\ subs' \in Seq(Subscriptions) /\ Len(subs') = Len(subs) + 1
        /\ \A i \in 1 .. Len(subs) : subs'[i] = subs[i]
        /\ subs'[Len(subs) + 1] = t
    BY <1>2, <1>4, <2>1, <2>2
  <2>4. \A i \in 1 .. Len(subs) + 1 : i \in 1 .. Len(subs) \/ i = Len(subs) + 1
    BY <1>2
  <2>5. Len(subs) + 1 \in Nat
    BY <1>2
  <2>. QED BY <1>1, <2>2, <2>3, <2>4, <2>5, PlaneInvSubs, Zenon
<1>. QED BY <1>3, <1>4, Zenon DEF Subscribe

\* poll, whether it reports a gap or delivers.
LEMMA PlaneInvPoll ==
    ASSUME PlaneInv, NEW i \in 1 .. Len(subs), Poll(i)
    PROVE  PlaneInv'
<1>1. UNCHANGED <<events, history>>
  BY Zenon DEF Poll
<1>2. subs \in Seq(Subscriptions) /\ LogIsSuffix /\ Len(subs) \in Nat /\ DOMAIN subs = 1 .. Len(subs)
  BY DEF PlaneInv
<1>3. SubInv(subs[i]) /\ subs[i] \in Subscriptions
  BY <1>2 DEF PlaneInv
<1>4. ASSUME NEW t, SubInv(t), subs' = [subs EXCEPT ![i] = t]
      PROVE  PlaneInv'
  <2>1. t \in Subscriptions
    BY <1>4, Zenon DEF SubInv
  <2>2. /\ subs' \in Seq(Subscriptions) /\ Len(subs') = Len(subs)
        /\ \A j \in 1 .. Len(subs) : subs'[j] = subs[j] \/ subs'[j] = t
    BY <1>2, <1>4, <2>1
  <2>. QED BY <1>1, <1>2, <1>4, <2>2, PlaneInvSubs, Zenon
<1>5. CASE subs' = [subs EXCEPT ![i].lagged = FALSE, ![i].told = Dropped]
  <2>1. PICK t : t = [subs[i] EXCEPT !.lagged = FALSE, !.told = Dropped]
    BY Zenon
  <2>2. SubInv(t)
    BY <1>2, <1>3, <2>1, SubInvTold, Zenon
  <2>3. subs' = [subs EXCEPT ![i] = t]
    BY <1>2, <1>3, <1>5, <2>1, Zenon DEF Subscriptions
  <2>. QED BY <1>4, <2>2, <2>3, Zenon
<1>6. ASSUME NEW out \in Ascending(Delivered(subs[i])),
             subs' = [subs EXCEPT ![i] = Caught(@, out)]
      PROVE  PlaneInv'
  <2>1. PICK t : t = Caught(subs[i], out)
    BY Zenon
  <2>2. SubInv(t)
    BY <1>2, <1>3, <2>1, SubInvCaught, Zenon
  <2>3. subs' = [subs EXCEPT ![i] = t]
    BY <1>6, <2>1, Zenon
  <2>. QED BY <1>4, <2>2, <2>3, Zenon
<1>. QED BY <1>5, <1>6, Zenon DEF Poll

\* Every operation of the plane keeps the invariant.
LEMMA PlaneInvStep == PlaneInv /\ [PlaneNext]_planeVars => PlaneInv'
<1>. SUFFICES ASSUME PlaneInv, [PlaneNext]_planeVars PROVE PlaneInv'
  BY Zenon
<1>0. subs \in Seq(Subscriptions) /\ Len(subs) \in Nat /\ DOMAIN subs = 1 .. Len(subs)
  BY DEF PlaneInv
<1>1. ASSUME UNCHANGED <<events, subs, history>> PROVE PlaneInv'
  BY <1>0, <1>1, PlaneInvSubs, Zenon
<1>2. CASE PlaneTick
  BY <1>1, <1>2, Zenon DEF PlaneTick
<1>3. ASSUME NEW l \in Limits, SetQuota(l[1], l[2]) PROVE PlaneInv'
  BY <1>1, <1>3, Zenon DEF SetQuota
<1>4. ASSUME NEW n \in Revocable, RevokeNode(n) PROVE PlaneInv'
  BY <1>1, <1>4, Zenon DEF RevokeNode
<1>5. ASSUME NEW c \in Caps, NEW o \in SubOptions, Subscribe(c, Len(subs) + 1, o) PROVE PlaneInv'
  <2>1. Len(subs) + 1 \in Nat
    BY <1>0
  <2>. QED BY <1>5, <2>1, PlaneInvSubscribe, Zenon
<1>6. ASSUME NEW c \in Caps, NEW o \in Objects, Publish(c, o) PROVE PlaneInv'
  BY <1>6, PlaneInvPublish, Zenon
<1>7. ASSUME NEW i \in DOMAIN subs, Poll(i) PROVE PlaneInv'
  BY <1>0, <1>7, PlaneInvPoll, Zenon
<1>8. ASSUME NEW c \in Caps, NEW o \in Objects, NEW p \in Predicates, StandingQuery(c, o[1], p)
      PROVE  PlaneInv'
  BY <1>1, <1>8, Zenon DEF StandingQuery
<1>9. ASSUME NEW q \in DOMAIN queries, PollQuery(q) PROVE PlaneInv'
  BY <1>1, <1>9, Zenon DEF PollQuery
<1>10. CASE UNCHANGED planeVars
  BY <1>1, <1>10, Zenon DEF planeVars
<1>. QED BY <1>2, <1>3, <1>4, <1>5, <1>6, <1>7, <1>8, <1>9, <1>10, Zenon DEF PlaneNext

\* The inductive invariant of the plane.
LEMMA PlaneInvHolds == PlaneSpec => []PlaneInv
  BY PlaneInvInit, PlaneInvStep, PTL DEF PlaneSpec

\* What the invariant says of one subscription.
LEMMA PlaneSub ==
    ASSUME PlaneInv, NEW i \in DOMAIN subs
    PROVE  SubInv(subs[i]) /\ DOMAIN subs[i].got = 1 .. Len(subs[i].got)
<1>1. i \in 1 .. Len(subs)
  BY DEF PlaneInv
<1>2. SubInv(subs[i])
  BY <1>1, Zenon DEF PlaneInv
<1>3. subs[i].got \in Seq(Nat)
  <2>1. subs[i] \in Subscriptions
    BY <1>2, Zenon DEF SubInv
  <2>. QED BY <2>1, Zenon DEF Subscriptions
<1>. QED BY <1>2, <1>3

\* Polls deliver what was asked for, in the order it was published, no event twice,
\* and to an ExactlyOnce subscriber no object twice (poll, pubsub.rs).
THEOREM PlaneInOrderOnce == PlaneSpec => []InOrderOnce
<1>1. PlaneInv => InOrderOnce
  <2>. SUFFICES ASSUME PlaneInv, NEW i \in DOMAIN subs
                PROVE  /\ \A n \in DOMAIN subs[i].got : subs[i].got[n] \in Asked(subs[i])
                       /\ \A m, n \in DOMAIN subs[i].got : m < n =>
                             /\ subs[i].got[m] < subs[i].got[n]
                             /\ subs[i].delivery = "ExactlyOnce" =>
                                   history[subs[i].got[m]].object # history[subs[i].got[n]].object
    BY Zenon DEF InOrderOnce
  <2>1. SubInv(subs[i]) /\ DOMAIN subs[i].got = 1 .. Len(subs[i].got)
    BY PlaneSub, Zenon
  <2>. QED BY <2>1, Zenon DEF SubInv, DeliversInOrder, SeenIsGot, GotObject
<1>. QED BY <1>1, PlaneInvHolds, PTL

\* To a subscriber that did not ask for AtMostOnce, an event it asked for is
\* delivered, still ahead of its cursor, or reported lost (Lagged, pubsub.rs).
THEOREM PlaneNoSilentGap == PlaneSpec => []NoSilentGap
<1>1. PlaneInv => NoSilentGap
  <2>. SUFFICES ASSUME PlaneInv, NEW i \in DOMAIN subs, subs[i].delivery # "AtMostOnce",
                       NEW g \in Asked(subs[i])
                PROVE  \/ g > Dropped + subs[i].cursor
                       \/ \E n \in DOMAIN subs[i].got :
                             \/ subs[i].got[n] = g
                             \/ /\ subs[i].delivery = "ExactlyOnce"
                                /\ history[subs[i].got[n]].object = history[g].object
                       \/ g <= Dropped /\ subs[i].lagged
                       \/ g <= subs[i].told
    BY Zenon DEF NoSilentGap
  <2>1. SubInv(subs[i]) /\ DOMAIN subs[i].got = 1 .. Len(subs[i].got)
    BY PlaneSub, Zenon
  <2>. QED BY <2>1, Zenon DEF SubInv, Accounted, Served, GotObject
<1>. QED BY <1>1, PlaneInvHolds, PTL
==============================================================================
