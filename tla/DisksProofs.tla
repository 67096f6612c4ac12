----------------------------- MODULE DisksProofs -----------------------------
(***************************************************************************)
(* What an Ok of the AHCI and of the NVMe driver means, for every disk      *)
(* size, queue depth, transfer limit and sequence of calls, whatever the    *)
(* port and the controller answer and however late.                         *)
(*                                                                          *)
(* Neither claim is inductive.  AHCI: as long as no wait ran out, the port  *)
(* only ever works on the command the driver polls for (AInv).  NVMe: the   *)
(* phase bits tell which completion entries are new (PhasesMatch); while    *)
(* the disk is not faulted at most one command is out, and the driver's and *)
(* the controller's positions in the rings differ by exactly that command   *)
(* (Quiet, Pending, Finished).  After a timeout the positions drift apart   *)
(* for ever, and no call succeeds again.                                    *)
(***************************************************************************)
EXTENDS BlockDevices, TLAPS

USE SMTT(30), ZenonT(30)

\* What a sector or a buffer holds, and a call in progress.
Word == Values \cup {Junk}
CallRecords == [op : {"in", "out"}, start : Nat, data : Seq(Word), single : BOOLEAN]

\* Commands that move up to m sectors.
CommandsOf(m) == [op : {"in", "out"}, lba : Nat, count : 1 .. m]

\* The first n sectors of call c are done.
Stored(dk, c, n) == \A i \in 1 .. n : dk[c.start + i - 1] = c.data[i]

\* Disk and caller or buffer agree on the n sectors of c after the first d.
Agrees(dk, c, d, n, buf) ==
    \A i \in 1 .. n : dk[c.start + d + i - 1] = (IF c.op = "out" THEN c.data[d + i] ELSE buf[i])

\* A write's n sectors after the first d are in the buffer.
Holds(buf, c, d, n) == c.op = "out" => \A i \in 1 .. n : buf[i] = c.data[d + i]

\* The buffer once the driver has copied a write's sectors to it, the disk and the
\* buffer after the data phase of a command, the call once a read's sectors have
\* been copied to the caller.
Refilled(buf, m, c, d, n) == [i \in 1 .. m |-> IF i <= n THEN c.data[d + i] ELSE buf[i]]

DiskAfter(dk, buf, cmd, moves) ==
    IF cmd.op = "out" /\ moves
    THEN [b \in Lbas |-> IF b \in cmd.lba .. cmd.lba + cmd.count - 1
                         THEN buf[b - cmd.lba + 1] ELSE dk[b]]
    ELSE dk

BufferAfter(dk, buf, m, cmd, moves) ==
    IF cmd.op = "in" /\ moves
    THEN [i \in 1 .. m |-> IF i <= cmd.count THEN dk[cmd.lba + i - 1] ELSE buf[i]]
    ELSE buf

Received(c, d, n, buf) ==
    IF c.op = "out" THEN c
    ELSE [c EXCEPT !.data = [i \in DOMAIN c.data |->
             IF i \in d + 1 .. d + n THEN buf[i - d] ELSE c.data[i]]]
------------------------------------------------------------------------------
\* The configurations the drivers are proved for.
LEMMA Configured ==
    /\ Capacity \in Nat /\ QD \in Nat /\ QD >= 2
    /\ MaxSectors \in Nat \ {0} /\ BounceSectors \in Nat \ {0}
    /\ Junk \in Word /\ Blank \in Word
    /\ \A c \in Chunks : c \in Seq(Word) /\ Len(c) > 0
  <1>1. \A c \in Chunks : c \in Seq(Values) /\ c # <<>>
    BY VirtioBlkAssumption, DisksAssumption, Zenon
  <1>2. ASSUME NEW c \in Chunks PROVE c \in Seq(Word) /\ Len(c) > 0
    BY <1>1 DEF Word
  <1>3. /\ Capacity \in Nat /\ QD \in Nat /\ QD >= 2
        /\ MaxSectors \in Nat \ {0} /\ BounceSectors \in Nat \ {0}
    BY VirtioBlkAssumption, DisksAssumption
  <1>. QED BY <1>2, <1>3, VirtioBlkAssumption, Zenon DEF Word

\* A command has at least one sector, at most what the buffer holds, and does not
\* run past the caller's data.
LEMMA CountBounds ==
    ASSUME NEW m \in Nat \ {0}, NEW l \in Nat, NEW d \in Nat, d < l
    PROVE  Min({m, l - d}) \in 1 .. m /\ d + Min({m, l - d}) <= l
  <1>. DEFINE e == l - d
              x == IF m <= e THEN m ELSE e
  <1>1. x \in {m, e} /\ \A y \in {m, e} : x <= y
    OBVIOUS
  <1>2. \A z \in {m, e} : (\A y \in {m, e} : z <= y) => z = x
    OBVIOUS
  <1>3. Min({m, e}) = x
    BY <1>1, <1>2, Zenon DEF Min
  <1>4. x \in 1 .. m /\ d + x <= l
    OBVIOUS
  <1>. HIDE DEF x
  <1>. QED BY <1>3, <1>4, Zenon

\* The arguments a caller may pass.
LEMMA Arguments ==
    /\ Lbas \subseteq Nat /\ 0 .. Capacity \subseteq Nat
    /\ <<Junk>> \in Seq(Word) /\ Len(<<Junk>>) > 0
    /\ \A c \in Chunks :
           /\ c \in Seq(Word) /\ Len(c) > 0
           /\ <<c[1]>> \in Seq(Word) /\ Len(<<c[1]>>) > 0
           /\ [i \in DOMAIN c |-> Junk] \in Seq(Word) /\ Len([i \in DOMAIN c |-> Junk]) > 0
  <1>1. Lbas \subseteq Nat /\ 0 .. Capacity \subseteq Nat
    BY Configured DEF Lbas
  <1>2. ASSUME NEW c \in Chunks
        PROVE  /\ c \in Seq(Word) /\ Len(c) > 0
               /\ <<c[1]>> \in Seq(Word) /\ Len(<<c[1]>>) > 0
               /\ [i \in DOMAIN c |-> Junk] \in Seq(Word)
               /\ Len([i \in DOMAIN c |-> Junk]) > 0
    <2>1. c \in Seq(Word) /\ Len(c) > 0 /\ Junk \in Word
      BY Configured, Zenon
    <2>2. c[1] \in Word /\ DOMAIN c = 1 .. Len(c) /\ Len(c) \in Nat
      BY <2>1
    <2>. QED BY <2>1, <2>2
  <1>3. <<Junk>> \in Seq(Word) /\ Len(<<Junk>>) > 0
    BY Configured
  <1>. QED BY <1>1, <1>2, <1>3, Zenon

\* Copying a write's sectors to the buffer.
LEMMA Refills ==
    ASSUME NEW m \in Nat, NEW n \in 1 .. m, NEW buf \in [1 .. m -> Word],
           NEW c \in CallRecords, NEW d \in Nat, d + n <= Len(c.data)
    PROVE  /\ Refilled(buf, m, c, d, n) \in [1 .. m -> Word]
           /\ Holds(Refilled(buf, m, c, d, n), c, d, n)
  <1>1. c.data \in Seq(Word) /\ Len(c.data) \in Nat
    BY DEF CallRecords
  <1>2. ASSUME NEW i \in 1 .. m, i <= n PROVE c.data[d + i] \in Word
    <2>1. d + i \in 1 .. Len(c.data)
      BY <1>1, <1>2
    <2>. QED BY <1>1, <2>1
  <1>3. \A i \in 1 .. n : i \in 1 .. m /\ i <= n
    OBVIOUS
  <1>. QED BY <1>2, <1>3, Zenon DEF Refilled, Holds

\* The data phase of a command: what it leaves alone, and what it moves.
LEMMA DataPhase ==
    ASSUME NEW m \in Nat, NEW cmd \in CommandsOf(m), NEW moves \in BOOLEAN,
           moves => cmd.lba + cmd.count <= Capacity,
           NEW dk \in [Lbas -> Word], NEW buf \in [1 .. m -> Word]
    PROVE  /\ DiskAfter(dk, buf, cmd, moves) \in [Lbas -> Word]
           /\ BufferAfter(dk, buf, m, cmd, moves) \in [1 .. m -> Word]
           /\ \A b \in Lbas : b < cmd.lba => DiskAfter(dk, buf, cmd, moves)[b] = dk[b]
           /\ cmd.op = "out" => BufferAfter(dk, buf, m, cmd, moves) = buf
           /\ moves => \A i \in 1 .. cmd.count :
                  DiskAfter(dk, buf, cmd, moves)[cmd.lba + i - 1] =
                      BufferAfter(dk, buf, m, cmd, moves)[i]
  <1>. DEFINE new == DiskAfter(dk, buf, cmd, moves)
              got == BufferAfter(dk, buf, m, cmd, moves)
              blocks == cmd.lba .. cmd.lba + cmd.count - 1
  <1>1. /\ cmd.op \in {"in", "out"} /\ cmd.lba \in Nat /\ cmd.count \in Nat
        /\ cmd.count \in 1 .. m /\ Capacity \in Nat
    BY Configured DEF CommandsOf
  <1>2. CASE ~moves
    BY <1>2, Zenon DEF DiskAfter, BufferAfter
  <1>3. CASE moves /\ cmd.op = "out"
    <2>1. new = [b \in Lbas |-> IF b \in blocks THEN buf[b - cmd.lba + 1] ELSE dk[b]]
          /\ got = buf
      BY <1>3, Zenon DEF DiskAfter, BufferAfter
    <2>2. ASSUME NEW b \in Lbas, b \in blocks PROVE b - cmd.lba + 1 \in 1 .. m
      BY <1>1, <2>2 DEF Lbas
    <2>3. new \in [Lbas -> Word]
      BY <2>1, <2>2, Zenon
    <2>4. ASSUME NEW b \in Lbas, b < cmd.lba PROVE new[b] = dk[b]
      <3>1. b \notin blocks
        BY <1>1, <2>4 DEF Lbas
      <3>. QED BY <2>1, <3>1, Zenon
    <2>5. ASSUME NEW i \in 1 .. cmd.count PROVE new[cmd.lba + i - 1] = got[i]
      <3>1. cmd.lba + i - 1 \in Lbas /\ cmd.lba + i - 1 \in blocks
            /\ (cmd.lba + i - 1) - cmd.lba + 1 = i
        BY <1>1, <1>3 DEF Lbas
      <3>. HIDE DEF blocks, new, got
      <3>. QED BY <2>1, <3>1, Zenon
    <2>. HIDE DEF new, got
    <2>6. /\ new \in [Lbas -> Word] /\ got \in [1 .. m -> Word] /\ got = buf
          /\ \A b \in Lbas : b < cmd.lba => new[b] = dk[b]
          /\ \A i \in 1 .. cmd.count : new[cmd.lba + i - 1] = got[i]
      BY <2>1, <2>3, <2>4, <2>5, Zenon
    <2>. QED BY <2>6, Zenon DEF new, got
  <1>4. CASE moves /\ cmd.op = "in"
    <2>1. got = [i \in 1 .. m |-> IF i <= cmd.count THEN dk[cmd.lba + i - 1] ELSE buf[i]]
          /\ new = dk /\ cmd.op # "out"
      BY <1>4 DEF DiskAfter, BufferAfter
    <2>2. ASSUME NEW i \in 1 .. m, i <= cmd.count PROVE cmd.lba + i - 1 \in Lbas
      BY <1>1, <1>4, <2>2 DEF Lbas
    <2>3. got \in [1 .. m -> Word]
      BY <2>1, <2>2, Zenon
    <2>4. ASSUME NEW i \in 1 .. cmd.count PROVE new[cmd.lba + i - 1] = got[i]
      <3>1. i \in 1 .. m /\ i <= cmd.count
        BY <1>1
      <3>. HIDE DEF new, got
      <3>. QED BY <2>1, <3>1, Zenon
    <2>. HIDE DEF new, got
    <2>5. /\ new \in [Lbas -> Word] /\ got \in [1 .. m -> Word] /\ cmd.op # "out"
          /\ \A b \in Lbas : new[b] = dk[b]
          /\ \A i \in 1 .. cmd.count : new[cmd.lba + i - 1] = got[i]
      BY <2>1, <2>3, <2>4, Zenon
    <2>. QED BY <2>5, Zenon DEF new, got
  <1>. QED BY <1>1, <1>2, <1>3, <1>4, Zenon

\* The data phase of the next command of a call: the sectors before it stay done,
\* and if it moves its own sectors disk and buffer agree on them.
LEMMA Moves ==
    ASSUME NEW m \in Nat, NEW n \in 1 .. m, NEW c \in CallRecords, NEW d \in Nat,
           NEW cmd, cmd = [op |-> c.op, lba |-> c.start + d, count |-> n],
           NEW moves \in BOOLEAN, moves => c.start + d + n <= Capacity,
           d > 0 => c.start + d <= Capacity,
           NEW dk \in [Lbas -> Word], NEW buf \in [1 .. m -> Word],
           Holds(buf, c, d, n), Stored(dk, c, d)
    PROVE  /\ Stored(DiskAfter(dk, buf, cmd, moves), c, d)
           /\ moves => Agrees(DiskAfter(dk, buf, cmd, moves), c, d, n,
                              BufferAfter(dk, buf, m, cmd, moves))
  <1>. DEFINE new == DiskAfter(dk, buf, cmd, moves)
              got == BufferAfter(dk, buf, m, cmd, moves)
  <1>1. /\ cmd.op = c.op /\ cmd.lba = c.start + d /\ cmd.count = n
        /\ c.start \in Nat /\ n \in Nat /\ Capacity \in Nat /\ cmd \in CommandsOf(m)
        /\ moves => cmd.lba + cmd.count <= Capacity
    BY Configured DEF CallRecords, CommandsOf
  <1>2. /\ \A b \in Lbas : b < cmd.lba => new[b] = dk[b]
        /\ cmd.op = "out" => got = buf
        /\ moves => \A i \in 1 .. cmd.count : new[cmd.lba + i - 1] = got[i]
    BY <1>1, DataPhase
  <1>. HIDE DEF new, got
  <1>3. ASSUME NEW i \in 1 .. d PROVE new[c.start + i - 1] = c.data[i]
    <2>1. c.start + i - 1 \in Lbas /\ c.start + i - 1 < cmd.lba
      BY <1>1 DEF Lbas
    <2>. QED BY <1>2, <2>1, Zenon DEF Stored
  <1>4. ASSUME moves, NEW i \in 1 .. n
        PROVE  new[c.start + d + i - 1] = (IF c.op = "out" THEN c.data[d + i] ELSE got[i])
    <2>1. new[c.start + d + i - 1] = got[i]
      BY <1>1, <1>2, <1>4, Zenon
    <2>2. c.op = "out" => got[i] = c.data[d + i]
      BY <1>1, <1>2, Zenon DEF Holds
    <2>. QED BY <2>1, <2>2, Zenon
  <1>. QED BY <1>3, <1>4, Zenon DEF Stored, Agrees, new, got

\* Copying a read's sectors to the caller, or leaving a write's alone, makes the
\* sectors of the command part of what the call has done.
LEMMA Collected ==
    ASSUME NEW m \in Nat, NEW n \in 1 .. m, NEW c \in CallRecords, NEW d \in Nat,
           d + n <= Len(c.data), NEW dk, NEW buf \in [1 .. m -> Word]
    PROVE  /\ Received(c, d, n, buf) \in CallRecords
           /\ Received(c, d, n, buf).start = c.start
           /\ Len(Received(c, d, n, buf).data) = Len(c.data)
           /\ d + n \in Nat
           /\ Stored(dk, c, d) /\ Agrees(dk, c, d, n, buf)
              => Stored(dk, Received(c, d, n, buf), d + n)
  <1>. DEFINE agreed == Stored(dk, c, d) /\ Agrees(dk, c, d, n, buf)
  <1>1. /\ n \in Nat /\ c.start \in Nat /\ c.data \in Seq(Word) /\ Len(c.data) \in Nat
        /\ DOMAIN c.data = 1 .. Len(c.data) /\ d + n \in Nat
    BY DEF CallRecords
  <1>2. CASE c.op = "out"
    <2>1. ASSUME agreed, NEW i \in 1 .. d + n PROVE dk[c.start + i - 1] = c.data[i]
      <3>1. CASE i <= d
        BY <1>1, <2>1, <3>1 DEF Stored
      <3>2. CASE i > d
        <4>1. i - d \in 1 .. n /\ c.start + d + (i - d) - 1 = c.start + i - 1 /\ d + (i - d) = i
          BY <1>1, <3>2
        <4>2. dk[c.start + d + (i - d) - 1] = c.data[d + (i - d)]
          BY <1>2, <2>1, <4>1, Zenon DEF Agrees
        <4>. QED BY <4>1, <4>2, Zenon
      <3>. QED BY <1>1, <3>1, <3>2
    <2>. QED BY <1>1, <1>2, <2>1, Zenon DEF Received, Stored
  <1>3. CASE c.op # "out"
    <2>. DEFINE got == [i \in 1 .. Len(c.data) |->
                           IF i \in d + 1 .. d + n THEN buf[i - d] ELSE c.data[i]]
    <2>1. Received(c, d, n, buf) = [c EXCEPT !.data = got]
      BY <1>1, <1>3, Zenon DEF Received
    <2>2. got \in Seq(Word) /\ Len(got) = Len(c.data)
      <3>1. ASSUME NEW i \in 1 .. Len(c.data)
            PROVE  (IF i \in d + 1 .. d + n THEN buf[i - d] ELSE c.data[i]) \in Word
        <4>1. CASE i \in d + 1 .. d + n
          <5>1. i - d \in 1 .. m
            BY <1>1, <4>1
          <5>. QED BY <4>1, <5>1, Zenon
        <4>2. CASE i \notin d + 1 .. d + n
          BY <1>1, <4>2
        <4>. QED BY <4>1, <4>2, Zenon
      <3>2. got \in [1 .. Len(c.data) -> Word]
        BY <3>1, Zenon
      <3>. QED BY <1>1, <3>2
    <2>3. ASSUME agreed, NEW i \in 1 .. d + n PROVE dk[c.start + i - 1] = got[i]
      <3>1. i \in 1 .. Len(c.data)
        BY <1>1
      <3>2. CASE i <= d
        BY <1>1, <2>3, <3>1, <3>2 DEF Stored
      <3>3. CASE i > d
        <4>1. i - d \in 1 .. n /\ i \in d + 1 .. d + n /\ c.start + d + (i - d) - 1 = c.start + i - 1
          BY <1>1, <3>3
        <4>2. dk[c.start + d + (i - d) - 1] = buf[i - d]
          BY <1>3, <2>3, <4>1, Zenon DEF Agrees
        <4>. QED BY <3>1, <4>1, <4>2, Zenon
      <3>. QED BY <1>1, <3>2, <3>3
    <2>. HIDE DEF got
    <2>4. /\ Received(c, d, n, buf) \in CallRecords
          /\ Received(c, d, n, buf).data = got /\ Received(c, d, n, buf).start = c.start
      BY <2>1, <2>2, Zenon DEF CallRecords
    <2>. QED BY <1>1, <2>2, <2>3, <2>4, Zenon DEF Stored
  <1>. QED BY <1>2, <1>3, Zenon
------------------------------------------------------------------------------
(* NVMe. *)

Positions == [tail : Nvme!Entries, head : Nvme!Entries, phase : BOOLEAN]

NTypes ==
    /\ disk \in [Nvme!Lbas -> Word]
    /\ call \in CallRecords
    /\ done \in Nat
    /\ pc \in {"idle", "fill", "submit", "poll"}
    /\ ret \in {"none", "ok", "range", "fault"}
    /\ sq \in [Nvme!Entries -> CommandsOf(MaxSectors)]
    /\ cq \in [Nvme!Entries -> [phase : BOOLEAN, status : {0, 1}]]
    /\ host \in Positions /\ ctrl \in Positions
    /\ data \in [1 .. MaxSectors -> Word]
    /\ faulted \in BOOLEAN

\* Entries below the controller's tail carry its phase, the others the old one.
PhasesMatch ==
    \A i \in Nvme!Entries : cq[i].phase = ctrl.phase <=> i < ctrl.tail

\* No command is out.
Quiet == ctrl.head = host.tail /\ ctrl.tail = host.head /\ ctrl.phase = host.phase

\* The command of the call is out and the controller has not carried it out.
Pending ==
    /\ host.tail = (ctrl.head + 1) % QD
    /\ ctrl.tail = host.head /\ ctrl.phase = host.phase
    /\ sq[ctrl.head] = [op |-> call.op, lba |-> call.start + done, count |-> Nvme!Count]
    /\ Holds(data, call, done, Nvme!Count)

\* The sectors of the command are where they were asked to be.
Transferred ==
    /\ call.start + done + Nvme!Count <= Capacity
    /\ Agrees(disk, call, done, Nvme!Count, data)

\* Its completion is at the driver's head.
Finished ==
    /\ ctrl.head = host.tail
    /\ ctrl.tail = (host.head + 1) % QD
    /\ ctrl.phase = host.phase <=> ctrl.tail # 0
    /\ cq[host.head].status = 0 => Transferred

\* The finished sectors of the call.
NProgress ==
    /\ done > 0 => call.start + done <= Capacity
    /\ Stored(disk, call, done)

NInv ==
    /\ NTypes /\ PhasesMatch
    /\ faulted => pc # "poll" /\ ret # "ok"
    /\ pc # "idle" => done < Len(call.data) /\ ret = "none"
    /\ pc = "idle" /\ ret = "ok" => done = Len(call.data)
    /\ ~faulted /\ (pc # "idle" \/ ret = "ok") => NProgress
    /\ ~faulted /\ pc # "poll" => Quiet
    /\ ~faulted /\ pc = "submit" => Holds(data, call, done, Nvme!Count)
    /\ pc = "poll" => Pending \/ Finished

\* The size of the next command.
LEMMA NCount ==
    ASSUME NTypes, done < Len(call.data)
    PROVE  /\ Nvme!Count \in 1 .. MaxSectors /\ MaxSectors \in Nat
           /\ done + Nvme!Count <= Len(call.data) /\ Len(call.data) \in Nat
  <1>1. MaxSectors \in Nat \ {0} /\ done \in Nat /\ Len(call.data) \in Nat
    BY Configured DEF NTypes, CallRecords
  <1>2. Nvme!Count = Min({MaxSectors, Len(call.data) - done})
    BY Zenon DEF Nvme!Count, Nvme!Min, Min
  <1>. QED BY <1>1, <1>2, CountBounds, Zenon

\* Ring positions wrap.
LEMMA Successor ==
    ASSUME NEW x \in Nvme!Entries
    PROVE  /\ (x + 1) % QD = IF x + 1 = QD THEN 0 ELSE x + 1
           /\ (x + 1) % QD \in Nvme!Entries
           /\ (x + 1) % QD # x
  <1>1. QD \in Nat /\ QD >= 2 /\ x \in 0 .. QD - 1
    BY Configured DEF Nvme!Entries
  <1>2. x + 1 < QD => (x + 1) % QD = x + 1
    BY <1>1
  <1>3. x + 1 = QD => (x + 1) % QD = 0
    BY <1>1
  <1>. QED BY <1>1, <1>2, <1>3 DEF Nvme!Entries

\* There are two phases.
LEMMA Phases ==
    ASSUME NEW a \in BOOLEAN, NEW b \in BOOLEAN
    PROVE  (~a) \in BOOLEAN /\ (~a) # a /\ (b # a => b = ~a)
  BY Zenon

\* The initial state.
LEMMA NInit == Init /\ Nvme!NvmeInit => NInv
  <1>. SUFFICES ASSUME Init, Nvme!NvmeInit PROVE NInv
    BY Zenon
  <1>1. 0 \in Nvme!Entries /\ 1 \in 1 .. MaxSectors
    BY Configured DEF Nvme!Entries
  <1>2. NTypes
    <2>1. disk \in [Lbas -> Word] /\ data \in [1 .. MaxSectors -> Word]
      BY Configured, Zenon DEF Init, Nvme!NvmeInit
    <2>2. call \in CallRecords
      BY DEF Init, CallRecords
    <2>3. sq \in [Nvme!Entries -> CommandsOf(MaxSectors)]
      BY <1>1, Zenon DEF Nvme!NvmeInit, CommandsOf
    <2>4. cq \in [Nvme!Entries -> [phase : BOOLEAN, status : {0, 1}]]
      BY Zenon DEF Nvme!NvmeInit
    <2>5. host \in Positions /\ ctrl \in Positions
      BY <1>1, Zenon DEF Nvme!NvmeInit, Positions
    <2>. QED BY <2>1, <2>2, <2>3, <2>4, <2>5, Zenon DEF NTypes, Init, Nvme!NvmeInit, Nvme!Lbas, Lbas
  <1>3. PhasesMatch
    <2>. SUFFICES ASSUME NEW i \in Nvme!Entries PROVE cq[i].phase # ctrl.phase /\ ~(i < ctrl.tail)
      BY Zenon DEF PhasesMatch
    <2>1. ~(i < ctrl.tail)
      BY Configured DEF Nvme!NvmeInit, Nvme!Entries
    <2>2. cq[i] = [phase |-> FALSE, status |-> 0]
      BY Zenon DEF Nvme!NvmeInit
    <2>3. cq[i].phase = FALSE
      BY <2>2
    <2>4. ctrl.phase = TRUE
      BY Zenon DEF Nvme!NvmeInit
    <2>. QED BY <2>1, <2>3, <2>4, Zenon
  <1>4. Quiet
    BY Zenon DEF Nvme!NvmeInit, Quiet
  <1>. QED BY <1>2, <1>3, <1>4, Zenon DEF Init, Nvme!NvmeInit, NInv

\* A new call: no command of it is out and none of it is done.
LEMMA NCallKeeps ==
    ASSUME NInv, NEW op \in {"in", "out"}, NEW start \in Nat,
           NEW blocks \in Seq(Word), Len(blocks) > 0, NEW single \in BOOLEAN,
           Nvme!Call(op, start, blocks, single)
    PROVE  NInv'
  <1>1. /\ call' = [op |-> op, start |-> start, data |-> blocks, single |-> single]
        /\ done' = 0 /\ pc' \in {"idle", "fill"} /\ ret' \in {"none", "range"}
        /\ pc' = "fill" => ret' = "none"
        /\ pc = "idle"
        /\ UNCHANGED <<disk, sq, cq, host, ctrl, data, faulted>>
    BY Zenon DEF Nvme!Call, Nvme!nvmeVars
  <1>2. call' \in CallRecords /\ call'.data = blocks
    BY <1>1, Zenon DEF CallRecords
  <1>3. NTypes'
    BY <1>1, <1>2, SMTT(30) DEF NInv, NTypes, Positions
  <1>4. PhasesMatch'
    BY <1>1, Zenon DEF NInv, PhasesMatch
  <1>5. Quiet => Quiet'
    BY <1>1, Zenon DEF Quiet
  <1>6. NProgress'
    BY <1>1 DEF NProgress, Stored
  <1>. QED BY <1>1, <1>2, <1>3, <1>4, <1>5, <1>6, Zenon DEF NInv

LEMMA NCallsKeep == NInv /\ Nvme!Calls => NInv'
  <1>. SUFFICES ASSUME NInv, Nvme!Calls PROVE NInv'
    BY Zenon
  <1>0. Nvme!Lbas = Lbas
    BY Zenon DEF Nvme!Lbas, Lbas
  <1>1. CASE \E start \in Nvme!Lbas, blocks \in Chunks : Nvme!Call("out", start, blocks, FALSE)
    BY <1>0, <1>1, Arguments, NCallKeeps, Zenon
  <1>2. CASE \E start \in 0 .. Capacity, c \in Chunks : Nvme!Call("out", start, <<c[1]>>, TRUE)
    BY <1>2, Arguments, NCallKeeps, Zenon
  <1>3. CASE \E start \in Nvme!Lbas, c \in Chunks :
                 Nvme!Call("in", start, [i \in DOMAIN c |-> Junk], FALSE)
    BY <1>0, <1>3, Arguments, NCallKeeps, Zenon
  <1>4. CASE \E start \in 0 .. Capacity : Nvme!Call("in", start, <<Junk>>, TRUE)
    BY <1>4, Arguments, NCallKeeps, Zenon
  <1>. QED BY <1>1, <1>2, <1>3, <1>4, Zenon DEF Nvme!Calls

\* Filling the buffer touches no command: none is out.
LEMMA NFillKeeps == NInv /\ Nvme!Fill => NInv'
  <1>. SUFFICES ASSUME NInv, Nvme!Fill PROVE NInv'
    BY Zenon
  <1>1. /\ NTypes /\ Nvme!Count \in 1 .. MaxSectors /\ MaxSectors \in Nat
        /\ done + Nvme!Count <= Len(call.data)
    BY NCount, Zenon DEF NInv, Nvme!Fill
  <1>2. /\ data' = IF call.op = "in" THEN data
                   ELSE Refilled(data, MaxSectors, call, done, Nvme!Count)
        /\ pc = "fill" /\ pc' = "submit"
        /\ UNCHANGED <<disk, call, done, ret, sq, cq, host, ctrl, faulted>>
    BY Zenon DEF Nvme!Fill, Refilled
  <1>3. /\ data' \in [1 .. MaxSectors -> Word] /\ Holds(data', call, done, Nvme!Count)
    <2>1. CASE call.op = "in"
      <3>1. call.op # "out"
        BY <2>1
      <3>. QED BY <1>1, <1>2, <2>1, <3>1, Zenon DEF NTypes, Holds
    <2>2. CASE call.op # "in"
      BY <1>1, <1>2, <2>2, Refills, Zenon DEF NTypes
    <2>. QED BY <2>1, <2>2, Zenon
  <1>4. NTypes'
    BY <1>1, <1>2, <1>3, Zenon DEF NTypes, Positions
  <1>5. PhasesMatch'
    BY <1>2, Zenon DEF NInv, PhasesMatch
  <1>6. Nvme!Count' = Nvme!Count
    BY <1>2, Zenon DEF Nvme!Count
  <1>7. ~faulted => Quiet' /\ NProgress'
    BY <1>2, Zenon DEF NInv, Quiet, NProgress
  <1>8. Holds(data, call, done, Nvme!Count)'
    BY <1>2, <1>3, <1>6, Zenon DEF Holds
  <1>. QED BY <1>2, <1>4, <1>5, <1>7, <1>8, Zenon DEF NInv

\* The command goes out: it is the only one.
LEMMA NSubmitKeeps == NInv /\ Nvme!Submit => NInv'
  <1>. SUFFICES ASSUME NInv, Nvme!Submit PROVE NInv'
    BY Zenon
  <1>1. CASE faulted
    <2>1. pc' = "idle" /\ ret' = "fault"
          /\ UNCHANGED <<disk, call, done, sq, cq, host, ctrl, data, faulted>>
      BY <1>1, Zenon DEF Nvme!Submit
    <2>2. NTypes' /\ PhasesMatch'
      BY <2>1, Zenon DEF NInv, NTypes, PhasesMatch, Positions
    <2>. QED BY <1>1, <2>1, <2>2, Zenon DEF NInv
  <1>2. CASE ~faulted
    <2>. DEFINE cmd == [op |-> call.op, lba |-> call.start + done, count |-> Nvme!Count]
    <2>1. /\ sq' = [sq EXCEPT ![host.tail] = cmd]
          /\ host' = [host EXCEPT !.tail = (host.tail + 1) % QD]
          /\ pc = "submit" /\ pc' = "poll" /\ ret' = ret
          /\ UNCHANGED <<disk, call, done, cq, ctrl, data, faulted>>
      BY <1>2, Zenon DEF Nvme!Submit
    <2>2. /\ NTypes /\ Quiet /\ Holds(data, call, done, Nvme!Count) /\ NProgress
          /\ done < Len(call.data) /\ ret = "none"
      BY <1>2, <2>1, Zenon DEF NInv
    <2>3. Nvme!Count \in 1 .. MaxSectors
      BY <2>2, NCount, Zenon
    <2>4. host.tail \in Nvme!Entries /\ (host.tail + 1) % QD \in Nvme!Entries
      BY <2>2, Successor, Zenon DEF NTypes, Positions
    <2>5. cmd \in CommandsOf(MaxSectors)
      BY <2>2, <2>3 DEF NTypes, CommandsOf, CallRecords
    <2>6. host' \in Positions
      BY <2>1, <2>2, <2>4, Zenon DEF NTypes, Positions
    <2>7. sq' \in [Nvme!Entries -> CommandsOf(MaxSectors)] /\ sq'[host.tail] = cmd
      BY <2>1, <2>2, <2>4, <2>5, Zenon DEF NTypes
    <2>8. NTypes'
      BY <2>1, <2>2, <2>6, <2>7, Zenon DEF NTypes, Positions
    <2>9. PhasesMatch' /\ NProgress'
      BY <2>1, <2>2, Zenon DEF NInv, PhasesMatch, NProgress
    <2>10. Nvme!Count' = Nvme!Count
      BY <2>1, Zenon DEF Nvme!Count
    <2>11. host'.tail = (host.tail + 1) % QD /\ host'.head = host.head
           /\ host'.phase = host.phase
      BY <2>1, <2>2, Zenon DEF NTypes, Positions
    <2>12. Holds(data, call, done, Nvme!Count)'
      BY <2>1, <2>2, <2>10, Zenon DEF Holds
    <2>13. Pending'
      BY <2>1, <2>2, <2>7, <2>10, <2>11, <2>12, Zenon DEF Pending, Quiet
    <2>. HIDE DEF cmd
    <2>. QED BY <1>2, <2>1, <2>2, <2>8, <2>9, <2>13, Zenon DEF NInv
  <1>. QED BY <1>1, <1>2, Zenon

\* An abandoned command marks the disk faulted.
LEMMA NTimeoutKeeps == NInv /\ Nvme!Timeout => NInv'
  <1>. SUFFICES ASSUME NInv, Nvme!Timeout PROVE NInv'
    BY Zenon
  <1>1. pc' = "idle" /\ ret' = "fault" /\ faulted' = TRUE
        /\ UNCHANGED <<disk, call, done, sq, cq, host, ctrl, data>>
    BY Zenon DEF Nvme!Timeout
  <1>2. NTypes' /\ PhasesMatch'
    BY <1>1, Zenon DEF NInv, NTypes, PhasesMatch, Positions
  <1>. QED BY <1>1, <1>2, Zenon DEF NInv

\* A completion the driver sees is that of the command it waits for.
LEMMA CompletedMeansFinished ==
    ASSUME NInv, pc = "poll", Nvme!Completed
    PROVE  Finished
  <1>1. ASSUME Pending PROVE FALSE
    <2>1. host.head \in Nvme!Entries /\ host.head \in Int
      BY Configured DEF NInv, NTypes, Positions, Nvme!Entries
    <2>2. ctrl.tail = host.head /\ ctrl.phase = host.phase
      BY <1>1, Zenon DEF Pending
    <2>3. cq[host.head].phase = ctrl.phase
      BY <2>2, Zenon DEF Nvme!Completed
    <2>4. host.head < host.head
      BY <2>1, <2>2, <2>3, Zenon DEF NInv, PhasesMatch
    <2>. QED BY <2>1, <2>4
  <1>. QED BY <1>1, Zenon DEF NInv

\* Consuming it brings the driver level with the controller.
LEMMA ConsumedLevel ==
    ASSUME NInv, Finished, host' = Nvme!Consumed, UNCHANGED ctrl
    PROVE  host' \in Positions /\ Quiet'
  <1>1. host \in Positions /\ ctrl \in Positions
    BY Zenon DEF NInv, NTypes
  <1>2. (host.head + 1) % QD \in Nvme!Entries /\ host.phase \in BOOLEAN /\ ctrl.phase \in BOOLEAN
    BY <1>1, Successor, Zenon DEF Positions
  <1>. DEFINE turned == IF (host.head + 1) % QD = 0 THEN ~host.phase ELSE host.phase
  <1>3. turned \in BOOLEAN
    BY <1>2, Zenon
  <1>4. host' = [host EXCEPT !.head = (host.head + 1) % QD, !.phase = turned]
    BY Zenon DEF Nvme!Consumed
  <1>5. ctrl.phase = turned
    <2>1. CASE ctrl.tail = 0
      <3>1. ctrl.phase # host.phase /\ turned = ~host.phase
        BY <2>1, Zenon DEF Finished
      <3>. QED BY <1>2, <3>1, Phases, Zenon
    <2>2. CASE ctrl.tail # 0
      BY <2>2, Zenon DEF Finished
    <2>. QED BY <2>1, <2>2, Zenon
  <1>. HIDE DEF turned
  <1>6. host' \in Positions
    BY <1>1, <1>2, <1>3, <1>4, Zenon DEF Positions
  <1>7. host'.tail = host.tail /\ host'.head = (host.head + 1) % QD /\ host'.phase = turned
    BY <1>1, <1>4, Zenon DEF Positions
  <1>8. Quiet'
    BY <1>5, <1>7, Zenon DEF Quiet, Finished
  <1>. QED BY <1>6, <1>8, Zenon

LEMMA NCompleteKeeps == NInv /\ Nvme!Complete => NInv'
  <1>. SUFFICES ASSUME NInv, Nvme!Complete PROVE NInv'
    BY Zenon
  <1>1. pc = "poll" /\ Nvme!Completed /\ host' = Nvme!Consumed
        /\ UNCHANGED <<disk, sq, cq, ctrl, data, faulted>>
    BY Zenon DEF Nvme!Complete
  <1>2. Finished
    BY <1>1, CompletedMeansFinished, Zenon
  <1>3. host' \in Positions /\ Quiet'
    BY <1>1, <1>2, ConsumedLevel, Zenon
  <1>4. PhasesMatch'
    BY <1>1, Zenon DEF NInv, PhasesMatch
  <1>5. ~faulted /\ ret = "none" /\ NTypes /\ NProgress /\ done < Len(call.data)
    BY <1>1, Zenon DEF NInv
  <1>6. CASE cq[host.head].status # 0
    <2>1. ret' = "fault" /\ pc' = "idle" /\ UNCHANGED <<call, done>>
      BY <1>6, Zenon DEF Nvme!Complete
    <2>2. NTypes'
      BY <1>1, <1>3, <1>5, <2>1, SMTT(30) DEF NTypes, Positions
    <2>. QED BY <1>1, <1>3, <1>4, <2>1, <2>2, Zenon DEF NInv
  <1>7. CASE cq[host.head].status = 0
    <2>1. Transferred
      BY <1>2, <1>7, Zenon DEF Finished
    <2>2. /\ Nvme!Count \in 1 .. MaxSectors /\ MaxSectors \in Nat
          /\ done + Nvme!Count <= Len(call.data) /\ Len(call.data) \in Nat
      BY <1>5, NCount, Zenon
    <2>3. /\ call' = Received(call, done, Nvme!Count, data) /\ done' = done + Nvme!Count
          /\ IF done' = Len(call.data) THEN ret' = "ok" /\ pc' = "idle"
                                       ELSE ret' = ret /\ pc' = "fill"
      BY <1>7, Zenon DEF Nvme!Complete, Received
    <2>4. /\ call' \in CallRecords /\ call'.start = call.start
          /\ Len(call'.data) = Len(call.data) /\ done' \in Nat
          /\ Stored(disk, call', done')
      <3>1. /\ call \in CallRecords /\ done \in Nat /\ data \in [1 .. MaxSectors -> Word]
            /\ Stored(disk, call, done) /\ Agrees(disk, call, done, Nvme!Count, data)
        BY <1>5, <2>1, Zenon DEF NTypes, NProgress, Transferred
      <3>. QED BY <2>2, <2>3, <3>1, Collected
    <2>5. NProgress'
      <3>1. call'.start + done' <= Capacity
        BY <1>5, <2>1, <2>2, <2>3, <2>4, Configured DEF Transferred, NTypes, CallRecords
      <3>. QED BY <1>1, <2>4, <3>1, Zenon DEF NProgress
    <2>6. NTypes'
      BY <1>1, <1>3, <1>5, <2>3, <2>4, Zenon DEF NTypes, Positions
    <2>7. done' <= Len(call.data)
      BY <2>2, <2>3, Zenon
    <2>. QED BY <1>1, <1>3, <1>4, <1>5, <2>2, <2>3, <2>4, <2>5, <2>6, <2>7 DEF NInv
  <1>. QED BY <1>6, <1>7, Zenon

\* What the controller does to the rings.
LEMMA Posted ==
    ASSUME NInv, NEW status \in {0, 1}, NEW effect \in BOOLEAN,
           Nvme!ControllerDoes(status, effect)
    PROVE  /\ cq' \in [Nvme!Entries -> [phase : BOOLEAN, status : {0, 1}]]
           /\ cq'[ctrl.tail].status = status
           /\ ctrl' \in Positions
           /\ ctrl'.head = (ctrl.head + 1) % QD /\ ctrl'.tail = (ctrl.tail + 1) % QD
           /\ ctrl'.phase = ctrl.phase <=> ctrl'.tail # 0
           /\ PhasesMatch'
  <1>. DEFINE next == (ctrl.tail + 1) % QD
              turned == IF next = 0 THEN ~ctrl.phase ELSE ctrl.phase
  <1>1. ctrl \in Positions /\ cq \in [Nvme!Entries -> [phase : BOOLEAN, status : {0, 1}]]
    BY Zenon DEF NInv, NTypes
  <1>2. /\ ctrl.tail \in Nvme!Entries /\ ctrl.head \in Nvme!Entries /\ ctrl.phase \in BOOLEAN
        /\ next \in Nvme!Entries /\ (ctrl.head + 1) % QD \in Nvme!Entries
    BY <1>1, Successor, Zenon DEF Positions
  <1>3. turned \in BOOLEAN
    BY <1>2, Zenon
  <1>4. turned = ctrl.phase <=> next # 0
    BY <1>2, Phases, Zenon
  <1>5. /\ cq' = [cq EXCEPT ![ctrl.tail] = [phase |-> ctrl.phase, status |-> status]]
        /\ ctrl' = [head |-> (ctrl.head + 1) % QD, tail |-> next, phase |-> turned]
    BY Zenon DEF Nvme!ControllerDoes
  <1>6. next = (IF ctrl.tail + 1 = QD THEN 0 ELSE ctrl.tail + 1)
    BY <1>2, Successor, Zenon
  <1>. HIDE DEF next, turned
  <1>7. ctrl' \in Positions /\ ctrl'.head = (ctrl.head + 1) % QD /\ ctrl'.tail = next
        /\ ctrl'.phase = turned
    BY <1>2, <1>3, <1>5, Zenon DEF Positions
  <1>8. cq' \in [Nvme!Entries -> [phase : BOOLEAN, status : {0, 1}]]
    BY <1>1, <1>2, <1>5, Zenon
  <1>9. cq'[ctrl.tail].status = status /\ cq'[ctrl.tail].phase = ctrl.phase
    BY <1>1, <1>2, <1>5, Zenon
  <1>10. ASSUME NEW i \in Nvme!Entries
         PROVE  cq'[i].phase = turned <=> i < next
    <2>1. cq'[i].phase \in BOOLEAN
      BY <1>8, Zenon
    <2>2. cq'[i].phase = ctrl.phase <=> i <= ctrl.tail
      <3>1. CASE i = ctrl.tail
        BY <1>2, <1>9, <3>1, Configured DEF Nvme!Entries
      <3>2. CASE i # ctrl.tail
        <4>1. cq'[i] = cq[i]
          BY <1>1, <1>5, <3>2, Zenon
        <4>2. i < ctrl.tail <=> i <= ctrl.tail
          BY <1>2, <3>2, Configured DEF Nvme!Entries
        <4>. QED BY <4>1, <4>2, Zenon DEF NInv, PhasesMatch
      <3>. QED BY <3>1, <3>2, Zenon
    <2>3. CASE next = 0
      <3>1. i <= ctrl.tail /\ ~(i < next)
        BY <1>2, <1>6, <2>3, Configured DEF Nvme!Entries
      <3>2. turned # ctrl.phase
        BY <1>4, <2>3, Zenon
      <3>. QED BY <2>2, <3>1, <3>2, Zenon
    <2>4. CASE next # 0
      <3>1. i <= ctrl.tail <=> i < next
        BY <1>2, <1>6, <2>4, Configured DEF Nvme!Entries
      <3>2. turned = ctrl.phase
        BY <1>4, <2>4, Zenon
      <3>. QED BY <2>2, <3>1, <3>2, Zenon
    <2>. QED BY <2>3, <2>4, Zenon
  <1>11. PhasesMatch'
    BY <1>7, <1>10, Zenon DEF PhasesMatch
  <1>. QED BY <1>4, <1>7, <1>8, <1>9, <1>11, Zenon DEF next

\* While the disk is not faulted the controller only finds the call's own command.
LEMMA NControllerKeeps == NInv /\ Nvme!Controller => NInv'
  <1>. SUFFICES ASSUME NInv, NEW status \in {0, 1}, NEW effect \in BOOLEAN,
                       Nvme!ControllerDoes(status, effect)
                PROVE  NInv'
    BY Zenon DEF Nvme!Controller
  <1>. DEFINE cmd == sq[ctrl.head]
              moves == cmd.lba + cmd.count <= Capacity /\ (status = 0 \/ effect)
  <1>1. /\ ctrl.head # host.tail
        /\ UNCHANGED <<call, done, pc, ret, sq, host, faulted>>
    BY Zenon DEF Nvme!ControllerDoes, Nvme!callVars
  <1>2. /\ cq' \in [Nvme!Entries -> [phase : BOOLEAN, status : {0, 1}]]
        /\ cq'[ctrl.tail].status = status
        /\ ctrl' \in Positions
        /\ ctrl'.head = (ctrl.head + 1) % QD /\ ctrl'.tail = (ctrl.tail + 1) % QD
        /\ ctrl'.phase = ctrl.phase <=> ctrl'.tail # 0
        /\ PhasesMatch'
    BY Posted, Zenon
  <1>3. /\ NTypes /\ cmd \in CommandsOf(MaxSectors) /\ moves \in BOOLEAN
        /\ disk \in [Lbas -> Word] /\ data \in [1 .. MaxSectors -> Word]
        /\ MaxSectors \in Nat
    BY Configured, Zenon DEF NInv, NTypes, Positions, Nvme!Lbas, Lbas
  <1>4. /\ disk' = DiskAfter(disk, data, cmd, moves)
        /\ data' = BufferAfter(disk, data, MaxSectors, cmd, moves)
        /\ status = 0 => moves
    BY Zenon DEF Nvme!ControllerDoes, DiskAfter, BufferAfter, Nvme!Lbas, Lbas
  <1>. HIDE DEF cmd, moves
  <1>5. disk' \in [Lbas -> Word] /\ data' \in [1 .. MaxSectors -> Word]
    BY <1>3, <1>4, DataPhase, Zenon DEF moves
  <1>6. NTypes'
    BY <1>1, <1>2, <1>3, <1>5, Zenon DEF NTypes, Positions, Nvme!Lbas, Lbas
  <1>7. CASE faulted
    BY <1>1, <1>2, <1>6, <1>7, Zenon DEF NInv
  <1>8. CASE ~faulted
    <2>1. pc = "poll" /\ Pending
      BY <1>1, <1>8, Zenon DEF NInv, Quiet, Finished
    <2>2. NProgress /\ Holds(data, call, done, Nvme!Count) /\ done < Len(call.data) /\ ret = "none"
      BY <1>8, <2>1, Zenon DEF NInv, Pending
    <2>3. cmd = [op |-> call.op, lba |-> call.start + done, count |-> Nvme!Count]
      BY <2>1, Zenon DEF Pending, cmd
    <2>4. Nvme!Count' = Nvme!Count /\ Nvme!Count \in 1 .. MaxSectors
      BY <1>1, <1>3, <2>2, NCount, Zenon DEF Nvme!Count
    <2>5. moves => call.start + done + Nvme!Count <= Capacity
      BY <2>3, Zenon DEF moves
    <2>6. /\ Stored(disk', call, done)
          /\ moves => Agrees(disk', call, done, Nvme!Count, data')
      BY <1>3, <1>4, <2>2, <2>3, <2>4, <2>5, Moves, Zenon DEF NTypes, NProgress
    <2>7. NProgress'
      BY <1>1, <2>2, <2>6, Zenon DEF NProgress
    <2>8. status = 0 => Transferred'
      BY <1>1, <1>4, <2>4, <2>5, <2>6, Zenon DEF Transferred, Agrees
    <2>9. Finished'
      <3>1. ctrl.tail = host.head /\ ctrl.phase = host.phase
            /\ host.tail = (ctrl.head + 1) % QD
        BY <2>1, Zenon DEF Pending
      <3>2. cq'[host'.head].status = status /\ host' = host
        BY <1>1, <1>2, <3>1, Zenon
      <3>3. ctrl'.phase = host'.phase <=> ctrl'.tail # 0
        BY <1>2, <3>1, <3>2, Zenon
      <3>. QED BY <1>2, <2>8, <3>1, <3>2, <3>3, Zenon DEF Finished
    <2>. QED BY <1>1, <1>2, <1>6, <1>8, <2>1, <2>2, <2>7, <2>9, Zenon DEF NInv
  <1>. QED BY <1>7, <1>8, Zenon

\* NInv is inductive.
LEMMA NStep == NInv /\ [Nvme!Next]_(Nvme!vars) => NInv'
  <1>. SUFFICES ASSUME NInv, [Nvme!Next]_(Nvme!vars) PROVE NInv'
    BY Zenon
  <1>1. CASE UNCHANGED Nvme!vars
    <2>1. UNCHANGED <<disk, call, done, pc, ret, sq, cq, host, ctrl, data, faulted>>
      BY <1>1, Zenon DEF Nvme!vars, Nvme!callVars, Nvme!nvmeVars
    <2>2. Nvme!Count' = Nvme!Count
      BY <2>1, Zenon DEF Nvme!Count
    <2>3. /\ NTypes' = NTypes /\ PhasesMatch' = PhasesMatch /\ Quiet' = Quiet
          /\ NProgress' = NProgress
      <3>1. NTypes' = NTypes
        BY <2>1, Zenon DEF NTypes, Positions
      <3>2. PhasesMatch' = PhasesMatch /\ Quiet' = Quiet
        BY <2>1, Zenon DEF PhasesMatch, Quiet
      <3>3. NProgress' = NProgress
        BY <2>1, Zenon DEF NProgress, Stored
      <3>. QED BY <3>1, <3>2, <3>3, Zenon
    <2>5. /\ Holds(data, call, done, Nvme!Count)' = Holds(data, call, done, Nvme!Count)
          /\ Transferred' = Transferred
      BY <2>1, <2>2, Zenon DEF Holds, Transferred, Agrees
    <2>4. Pending' = Pending /\ Finished' = Finished
      BY <2>1, <2>2, <2>5, Zenon DEF Pending, Finished
    <2>. QED BY <2>1, <2>3, <2>4, <2>5, Zenon DEF NInv
  <1>. QED BY <1>1, NCallsKeep, NFillKeeps, NSubmitKeeps, NCompleteKeeps, NTimeoutKeeps,
              NControllerKeeps, Zenon DEF Nvme!Next, Nvme!Driver

\* What NInv says of an answer.
LEMMA NAnswer == NInv => Nvme!OkMeansDone
  <1>. SUFFICES ASSUME NInv, pc = "idle", ret = "ok", NEW i \in DOMAIN call.data
                PROVE  disk[call.start + i - 1] = call.data[i]
    BY Zenon DEF Nvme!OkMeansDone
  <1>1. ~faulted /\ NProgress /\ done = Len(call.data)
    BY Zenon DEF NInv
  <1>2. i \in 1 .. done
    BY <1>1 DEF NInv, NTypes, CallRecords
  <1>. QED BY <1>1, <1>2, Zenon DEF NProgress, Stored
------------------------------------------------------------------------------
\* The AHCI driver.  A command lies within the disk; the next one of the call.
ACommands == {c \in CommandsOf(BounceSectors) : c.lba + c.count <= Capacity}
ANext == [op |-> call.op, lba |-> call.start + done, count |-> Ahci!Count]

ATypes ==
    /\ disk \in [Lbas -> Word] /\ call \in CallRecords /\ done \in Nat
    /\ slot0 \in ACommands \cup {Ahci!Idle} /\ port \in ACommands \cup {Ahci!Idle}
    /\ regs \in [busy : BOOLEAN, err : BOOLEAN, tfes : BOOLEAN, ci : BOOLEAN]
    /\ halted \in BOOLEAN /\ abandoned \in BOOLEAN
    /\ bounce \in [1 .. BounceSectors -> Word]

\* The slot holds the next command of the call, which the port may have fetched;
\* its bit is clear once disk and buffer agree on its sectors.
AIssued ==
    /\ slot0 = ANext /\ port \in {Ahci!Idle, slot0}
    /\ regs.ci => Holds(bounce, call, done, Ahci!Count)
    /\ ~regs.ci => Agrees(disk, call, done, Ahci!Count, bounce)

\* As long as no wait ran out, the port works only on what the driver polls for,
\* and a port that stopped on an error still has the slot's bit set.
Orderly ==
    /\ port # Ahci!Idle => pc = "poll" /\ regs.ci /\ ~halted
    /\ regs.tfes => halted
    /\ halted => regs.ci
    /\ pc # "poll" /\ regs.ci => halted
    /\ pc # "idle" \/ ret = "ok" => Stored(disk, call, done)
    /\ pc = "idlewait" => Holds(bounce, call, done, Ahci!Count)
    /\ pc = "poll" /\ ~halted => AIssued

AInv ==
    /\ ATypes
    /\ pc # "idle" => /\ done < Len(call.data) /\ ret = "none"
                      /\ call.start + Len(call.data) <= Capacity
    /\ pc = "idle" /\ ret = "ok" => done = Len(call.data)
    /\ ~abandoned => Orderly

\* The size of the next command.
LEMMA ACount ==
    ASSUME AInv, pc # "idle"
    PROVE  /\ Ahci!Count \in 1 .. BounceSectors /\ BounceSectors \in Nat
           /\ done + Ahci!Count <= Len(call.data) /\ Len(call.data) \in Nat
           /\ call.start + done + Ahci!Count <= Capacity
           /\ done > 0 => call.start + done <= Capacity
  <1>1. /\ BounceSectors \in Nat \ {0} /\ done \in Nat /\ Len(call.data) \in Nat
        /\ call.start \in Nat /\ Capacity \in Nat
    BY Configured DEF AInv, ATypes, CallRecords
  <1>2. done < Len(call.data) /\ call.start + Len(call.data) <= Capacity
    BY Zenon DEF AInv
  <1>3. Ahci!Count = Min({BounceSectors, Len(call.data) - done})
    BY Zenon DEF Ahci!Count, Ahci!Min, Min
  <1>4. Ahci!Count \in 1 .. BounceSectors /\ done + Ahci!Count <= Len(call.data)
    BY <1>1, <1>2, <1>3, CountBounds, Zenon
  <1>. HIDE DEF Ahci!Count
  <1>. QED BY <1>1, <1>2, <1>4

\* It lies within the disk.
LEMMA ANextFits ==
    ASSUME AInv, pc # "idle"
    PROVE  ANext \in ACommands
  <1>1. ATypes /\ Ahci!Count \in 1 .. BounceSectors /\ call.start + done + Ahci!Count <= Capacity
    BY ACount, Zenon DEF AInv
  <1>2. ANext \in CommandsOf(BounceSectors)
    BY <1>1 DEF ANext, ATypes, CommandsOf, CallRecords
  <1>3. ANext.lba + ANext.count = call.start + done + Ahci!Count
    BY Zenon DEF ANext
  <1>. QED BY <1>1, <1>2, <1>3, Zenon DEF ACommands

LEMMA AInit == Init /\ Ahci!AhciInit => AInv
  <1>. SUFFICES ASSUME Init, Ahci!AhciInit PROVE AInv
    BY Zenon
  <1>1. disk \in [Lbas -> Word] /\ bounce \in [1 .. BounceSectors -> Word]
    BY Configured, Zenon DEF Init, Ahci!AhciInit
  <1>2. call \in CallRecords
    BY DEF Init, CallRecords
  <1>3. regs \in [busy : BOOLEAN, err : BOOLEAN, tfes : BOOLEAN, ci : BOOLEAN]
        /\ ~regs.tfes /\ ~regs.ci
    BY Zenon DEF Ahci!AhciInit
  <1>4. ATypes
    BY <1>1, <1>2, <1>3, Zenon DEF ATypes, Init, Ahci!AhciInit
  <1>5. pc = "idle" /\ ret = "none" /\ port = Ahci!Idle /\ halted = FALSE
    BY Zenon DEF Init, Ahci!AhciInit
  <1>. QED BY <1>3, <1>4, <1>5 DEF Orderly, AInv

\* A new call: none of it is done.
LEMMA ACallKeeps ==
    ASSUME AInv, NEW op \in {"in", "out"}, NEW start \in Nat,
           NEW blocks \in Seq(Word), Len(blocks) > 0, NEW single \in BOOLEAN,
           Ahci!Call(op, start, blocks, single)
    PROVE  AInv'
  <1>1. /\ call' = [op |-> op, start |-> start, data |-> blocks, single |-> single]
        /\ done' = 0 /\ pc = "idle"
        /\ IF start + Len(blocks) > Capacity THEN ret' = "range" /\ pc' = "idle"
                                             ELSE ret' = "none" /\ pc' = "fill"
        /\ UNCHANGED <<disk, slot0, regs, port, halted, bounce, abandoned>>
    BY Zenon DEF Ahci!Call, Ahci!ahciVars
  <1>2. call' \in CallRecords /\ call'.data = blocks /\ call'.start = start
    BY <1>1, Zenon DEF CallRecords
  <1>3. ATypes'
    BY <1>1, <1>2, SMTT(30) DEF AInv, ATypes
  <1>4. Stored(disk, call, done)'
    BY <1>1 DEF Stored
  <1>5. pc' # "poll" /\ pc' # "idlewait" /\ ret' # "ok"
    BY <1>1
  <1>6. ~abandoned' => Orderly'
    BY <1>1, <1>4, <1>5, Zenon DEF AInv, Orderly
  <1>7. pc' # "idle" => /\ done' < Len(call'.data) /\ ret' = "none"
                        /\ call'.start + Len(call'.data) <= Capacity
    BY <1>1, <1>2, Configured
  <1>. QED BY <1>3, <1>5, <1>6, <1>7, Zenon DEF AInv

LEMMA ACallsKeep == AInv /\ Ahci!Calls => AInv'
  <1>. SUFFICES ASSUME AInv, Ahci!Calls PROVE AInv'
    BY Zenon
  <1>0. Ahci!Lbas = Lbas
    BY Zenon DEF Ahci!Lbas, Lbas
  <1>1. CASE \E start \in Ahci!Lbas, blocks \in Chunks : Ahci!Call("out", start, blocks, FALSE)
    BY <1>0, <1>1, Arguments, ACallKeeps, Zenon
  <1>2. CASE \E start \in 0 .. Capacity, c \in Chunks : Ahci!Call("out", start, <<c[1]>>, TRUE)
    BY <1>2, Arguments, ACallKeeps, Zenon
  <1>3. CASE \E start \in Ahci!Lbas, c \in Chunks :
                 Ahci!Call("in", start, [i \in DOMAIN c |-> Junk], FALSE)
    BY <1>0, <1>3, Arguments, ACallKeeps, Zenon
  <1>4. CASE \E start \in 0 .. Capacity : Ahci!Call("in", start, <<Junk>>, TRUE)
    BY <1>4, Arguments, ACallKeeps, Zenon
  <1>. QED BY <1>1, <1>2, <1>3, <1>4, Zenon DEF Ahci!Calls

\* Filling the bounce buffer: the port has no command.
LEMMA AFillKeeps == AInv /\ Ahci!Fill => AInv'
  <1>. SUFFICES ASSUME AInv, Ahci!Fill PROVE AInv'
    BY Zenon
  <1>1. /\ bounce' = IF call.op = "in" THEN bounce
                     ELSE Refilled(bounce, BounceSectors, call, done, Ahci!Count)
        /\ pc = "fill" /\ pc' = "idlewait"
        /\ UNCHANGED <<disk, call, done, ret, slot0, regs, port, halted, abandoned>>
    BY Zenon DEF Ahci!Fill, Refilled
  <1>2. pc # "idle" /\ pc # "poll" /\ pc' # "poll" /\ pc' # "idle"
    BY <1>1
  <1>3. /\ ATypes /\ Ahci!Count \in 1 .. BounceSectors /\ BounceSectors \in Nat
        /\ done + Ahci!Count <= Len(call.data)
    BY <1>2, ACount, Zenon DEF AInv
  <1>4. bounce' \in [1 .. BounceSectors -> Word] /\ Holds(bounce', call, done, Ahci!Count)
    <2>1. CASE call.op = "in"
      <3>1. call.op # "out"
        BY <2>1
      <3>. QED BY <1>1, <1>3, <2>1, <3>1, Zenon DEF ATypes, Holds
    <2>2. CASE call.op # "in"
      BY <1>1, <1>3, <2>2, Refills, Zenon DEF ATypes
    <2>. QED BY <2>1, <2>2, Zenon
  <1>5. ATypes'
    BY <1>1, <1>3, <1>4, Zenon DEF ATypes
  <1>6. Ahci!Count' = Ahci!Count
    BY <1>1, Zenon DEF Ahci!Count
  <1>7. Holds(bounce, call, done, Ahci!Count)'
    BY <1>1, <1>4, <1>6, Zenon DEF Holds
  <1>8. ~abandoned' => Orderly'
    BY <1>1, <1>2, <1>7, Zenon DEF AInv, Orderly, Stored
  <1>. QED BY <1>1, <1>2, <1>5, <1>8, Zenon DEF AInv

\* The two waits that run out: nothing is claimed from then on.
LEMMA ATimeoutKeeps == AInv /\ (Ahci!IdleTimeout \/ Ahci!PollTimeout) => AInv'
  <1>. SUFFICES ASSUME AInv, Ahci!IdleTimeout \/ Ahci!PollTimeout PROVE AInv'
    BY Zenon
  <1>1. /\ pc' = "idle" /\ ret' = "fault" /\ abandoned' = TRUE
        /\ UNCHANGED <<disk, call, done, slot0, regs, port, halted, bounce>>
    BY Zenon DEF Ahci!IdleTimeout, Ahci!PollTimeout, Ahci!Fail
  <1>2. ATypes'
    BY <1>1, Zenon DEF AInv, ATypes
  <1>3. ret' # "ok"
    BY <1>1
  <1>. QED BY <1>1, <1>2, <1>3, Zenon DEF AInv

\* The port stopped on an error: it has no command, and the call fails.
LEMMA APollErrorKeeps == AInv /\ Ahci!PollError => AInv'
  <1>. SUFFICES ASSUME AInv, Ahci!PollError PROVE AInv'
    BY Zenon
  <1>1. /\ pc = "poll" /\ regs.ci /\ regs.tfes /\ pc' = "idle" /\ ret' = "fault"
        /\ UNCHANGED <<disk, call, done, slot0, regs, port, halted, bounce, abandoned>>
    BY Zenon DEF Ahci!PollError, Ahci!Fail, Ahci!ahciVars
  <1>2. ATypes'
    BY <1>1, Zenon DEF AInv, ATypes
  <1>3. ret' # "ok" /\ pc' # "poll" /\ pc' # "idlewait"
    BY <1>1
  <1>4. ~abandoned' => Orderly'
    BY <1>1, <1>3, Zenon DEF AInv, Orderly
  <1>. QED BY <1>1, <1>2, <1>3, <1>4, Zenon DEF AInv

\* The next command of the call goes to the slot.
LEMMA AIssueKeeps == AInv /\ Ahci!Issue => AInv'
  <1>. SUFFICES ASSUME AInv, Ahci!Issue PROVE AInv'
    BY Zenon
  <1>1. /\ pc = "idlewait" /\ pc' = "poll" /\ slot0' = ANext
        /\ regs' = [regs EXCEPT !.tfes = FALSE, !.ci = TRUE]
        /\ UNCHANGED <<disk, call, done, ret, port, halted, bounce, abandoned>>
    BY Zenon DEF Ahci!Issue, ANext
  <1>2. pc # "idle" /\ pc # "poll" /\ pc' # "idle" /\ pc' # "idlewait"
    BY <1>1
  <1>3. slot0' \in ACommands
    BY <1>1, <1>2, ANextFits, Zenon
  <1>4. /\ regs' \in [busy : BOOLEAN, err : BOOLEAN, tfes : BOOLEAN, ci : BOOLEAN]
        /\ ~regs'.tfes /\ regs'.ci
    BY <1>1, Zenon DEF AInv, ATypes
  <1>5. ATypes'
    BY <1>1, <1>3, <1>4, Zenon DEF AInv, ATypes
  <1>6. Ahci!Count' = Ahci!Count /\ ANext' = ANext
    BY <1>1, Zenon DEF Ahci!Count, ANext
  <1>7. ASSUME ~abandoned PROVE Orderly'
    <2>1. Orderly
      BY <1>7, Zenon DEF AInv
    <2>2. port = Ahci!Idle /\ Holds(bounce, call, done, Ahci!Count) /\ Stored(disk, call, done)
      BY <1>1, <1>2, <2>1, Zenon DEF Orderly
    <2>3. Holds(bounce, call, done, Ahci!Count)' /\ Stored(disk, call, done)'
      BY <1>1, <1>6, <2>2, Zenon DEF Holds, Stored
    <2>4. AIssued'
      BY <1>1, <1>4, <1>6, <2>2, <2>3, Zenon DEF AIssued
    <2>. QED BY <1>1, <1>2, <1>4, <2>2, <2>3, <2>4, Zenon DEF Orderly
  <1>. QED BY <1>1, <1>2, <1>5, <1>7, Zenon DEF AInv

\* The bit is clear: disk and buffer agree on the command's sectors.
LEMMA ACompleteKeeps == AInv /\ Ahci!Complete => AInv'
  <1>. SUFFICES ASSUME AInv, Ahci!Complete PROVE AInv'
    BY Zenon
  <1>1. pc = "poll" /\ ~regs.ci
        /\ UNCHANGED <<disk, slot0, regs, port, halted, bounce, abandoned>>
    BY Zenon DEF Ahci!Complete, Ahci!ahciVars
  <1>2. pc # "idle"
    BY <1>1
  <1>3. ATypes /\ ret = "none" /\ done < Len(call.data)
        /\ call.start + Len(call.data) <= Capacity
    BY <1>2, Zenon DEF AInv
  <1>4. CASE regs.err
    <2>1. pc' = "idle" /\ ret' = "fault" /\ UNCHANGED <<call, done>>
      BY <1>4, Zenon DEF Ahci!Complete, Ahci!Fail
    <2>2. ret' # "ok" /\ pc' # "poll" /\ pc' # "idlewait"
      BY <2>1
    <2>3. ATypes'
      BY <1>1, <1>3, <2>1, Zenon DEF ATypes
    <2>4. ~abandoned' => Orderly'
      BY <1>1, <2>1, <2>2, Zenon DEF AInv, Orderly, AIssued
    <2>. QED BY <2>1, <2>2, <2>3, <2>4, Zenon DEF AInv
  <1>5. CASE ~regs.err
    <2>1. /\ call' = Received(call, done, Ahci!Count, bounce) /\ done' = done + Ahci!Count
          /\ IF done' = Len(call.data) THEN ret' = "ok" /\ pc' = "idle"
                                       ELSE ret' = ret /\ pc' = "fill"
      BY <1>5, Zenon DEF Ahci!Complete, Received
    <2>2. /\ Ahci!Count \in 1 .. BounceSectors /\ BounceSectors \in Nat
          /\ done + Ahci!Count <= Len(call.data) /\ Len(call.data) \in Nat
      BY <1>2, ACount, Zenon
    <2>3. /\ call' \in CallRecords /\ call'.start = call.start
          /\ Len(call'.data) = Len(call.data) /\ done' \in Nat
      <3>1. call \in CallRecords /\ done \in Nat /\ bounce \in [1 .. BounceSectors -> Word]
        BY <1>3, Zenon DEF ATypes
      <3>. HIDE DEF Ahci!Count
      <3>. QED BY <2>1, <2>2, <3>1, Collected
    <2>4. ATypes'
      BY <1>1, <1>3, <2>3, Zenon DEF ATypes
    <2>5. pc' # "poll" /\ pc' # "idlewait"
      BY <2>1
    <2>6. ASSUME ~abandoned PROVE Orderly'
      <3>1. Orderly /\ ~halted /\ Stored(disk, call, done) /\ AIssued
        BY <1>1, <1>2, <2>6, Zenon DEF AInv, Orderly
      <3>2. port = Ahci!Idle /\ Agrees(disk, call, done, Ahci!Count, bounce)
        BY <1>1, <3>1, Zenon DEF Orderly, AIssued
      <3>3. Stored(disk, call', done')
        BY <1>3, <2>1, <2>2, <3>1, <3>2, Collected DEF ATypes
      <3>4. Stored(disk, call, done)'
        BY <1>1, <3>3, Zenon
      <3>. QED BY <1>1, <2>5, <3>1, <3>2, <3>4, Zenon DEF Orderly
    <2>7. done' <= Len(call.data)
      BY <2>1, <2>2, Zenon
    <2>8. pc' # "idle" => done' < Len(call'.data) /\ ret' = "none"
      BY <1>3, <2>1, <2>2, <2>3, <2>7
    <2>9. pc' = "idle" /\ ret' = "ok" => done' = Len(call'.data)
      BY <2>1, <2>3
    <2>. QED BY <1>1, <1>3, <2>3, <2>4, <2>6, <2>8, <2>9, Zenon DEF AInv
  <1>. QED BY <1>4, <1>5, Zenon

\* The port fetches the command the driver polls for.
LEMMA APortFetchKeeps == AInv /\ Ahci!PortFetch => AInv'
  <1>. SUFFICES ASSUME AInv, Ahci!PortFetch PROVE AInv'
    BY Zenon
  <1>1. /\ regs.ci /\ ~halted /\ port = Ahci!Idle /\ port' = slot0
        /\ regs' = [regs EXCEPT !.busy = TRUE, !.err = FALSE]
        /\ UNCHANGED <<disk, call, done, pc, ret, slot0, halted, bounce, abandoned>>
    BY Zenon DEF Ahci!PortFetch, Ahci!callVars
  <1>2. /\ regs' \in [busy : BOOLEAN, err : BOOLEAN, tfes : BOOLEAN, ci : BOOLEAN]
        /\ regs'.ci = regs.ci /\ regs'.tfes = regs.tfes
    BY <1>1, Zenon DEF AInv, ATypes
  <1>3. ATypes'
    BY <1>1, <1>2, Zenon DEF AInv, ATypes
  <1>4. Ahci!Count' = Ahci!Count /\ ANext' = ANext
    BY <1>1, Zenon DEF Ahci!Count, ANext
  <1>5. ASSUME ~abandoned PROVE Orderly'
    <2>1. Orderly /\ pc = "poll" /\ AIssued
      BY <1>1, <1>5, Zenon DEF AInv, Orderly
    <2>2. Holds(bounce, call, done, Ahci!Count) /\ Stored(disk, call, done)
      BY <1>1, <2>1 DEF Orderly, AIssued
    <2>3. Holds(bounce, call, done, Ahci!Count)' /\ Stored(disk, call, done)'
      BY <1>1, <1>4, <2>2, Zenon DEF Holds, Stored
    <2>4. AIssued'
      BY <1>1, <1>2, <1>4, <2>1, <2>3, Zenon DEF AIssued
    <2>. QED BY <1>1, <1>2, <2>1, <2>3, <2>4, Zenon DEF Orderly
  <1>. QED BY <1>1, <1>3, <1>5, Zenon DEF AInv

\* The data phase of the command the port works on.
LEMMA AMoved ==
    ASSUME AInv, port # Ahci!Idle, NEW moves \in BOOLEAN, Ahci!Moved(port, moves)
    PROVE  /\ disk' \in [Lbas -> Word] /\ bounce' \in [1 .. BounceSectors -> Word]
           /\ ~abandoned =>
                 /\ pc = "poll" /\ regs.ci /\ ~halted /\ slot0 = ANext
                 /\ Stored(disk', call, done)
                 /\ moves => Agrees(disk', call, done, Ahci!Count, bounce')
  <1>1. /\ ATypes /\ port \in CommandsOf(BounceSectors) /\ port.lba + port.count <= Capacity
        /\ BounceSectors \in Nat
    BY Configured, Zenon DEF AInv, ATypes, ACommands
  <1>2. /\ disk' = DiskAfter(disk, bounce, port, moves)
        /\ bounce' = BufferAfter(disk, bounce, BounceSectors, port, moves)
    BY Zenon DEF Ahci!Moved, DiskAfter, BufferAfter, Ahci!Lbas, Lbas
  <1>3. disk' \in [Lbas -> Word] /\ bounce' \in [1 .. BounceSectors -> Word]
    BY <1>1, <1>2, DataPhase, Zenon DEF ATypes
  <1>4. ASSUME ~abandoned
        PROVE  /\ pc = "poll" /\ regs.ci /\ ~halted /\ slot0 = ANext
               /\ Stored(disk', call, done)
               /\ moves => Agrees(disk', call, done, Ahci!Count, bounce')
    <2>1. pc = "poll" /\ regs.ci /\ ~halted
      BY <1>4, Zenon DEF AInv, Orderly
    <2>2. pc # "idle"
      BY <2>1
    <2>3. AIssued /\ Stored(disk, call, done)
      BY <1>4, <2>1, <2>2, Zenon DEF AInv, Orderly
    <2>4. /\ Ahci!Count \in 1 .. BounceSectors /\ call.start + done + Ahci!Count <= Capacity
          /\ done > 0 => call.start + done <= Capacity
      BY <2>2, ACount, Zenon
    <2>5. /\ port = [op |-> call.op, lba |-> call.start + done, count |-> Ahci!Count]
          /\ slot0 = ANext /\ Holds(bounce, call, done, Ahci!Count)
      BY <2>1, <2>3, Zenon DEF AIssued, ANext
    <2>. QED BY <1>1, <1>2, <2>1, <2>3, <2>4, <2>5, Moves, Zenon DEF ATypes
  <1>. QED BY <1>3, <1>4, Zenon

LEMMA APortDoneKeeps == AInv /\ Ahci!PortDone => AInv'
  <1>. SUFFICES ASSUME AInv, Ahci!PortDone PROVE AInv'
    BY Zenon
  <1>1. /\ port # Ahci!Idle /\ Ahci!Moved(port, TRUE) /\ port' = Ahci!Idle
        /\ regs' = [regs EXCEPT !.busy = FALSE, !.ci = FALSE]
        /\ UNCHANGED <<call, done, pc, ret, slot0, halted, abandoned>>
    BY Zenon DEF Ahci!PortDone, Ahci!callVars
  <1>2. /\ disk' \in [Lbas -> Word] /\ bounce' \in [1 .. BounceSectors -> Word]
        /\ ~abandoned => /\ pc = "poll" /\ regs.ci /\ ~halted /\ slot0 = ANext
                         /\ Stored(disk', call, done)
                         /\ Agrees(disk', call, done, Ahci!Count, bounce')
    BY <1>1, AMoved, Zenon
  <1>3. /\ regs' \in [busy : BOOLEAN, err : BOOLEAN, tfes : BOOLEAN, ci : BOOLEAN]
        /\ ~regs'.ci /\ regs'.tfes = regs.tfes
    BY <1>1, Zenon DEF AInv, ATypes
  <1>4. ATypes'
    BY <1>1, <1>2, <1>3, Zenon DEF AInv, ATypes
  <1>5. Ahci!Count' = Ahci!Count /\ ANext' = ANext
    BY <1>1, Zenon DEF Ahci!Count, ANext
  <1>6. ASSUME ~abandoned PROVE Orderly'
    <2>1. pc' = "poll" /\ ~halted' /\ ~regs'.tfes /\ pc' # "idlewait"
      <3>1. pc' = "poll" /\ ~halted' /\ ~regs'.tfes
        BY <1>1, <1>2, <1>3, <1>6, Zenon DEF AInv, Orderly
      <3>. QED BY <3>1
    <2>2. Agrees(disk, call, done, Ahci!Count, bounce)' /\ Stored(disk, call, done)'
      BY <1>1, <1>2, <1>5, <1>6, Zenon DEF Agrees, Stored
    <2>3. AIssued'
      BY <1>1, <1>2, <1>3, <1>5, <1>6, <2>2, Zenon DEF AIssued
    <2>. QED BY <1>1, <1>3, <2>1, <2>2, <2>3, Zenon DEF Orderly
  <1>. QED BY <1>1, <1>4, <1>6, Zenon DEF AInv

LEMMA APortFailsKeeps == AInv /\ (\E moves \in BOOLEAN : Ahci!PortFails(moves)) => AInv'
  <1>. SUFFICES ASSUME AInv, NEW moves \in BOOLEAN, Ahci!PortFails(moves) PROVE AInv'
    BY Zenon
  <1>1. /\ port # Ahci!Idle /\ Ahci!Moved(port, moves) /\ port' = Ahci!Idle /\ halted' = TRUE
        /\ regs' = [regs EXCEPT !.busy = FALSE, !.err = TRUE, !.tfes = TRUE]
        /\ UNCHANGED <<call, done, pc, ret, slot0, abandoned>>
    BY Zenon DEF Ahci!PortFails, Ahci!callVars
  <1>2. /\ disk' \in [Lbas -> Word] /\ bounce' \in [1 .. BounceSectors -> Word]
        /\ ~abandoned => pc = "poll" /\ regs.ci /\ Stored(disk', call, done)
    BY <1>1, AMoved, Zenon
  <1>3. /\ regs' \in [busy : BOOLEAN, err : BOOLEAN, tfes : BOOLEAN, ci : BOOLEAN]
        /\ regs'.ci = regs.ci
    BY <1>1, Zenon DEF AInv, ATypes
  <1>4. ATypes'
    BY <1>1, <1>2, <1>3, Zenon DEF AInv, ATypes
  <1>5. ASSUME ~abandoned PROVE Orderly'
    <2>1. pc' = "poll" /\ regs'.ci /\ Stored(disk, call, done)'
      BY <1>1, <1>2, <1>3, <1>5, Zenon DEF Stored
    <2>2. pc' # "idlewait"
      BY <2>1
    <2>. QED BY <1>1, <2>1, <2>2, Zenon DEF Orderly
  <1>. QED BY <1>1, <1>4, <1>5, Zenon DEF AInv

\* AInv is inductive.
LEMMA AStep == AInv /\ [Ahci!Next]_(Ahci!vars) => AInv'
  <1>. SUFFICES ASSUME AInv, [Ahci!Next]_(Ahci!vars) PROVE AInv'
    BY Zenon
  <1>1. CASE UNCHANGED Ahci!vars
    <2>1. UNCHANGED <<disk, call, done, pc, ret, slot0, regs, port, halted, bounce, abandoned>>
      BY <1>1, Zenon DEF Ahci!vars, Ahci!callVars, Ahci!ahciVars
    <2>2. Ahci!Count' = Ahci!Count /\ ANext' = ANext
      BY <2>1, Zenon DEF Ahci!Count, ANext
    <2>3. ATypes' = ATypes
      BY <2>1, Zenon DEF ATypes
    <2>4. AIssued' = AIssued
      BY <2>1, <2>2, Zenon DEF AIssued, Holds, Agrees
    <2>5. Holds(bounce, call, done, Ahci!Count)' = Holds(bounce, call, done, Ahci!Count)
          /\ Stored(disk, call, done)' = Stored(disk, call, done)
      BY <2>1, <2>2, Zenon DEF Holds, Stored
    <2>6. Orderly' = Orderly
      BY <2>1, <2>4, <2>5, Zenon DEF Orderly
    <2>. QED BY <2>1, <2>3, <2>6, Zenon DEF AInv
  <1>. QED BY <1>1, ACallsKeep, AFillKeeps, AIssueKeeps, ATimeoutKeeps, APollErrorKeeps,
              ACompleteKeeps, APortFetchKeeps, APortDoneKeeps, APortFailsKeeps,
              Zenon DEF Ahci!Next, Ahci!Driver, Ahci!Port

\* What AInv says of an answer.
LEMMA AAnswer == AInv => Ahci!OkMeansDoneUnlessAbandoned
  <1>. SUFFICES ASSUME AInv, ~abandoned, pc = "idle", ret = "ok", NEW i \in DOMAIN call.data
                PROVE  disk[call.start + i - 1] = call.data[i]
    BY Zenon DEF Ahci!OkMeansDoneUnlessAbandoned, Ahci!OkMeansDone
  <1>1. Stored(disk, call, done) /\ done = Len(call.data)
    BY Zenon DEF AInv, Orderly
  <1>2. i \in 1 .. done
    BY <1>1 DEF AInv, ATypes, CallRecords
  <1>. QED BY <1>1, <1>2, Zenon DEF Stored
------------------------------------------------------------------------------
\* The installed driver's invariant holds of the disk.
DisksInv == (backend = "ahci" => AInv) /\ (backend = "nvme" => NInv)

LEMMA DisksInvAlways == DisksSpec => []DisksInv
  <1>1. DisksInit => DisksInv
    BY AInit, NInit, Zenon DEF DisksInit, DisksInv
  <1>2. DisksInv /\ [DisksNext]_allVars => DisksInv'
    <2>. SUFFICES ASSUME DisksInv, [DisksNext]_allVars PROVE DisksInv'
      BY Zenon
    <2>1. CASE OnVirtio(Next)
      <3>1. backend' = "virtio"
        BY <2>1, Zenon DEF OnVirtio
      <3>2. backend' # "ahci" /\ backend' # "nvme"
        BY <3>1
      <3>. QED BY <3>2, Zenon DEF DisksInv
    <2>2. CASE OnAhci(Ahci!Next)
      <3>1. backend = "ahci" /\ backend' = "ahci" /\ Ahci!Next
        BY <2>2, Zenon DEF OnAhci
      <3>2. backend' # "nvme"
        BY <3>1
      <3>. QED BY <3>1, <3>2, AStep, Zenon DEF DisksInv
    <2>3. CASE OnNvme(Nvme!Next)
      <3>1. backend = "nvme" /\ backend' = "nvme" /\ Nvme!Next
        BY <2>3, Zenon DEF OnNvme
      <3>2. backend' # "ahci"
        BY <3>1
      <3>. QED BY <3>1, <3>2, NStep, Zenon DEF DisksInv
    <2>4. CASE UNCHANGED allVars
      <3>1. UNCHANGED backend /\ UNCHANGED Ahci!vars /\ UNCHANGED Nvme!vars
        BY <2>4, Zenon DEF allVars, vars, blkVars, ahciVars, nvmeVars, Ahci!vars, Ahci!callVars,
                           Ahci!ahciVars, Nvme!vars, Nvme!callVars, Nvme!nvmeVars
      <3>. QED BY <3>1, AStep, NStep, Zenon DEF DisksInv
    <2>. QED BY <2>1, <2>2, <2>3, <2>4, Zenon DEF DisksNext
  <1>. QED BY <1>1, <1>2, PTL DEF DisksSpec

\* An AHCI call that returns Ok did all it was asked, as long as no wait ran out
\* before it: every block of a write is on the disk, a read returns what the disk
\* holds, whatever the port does and in whatever order (ahci.rs, issue).
THEOREM AhciDone == DisksSpec => []AhciOkMeansDone
  <1>1. DisksInv => AhciOkMeansDone
    BY AAnswer, Zenon DEF DisksInv, AhciOkMeansDone
  <1>. QED BY <1>1, DisksInvAlways, PTL

\* An NVMe call that returns Ok did all it was asked, with no exception: the disk
\* that gave up on a command never takes a late completion for a later one's
\* (nvme.rs, submit).
THEOREM NvmeDone == DisksSpec => []NvmeOkMeansDone
  <1>1. DisksInv => NvmeOkMeansDone
    BY NAnswer, Zenon DEF DisksInv, NvmeOkMeansDone
  <1>. QED BY <1>1, DisksInvAlways, PTL
==============================================================================
