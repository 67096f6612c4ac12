------------------------------- MODULE NvmeDisk -------------------------------
(***************************************************************************)
(* The NVMe driver (kernel/src/nvme.rs) on its I/O queue pair.  A call is   *)
(* cut into commands of up to MaxSectors sectors that share one DMA buffer; *)
(* each command is written at the submission tail, announced by a doorbell  *)
(* and polled for at the completion head, whose phase bit tells a new entry *)
(* from an old one.  A poll that runs out of spins abandons the command:    *)
(* the controller still owns it and still completes it.                     *)
(***************************************************************************)
EXTENDS Integers, Sequences, FiniteSetsExt

CONSTANTS
    Capacity,     \* sectors on the disk
    Junk,         \* contents of a buffer nobody has filled
    Blank,        \* contents of a sector never written
    Chunks,       \* what callers write: sequences of values
    QD,           \* entries of a queue
    MaxSectors,   \* MAX_SECTORS_PER_CMD
    MaxCalls      \* bound on calls

VARIABLES
    disk,
    call,      \* [op, start, data, single]: the arguments; data is the caller's buffer
    done,      \* blocks finished by earlier commands of the call
    pc, ret,
    calls,     \* made so far
    sq,        \* submission entries: [op, lba, count]
    cq,        \* completion entries: [phase, status]
    host,      \* the driver's [tail, head, phase]
    ctrl,      \* the controller's [tail, head, phase]
    data,      \* the DMA buffer
    faulted

callVars == <<call, done, pc, ret, calls>>
nvmeVars == <<sq, cq, host, ctrl, data, faulted>>
vars == <<disk, callVars, nvmeVars>>

Lbas == 0 .. Capacity - 1
Entries == 0 .. QD - 1
------------------------------------------------------------------------------
NvmeInit ==
    /\ sq = [i \in Entries |-> [op |-> "in", lba |-> 0, count |-> 1]]
    /\ cq = [i \in Entries |-> [phase |-> FALSE, status |-> 0]]
    /\ host = [tail |-> 0, head |-> 0, phase |-> TRUE]
    /\ ctrl = [tail |-> 0, head |-> 0, phase |-> TRUE]
    /\ data = [i \in 1 .. MaxSectors |-> Junk]
    /\ faulted = FALSE

Init ==
    /\ NvmeInit
    /\ disk = [b \in Lbas |-> Blank]
    /\ call = [op |-> "in", start |-> 0, data |-> <<>>, single |-> TRUE]
    /\ done = 0 /\ pc = "idle" /\ ret = "none" /\ calls = 0

\* read_block and write_block (single) check the range; read_blocks and
\* write_blocks leave it to the controller.
Call(op, start, blocks, single) ==
    /\ pc = "idle" /\ calls < MaxCalls
    /\ calls' = calls + 1
    /\ call' = [op |-> op, start |-> start, data |-> blocks, single |-> single]
    /\ done' = 0
    /\ IF single /\ start >= Capacity
       THEN ret' = "range" /\ pc' = "idle"
       ELSE ret' = "none" /\ pc' = "fill"
    /\ UNCHANGED <<disk, nvmeVars>>

\* The sectors of the next command.
Count == Min({MaxSectors, Len(call.data) - done})

\* A write's sectors are copied to the DMA buffer, before rw looks at `faulted`.
Fill ==
    /\ pc = "fill"
    /\ data' = IF call.op = "in" THEN data ELSE
           [i \in 1 .. MaxSectors |-> IF i <= Count THEN call.data[done + i] ELSE data[i]]
    /\ pc' = "submit"
    /\ UNCHANGED <<disk, call, done, ret, calls, sq, cq, host, ctrl, faulted>>

\* rw and submit: the command at the tail and the doorbell.
Submit ==
    /\ pc = "submit"
    /\ IF faulted
       THEN ret' = "fault" /\ pc' = "idle" /\ UNCHANGED <<sq, host>>
       ELSE /\ sq' = [sq EXCEPT ![host.tail] =
                   [op |-> call.op, lba |-> call.start + done, count |-> Count]]
            /\ host' = [host EXCEPT !.tail = (@ + 1) % QD]
            /\ pc' = "poll" /\ ret' = ret
    /\ UNCHANGED <<disk, call, done, calls, cq, ctrl, data, faulted>>

\* The entry at the head has the phase the driver waits for.
Completed == cq[host.head].phase = host.phase

\* submit: the head moves on, and the expected phase flips when it wraps.
Consumed ==
    [host EXCEPT !.head = (@ + 1) % QD,
                 !.phase = IF (host.head + 1) % QD = 0 THEN ~@ ELSE @]

\* The completion is consumed; a read copies the buffer to the caller.
Complete ==
    /\ pc = "poll" /\ Completed
    /\ host' = Consumed
    /\ IF cq[host.head].status # 0
       THEN ret' = "fault" /\ pc' = "idle" /\ UNCHANGED <<call, done>>
       ELSE /\ call' = IF call.op = "out" THEN call ELSE
                   [call EXCEPT !.data = [i \in DOMAIN @ |->
                       IF i \in done + 1 .. done + Count THEN data[i - done] ELSE @[i]]]
            /\ done' = done + Count
            /\ IF done' = Len(call.data) THEN ret' = "ok" /\ pc' = "idle"
                                         ELSE ret' = ret /\ pc' = "fill"
    /\ UNCHANGED <<disk, calls, sq, cq, ctrl, data, faulted>>

\* Mutant: the disk is not marked faulted.
TimeoutForgotten ==
    /\ pc = "poll" /\ ~Completed
    /\ ret' = "fault" /\ pc' = "idle"
    /\ UNCHANGED <<disk, call, done, calls, sq, cq, host, ctrl, data, faulted>>

\* SPIN polls without an answer: the completion stays unconsumed.
Timeout ==
    /\ pc = "poll" /\ ~Completed
    /\ faulted' = TRUE
    /\ ret' = "fault" /\ pc' = "idle"
    /\ UNCHANGED <<disk, call, done, calls, sq, cq, host, ctrl, data>>

\* The controller carries out the next command it was told of and posts its
\* completion.  A command that fails may or may not have had its effect; one
\* that runs past the end fails without any.
ControllerDoes(status, effect) ==
    LET cmd      == sq[ctrl.head]
        inRange  == cmd.lba + cmd.count <= Capacity
        moves    == inRange /\ (status = 0 \/ effect)
        blocks   == cmd.lba .. cmd.lba + cmd.count - 1
        nextTail == (ctrl.tail + 1) % QD
    IN  /\ ctrl.head # host.tail
        /\ nextTail # host.head
        /\ inRange \/ status # 0
        /\ disk' = IF cmd.op = "out" /\ moves
                   THEN [b \in Lbas |-> IF b \in blocks THEN data[b - cmd.lba + 1] ELSE disk[b]]
                   ELSE disk
        /\ data' = IF cmd.op = "in" /\ moves
                   THEN [i \in 1 .. MaxSectors |->
                            IF i <= cmd.count THEN disk[cmd.lba + i - 1] ELSE data[i]]
                   ELSE data
        /\ cq' = [cq EXCEPT ![ctrl.tail] = [phase |-> ctrl.phase, status |-> status]]
        /\ ctrl' = [head |-> (ctrl.head + 1) % QD, tail |-> nextTail,
                    phase |-> IF nextTail = 0 THEN ~ctrl.phase ELSE ctrl.phase]
        /\ UNCHANGED <<callVars, sq, host, faulted>>

Controller == \E status \in {0, 1}, effect \in BOOLEAN : ControllerDoes(status, effect)

Calls ==
    \/ \E start \in Lbas, blocks \in Chunks : Call("out", start, blocks, FALSE)
    \/ \E start \in 0 .. Capacity, c \in Chunks : Call("out", start, <<c[1]>>, TRUE)
    \/ \E start \in Lbas, c \in Chunks : Call("in", start, [i \in DOMAIN c |-> Junk], FALSE)
    \/ \E start \in 0 .. Capacity : Call("in", start, <<Junk>>, TRUE)

Driver == Fill \/ Submit \/ Complete \/ Timeout

Next == Calls \/ Driver \/ Controller

\* The driver spins; nothing is assumed of the controller, the timeout ends the wait.
Spec == Init /\ [][Next]_vars /\ WF_vars(Driver)
------------------------------------------------------------------------------
\* A call that returns Ok did all it was asked: a write is on the disk in every
\* block, a read returns what the disk holds.  Because a timeout marks the disk
\* faulted, no completion is ever taken for that of another command and no
\* abandoned command is outstanding when a later one succeeds.
OkMeansDone ==
    pc = "idle" /\ ret = "ok" =>
        \A i \in DOMAIN call.data : disk[call.start + i - 1] = call.data[i]

\* Every call returns, whether or not the controller answers.
CallReturns == pc # "idle" ~> pc = "idle"
==============================================================================
