------------------------------- MODULE AhciDisk -------------------------------
(***************************************************************************)
(* The AHCI/SATA driver (kernel/src/ahci.rs) on command slot 0 of one port. *)
(* A call is cut into commands of up to BounceSectors sectors that share    *)
(* one bounce buffer.  issue waits for the port to be idle, rewrites the    *)
(* command table, sets the slot's bit in PxCI and polls it; both waits end  *)
(* after SPIN polls.  The port works on its own and is never reset: what a  *)
(* call abandons at its timeout the port may still carry out.               *)
(***************************************************************************)
EXTENDS Integers, Sequences, FiniteSetsExt

CONSTANTS
    Capacity,       \* sectors on the disk
    Junk,           \* contents of a buffer nobody has filled
    Blank,          \* contents of a sector never written
    Chunks,         \* what callers write: sequences of values
    BounceSectors,  \* BOUNCE_SECTORS
    MaxCalls        \* bound on calls

VARIABLES
    disk,
    call,       \* [op, start, data, single]: the arguments; data is the caller's buffer
    done,       \* blocks finished by earlier commands of the call
    pc, ret,
    calls,      \* made so far
    table,      \* the command table of slot 0: [op, lba, count]
    regs,       \* the port: [busy, err, tfes, ci]
    port,       \* the command the port is working on, or Idle
    halted,     \* the port stopped on an error
    bounce,
    abandoned   \* history: some wait ran out while the port had a command

callVars == <<call, done, pc, ret, calls>>
ahciVars == <<table, regs, port, halted, bounce, abandoned>>
vars == <<disk, callVars, ahciVars>>

Lbas == 0 .. Capacity - 1
Idle == [op |-> "none", lba |-> 0, count |-> 0]
------------------------------------------------------------------------------
AhciInit ==
    /\ table = Idle /\ port = Idle
    /\ regs = [busy |-> FALSE, err |-> FALSE, tfes |-> FALSE, ci |-> FALSE]
    /\ halted = FALSE /\ abandoned = FALSE
    /\ bounce = [i \in 1 .. BounceSectors |-> Junk]

Init ==
    /\ AhciInit
    /\ disk = [b \in Lbas |-> Blank]
    /\ call = [op |-> "in", start |-> 0, data |-> <<>>, single |-> TRUE]
    /\ done = 0 /\ pc = "idle" /\ ret = "none" /\ calls = 0

\* read_block, write_block (single), read_blocks and write_blocks: the range check.
Call(op, start, blocks, single) ==
    /\ pc = "idle" /\ calls < MaxCalls
    /\ calls' = calls + 1
    /\ call' = [op |-> op, start |-> start, data |-> blocks, single |-> single]
    /\ done' = 0
    /\ IF start + Len(blocks) > Capacity
       THEN ret' = "range" /\ pc' = "idle"
       ELSE ret' = "none" /\ pc' = "fill"
    /\ UNCHANGED <<disk, ahciVars>>

\* The sectors of the next command.
Count == Min({BounceSectors, Len(call.data) - done})

\* A write's sectors are copied to the bounce buffer, before issue waits.
Fill ==
    /\ pc = "fill"
    /\ bounce' = IF call.op = "in" THEN bounce ELSE
           [i \in 1 .. BounceSectors |-> IF i <= Count THEN call.data[done + i] ELSE bounce[i]]
    /\ pc' = "idlewait"
    /\ UNCHANGED <<disk, call, done, ret, calls, table, regs, port, halted, abandoned>>

Fail == ret' = "fault" /\ pc' = "idle" /\ UNCHANGED <<call, done>>

\* The wait for an idle port runs out.
IdleTimeout ==
    /\ pc = "idlewait" /\ regs.busy
    /\ Fail
    /\ abandoned' = TRUE
    /\ UNCHANGED <<disk, calls, table, regs, port, halted, bounce>>

\* Mutant: every command of a call starts at the call's first sector.
IssueFirst ==
    /\ pc = "idlewait" /\ ~regs.busy
    /\ table' = [op |-> call.op, lba |-> call.start, count |-> Count]
    /\ regs' = [regs EXCEPT !.tfes = FALSE, !.ci = TRUE]
    /\ pc' = "poll"
    /\ UNCHANGED <<disk, call, done, ret, calls, port, halted, bounce, abandoned>>

\* The port is idle: clear PxIS, rebuild header and table, set PxCI.
Issue ==
    /\ pc = "idlewait" /\ ~regs.busy
    /\ table' = [op |-> call.op, lba |-> call.start + done, count |-> Count]
    /\ regs' = [regs EXCEPT !.tfes = FALSE, !.ci = TRUE]
    /\ pc' = "poll"
    /\ UNCHANGED <<disk, call, done, ret, calls, port, halted, bounce, abandoned>>

\* A task-file error seen while the slot's bit is still set.
PollError ==
    /\ pc = "poll" /\ regs.ci /\ regs.tfes
    /\ Fail
    /\ UNCHANGED <<disk, calls, ahciVars>>

\* SPIN polls with the slot's bit set: the command is left to the port.
PollTimeout ==
    /\ pc = "poll" /\ regs.ci
    /\ Fail
    /\ abandoned' = TRUE
    /\ UNCHANGED <<disk, calls, table, regs, port, halted, bounce>>

\* The bit is clear; a read copies the bounce buffer to the caller.
Complete ==
    /\ pc = "poll" /\ ~regs.ci
    /\ IF regs.err THEN Fail
       ELSE /\ call' = IF call.op = "out" THEN call ELSE
                   [call EXCEPT !.data = [i \in DOMAIN @ |->
                       IF i \in done + 1 .. done + Count THEN bounce[i - done] ELSE @[i]]]
            /\ done' = done + Count
            /\ IF done' = Len(call.data) THEN ret' = "ok" /\ pc' = "idle"
                                         ELSE ret' = ret /\ pc' = "fill"
    /\ UNCHANGED <<disk, calls, ahciVars>>

\* The port fetches the command of a set bit and goes busy.
PortFetch ==
    /\ regs.ci /\ ~halted /\ port = Idle
    /\ port' = table
    /\ regs' = [regs EXCEPT !.busy = TRUE, !.err = FALSE]
    /\ UNCHANGED <<disk, callVars, table, halted, bounce, abandoned>>

\* The data phase of the fetched command, through the bounce buffer.
Moved(cmd, moves) ==
    /\ disk' = IF cmd.op = "out" /\ moves
               THEN [b \in Lbas |-> IF b \in cmd.lba .. cmd.lba + cmd.count - 1
                                    THEN bounce[b - cmd.lba + 1] ELSE disk[b]]
               ELSE disk
    /\ bounce' = IF cmd.op = "in" /\ moves
                 THEN [i \in 1 .. BounceSectors |->
                          IF i <= cmd.count THEN disk[cmd.lba + i - 1] ELSE bounce[i]]
                 ELSE bounce

\* It ends well: the port is idle again and the bit is cleared.
PortDone ==
    /\ port # Idle
    /\ Moved(port, TRUE)
    /\ port' = Idle
    /\ regs' = [regs EXCEPT !.busy = FALSE, !.ci = FALSE]
    /\ UNCHANGED <<callVars, table, halted, abandoned>>

\* It ends in an error, with or without its effect: the bit stays set and the
\* port stops fetching commands.
PortFails(moves) ==
    /\ port # Idle
    /\ Moved(port, moves)
    /\ port' = Idle /\ halted' = TRUE
    /\ regs' = [regs EXCEPT !.busy = FALSE, !.err = TRUE, !.tfes = TRUE]
    /\ UNCHANGED <<callVars, table, abandoned>>

Port == PortFetch \/ PortDone \/ \E moves \in BOOLEAN : PortFails(moves)

Calls ==
    \/ \E start \in Lbas, blocks \in Chunks : Call("out", start, blocks, FALSE)
    \/ \E start \in 0 .. Capacity, c \in Chunks : Call("out", start, <<c[1]>>, TRUE)
    \/ \E start \in Lbas, c \in Chunks : Call("in", start, [i \in DOMAIN c |-> Junk], FALSE)
    \/ \E start \in 0 .. Capacity : Call("in", start, <<Junk>>, TRUE)

Driver == Fill \/ IdleTimeout \/ Issue \/ PollError \/ PollTimeout \/ Complete

Next == Calls \/ Driver \/ Port

\* The driver spins; nothing is assumed of the port, the timeouts end the waits.
Spec == Init /\ [][Next]_vars /\ WF_vars(Driver)
------------------------------------------------------------------------------
\* A call that returns Ok did all it was asked: a write is on the disk in every
\* block, a read returns what the disk holds (BlockDevice in persist.rs).
OkMeansDone ==
    pc = "idle" /\ ret = "ok" =>
        \A i \in DOMAIN call.data : disk[call.start + i - 1] = call.data[i]

\* The same, as long as no earlier call gave up on a command the port still held.
OkMeansDoneUnlessAbandoned == abandoned \/ OkMeansDone

\* Every call returns, whether or not the port answers.
CallReturns == pc # "idle" ~> pc = "idle"
==============================================================================
