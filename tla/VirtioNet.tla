------------------------------ MODULE VirtioNet ------------------------------
(***************************************************************************)
(* The receive side of the virtio network driver (kernel/src/netif.rs): a   *)
(* pool of buffers posted to the device, frames polled one at a time, each  *)
(* buffer posted again once its frame is copied out.  Every chain is one    *)
(* descriptor.  A frame no longer than the virtio header is dropped.        *)
(***************************************************************************)
EXTENDS VirtQueue

CONSTANTS
    RxCount,    \* RX_COUNT
    MaxFrames   \* bound on frames that arrive

VARIABLES
    headToBuf,  \* head_to_buf
    content,    \* per buffer: the frame in it, 0 for a short one
    arrived,    \* frames the device has written, in order, the short ones left out
    got,        \* frames poll_frame has returned
    frames,     \* number of frames so far
    head,       \* the chain poll_frame is at work on
    buf,        \* the buffer it carries, or the one init is posting
    pc

netVars == <<headToBuf, content, arrived, got, frames, head, buf, pc>>
vars == <<queueVars, netVars>>

Buffers == 0 .. RxCount - 1
------------------------------------------------------------------------------
Init ==
    /\ QueueInit
    /\ headToBuf = [i \in Ids |-> 0]
    /\ content = [b \in Buffers |-> 0]
    /\ arrived = <<>> /\ got = <<>>
    /\ frames = 0 /\ head = 0 /\ buf = 0
    /\ pc = "init"

\* post_rx: on an exhausted queue the buffer is not posted.
PostRx(published) ==
    /\ HasRoom(1)
    /\ Build(<<buf>>)
    /\ headToBuf' = [headToBuf EXCEPT ![FreeList(1)[1]] = buf]
    /\ pc' = published
    /\ UNCHANGED <<content, arrived, got, frames, head, buf>>

\* init posts the whole pool and notifies once.
InitPost == pc = "init" /\ PostRx("initPublish")

InitNoRoom ==
    /\ pc = "init" /\ ~HasRoom(1)
    /\ pc' = "initKick"
    /\ UNCHANGED <<queueVars, headToBuf, content, arrived, got, frames, head, buf>>

InitPublish ==
    /\ pc = "initPublish"
    /\ Publish
    /\ IF buf + 1 < RxCount THEN buf' = buf + 1 /\ pc' = "init" ELSE buf' = buf /\ pc' = "initKick"
    /\ UNCHANGED <<headToBuf, content, arrived, got, frames, head>>

KickRx ==
    /\ pc \in {"initKick", "kick"}
    /\ Kick
    /\ pc' = "idle"
    /\ UNCHANGED <<headToBuf, content, arrived, got, frames, head, buf>>

\* Mutant: the buffer is the one posted last.
PollLast ==
    /\ pc = "idle"
    /\ Reclaim
    /\ head' = ring.used[Slot(lastUsed)]
    /\ pc' = "copy"
    /\ UNCHANGED <<headToBuf, content, arrived, got, frames, buf>>

\* poll_frame: the used entry is taken and its chain freed ...
Poll ==
    /\ pc = "idle"
    /\ Reclaim
    /\ head' = ring.used[Slot(lastUsed)]
    /\ buf' = headToBuf[head']
    /\ pc' = "copy"
    /\ UNCHANGED <<headToBuf, content, arrived, got, frames>>

\* Mutant: a short frame ends poll_frame early.
CopyEarlyReturn ==
    /\ pc = "copy"
    /\ IF content[buf] = 0 THEN got' = got /\ pc' = "idle"
                           ELSE got' = Append(got, content[buf]) /\ pc' = "post"
    /\ UNCHANGED <<queueVars, headToBuf, content, arrived, frames, head, buf>>

\* Mutant: buffer 0 is taken for none.
CopyZeroIsNone ==
    /\ pc = "copy"
    /\ got' = IF content[buf] = 0 \/ buf = 0 THEN got ELSE Append(got, content[buf])
    /\ pc' = "post"
    /\ UNCHANGED <<queueVars, headToBuf, content, arrived, frames, head, buf>>

\* ... the frame is copied out ...
Copy ==
    /\ pc = "copy"
    /\ got' = IF content[buf] = 0 THEN got ELSE Append(got, content[buf])
    /\ pc' = "post"
    /\ UNCHANGED <<queueVars, headToBuf, content, arrived, frames, head, buf>>

\* ... and the buffer goes back to the device.
Repost == pc = "post" /\ PostRx("publish")

Republish ==
    /\ pc = "publish"
    /\ Publish
    /\ pc' = "kick"
    /\ UNCHANGED <<headToBuf, content, arrived, got, frames, head, buf>>

\* A frame arrives: written to the buffer of a chain the device has taken, which
\* it returns.
FrameArrives(h, short) ==
    /\ frames < MaxFrames
    /\ DeviceReturn(h)
    /\ frames' = frames + 1
    /\ content' = [content EXCEPT ![table.desc[h].addr] = IF short THEN 0 ELSE frames']
    /\ arrived' = IF short THEN arrived ELSE Append(arrived, frames')
    /\ UNCHANGED <<headToBuf, got, head, buf, pc>>

DriverStep ==
    \/ InitPost \/ InitNoRoom \/ InitPublish \/ KickRx
    \/ Poll \/ Copy \/ Repost \/ Republish

Next ==
    \/ DriverStep
    \/ DeviceTake /\ UNCHANGED netVars
    \/ DeviceSleep /\ UNCHANGED netVars
    \/ \E h \in device.working, short \in BOOLEAN : FrameArrives(h, short)

\* The shell polls again and again.
Spec == Init /\ [][Next]_vars /\ WF_vars(DriverStep)
------------------------------------------------------------------------------
\* Frames come out as they went in: none lost, repeated, reordered, or overwritten
\* in its buffer before it was copied.
FramesInOrder == \E n \in 0 .. Len(arrived) : got = SubSeq(arrived, 1, n)

\* The pool never shrinks: between polls every buffer that fits the queue is
\* posted again, after a short frame too.
NoBufferLost ==
    pc = "idle" => OutstandingCount = IF RxCount < Size THEN RxCount ELSE Size

\* Every frame the device writes is returned by some poll.
FramesReceived == Len(got) < Len(arrived) ~> Len(got) = Len(arrived)
==============================================================================
