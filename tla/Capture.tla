------------------------------- MODULE Capture -------------------------------
(***************************************************************************)
(* The V4L2 buffers of pd/pd.cpp.  The driver fills the buffers it has     *)
(* been given, in order.  mpp_vpss_GetAlgFrame takes a filled buffer out   *)
(* (DQBUF), announces its index in ringque_V4L2 and gives the buffer back  *)
(* (QBUF) at once; mpp_vpss_FrameSave takes the index and copies the       *)
(* buffer later, with nothing to keep the driver from filling it again.    *)
(* Queue and ring of buffers differ in length by one, as in SlotRing, but  *)
(* here the writer is the driver, which runs ahead of the announcements by *)
(* all the frames that GetAlgFrame has not yet taken out.                  *)
(*                                                                         *)
(* In mpp_vpss_InitAlgChn the result of every ioctl is kept in a uint32    *)
(* and compared with "< 0", which is never true: a QBUF or a STREAMON that *)
(* fails goes unnoticed, and the program may run with fewer buffers than   *)
(* UVC_BUF_NUM, or with none.  Frames are numbered in the order in which   *)
(* they are filled.  The driver is external; that the buffers can be       *)
(* mapped is assumed.                                                      *)
(***************************************************************************)
EXTENDS Integers, Sequences

CONSTANTS
  BufNum,     \* UVC_BUF_NUM
  MaxFrames   \* bound: number of frames filled

ASSUME CaptureAssumption == BufNum \in Nat /\ BufNum >= 2 /\ MaxFrames \in Nat

VARIABLES
  queued,     \* the buffers the driver is to fill, the next one first
  filling,    \* the driver is filling the first of them
  filled,     \* filled buffers that have not been taken out
  buffer,     \* the frame in each buffer, or Torn, or 0
  begun,      \* number of frames that have been begun
  given,      \* number of buffers the driver got at the start
  thread,     \* GetAlgFrame: poll, announce, requeue, or returned
  index,      \* s32BufIndex
  unread,     \* indices in ringque_V4L2 that FrameSave has not read
  announced,  \* number of frames announced
  pc,         \* FrameSave: read, then half, then copied
  source,     \* index_v4l2
  frame,      \* the frame that index was announced for
  copy        \* the frames the two halves of the copy are from

driver == <<queued, filling, filled, buffer, begun, given>>
capture == <<thread, index, unread, announced>>
save == <<pc, source, frame, copy>>
vars == <<driver, capture, save>>

Buffer == 0 .. BufNum - 1
Torn == -1

\* Some buffers, in the order in which InitAlgChn queues them.
Ascending ==
  UNION {{s \in [1 .. n -> Buffer] : \A i, j \in 1 .. n : i < j => s[i] < s[j]} : n \in 0 .. BufNum}

\* mpp_vpss_InitAlgChn: some of the QBUFs have worked.
Init ==
  /\ queued \in Ascending
  /\ given = Len(queued)
  /\ filling = FALSE
  /\ filled = <<>>
  /\ buffer = [b \in Buffer |-> 0]
  /\ begun = 0
  /\ thread = "poll"
  /\ index = 0
  /\ unread = <<>>
  /\ announced = 0
  /\ pc = "read"
  /\ source = 0
  /\ frame = 0
  /\ copy = <<0, 0>>

-----------------------------------------------------------------------------
(***************************************************************************)
(* The driver.                                                             *)
(***************************************************************************)
BeginFill ==
  /\ queued # <<>>
  /\ ~filling
  /\ begun < MaxFrames
  /\ filling' = TRUE
  /\ begun' = begun + 1
  /\ buffer' = [buffer EXCEPT ![Head(queued)] = Torn]
  /\ UNCHANGED <<queued, filled, given, capture, save>>

EndFill ==
  /\ filling
  /\ filling' = FALSE
  /\ buffer' = [buffer EXCEPT ![Head(queued)] = begun]
  /\ filled' = Append(filled, Head(queued))
  /\ queued' = Tail(queued)
  /\ UNCHANGED <<begun, given, capture, save>>

-----------------------------------------------------------------------------
(***************************************************************************)
(* mpp_vpss_GetAlgFrame.                                                   *)
(***************************************************************************)

\* poll and VIDIOC_DQBUF.
Dequeue ==
  /\ thread = "poll"
  /\ filled # <<>>
  /\ index' = Head(filled)
  /\ filled' = Tail(filled)
  /\ thread' = "announce"
  /\ UNCHANGED <<queued, filling, buffer, begun, given, unread, announced, save>>

\* Mutant: a queue as long as the ring of buffers.
CapacityFull == BufNum

\* ringque_V4L2(UVC_BUF_NUM-1).
Capacity == BufNum - 1

\* Mutant: the queue never drops an index.
AnnounceUnbounded ==
  /\ thread = "announce"
  /\ unread' = Append(unread, index)
  /\ announced' = announced + 1
  /\ thread' = "requeue"
  /\ UNCHANGED <<driver, index, save>>

\* ringque_V4L2.Write, which drops the oldest index when it is full.
Announce ==
  /\ thread = "announce"
  /\ unread' = Append(IF Len(unread) = Capacity THEN Tail(unread) ELSE unread, index)
  /\ announced' = announced + 1
  /\ thread' = "requeue"
  /\ UNCHANGED <<driver, index, save>>

\* VIDIOC_QBUF.
Requeue ==
  /\ thread = "requeue"
  /\ queued' = Append(queued, index)
  /\ thread' = "poll"
  /\ UNCHANGED <<filling, filled, buffer, begun, given, index, unread, announced, save>>

\* poll, DQBUF or QBUF fails, and the thread returns.
Return ==
  /\ thread \in {"poll", "requeue"}
  /\ thread' = "returned"
  /\ UNCHANGED <<driver, index, unread, announced, save>>

-----------------------------------------------------------------------------
(***************************************************************************)
(* mpp_vpss_FrameSave: the index, and the copy into MiddleData.            *)
(***************************************************************************)
Read ==
  /\ pc = "read"
  /\ unread # <<>>
  /\ source' = Head(unread)
  /\ unread' = Tail(unread)
  /\ frame' = announced - Len(unread) + 1
  /\ pc' = "half"
  /\ UNCHANGED <<driver, thread, index, announced, copy>>

\* Mutant: the copy is made from the buffer that was announced last.
CopyLatest ==
  /\ pc \in {"half", "other"}
  /\ copy' = [copy EXCEPT ![IF pc = "half" THEN 1 ELSE 2] = buffer[index]]
  /\ pc' = IF pc = "half" THEN "other" ELSE "copied"
  /\ UNCHANGED <<driver, capture, source, frame>>

\* memcpy, one half after the other.
Copy ==
  /\ pc \in {"half", "other"}
  /\ copy' = [copy EXCEPT ![IF pc = "half" THEN 1 ELSE 2] = buffer[source]]
  /\ pc' = IF pc = "half" THEN "other" ELSE "copied"
  /\ UNCHANGED <<driver, capture, source, frame>>

\* The rest of the round is FrameGate's and SlotRing's.
Again ==
  /\ pc = "copied"
  /\ pc' = "read"
  /\ UNCHANGED <<driver, capture, source, frame, copy>>

Next ==
  \/ BeginFill \/ EndFill
  \/ Dequeue \/ Announce \/ Requeue \/ Return
  \/ Read \/ Copy \/ Again

Spec == Init /\ [][Next]_vars

-----------------------------------------------------------------------------
Contents == {Torn} \cup 0 .. MaxFrames

TypeOK ==
  /\ queued \in Seq(Buffer) /\ Len(queued) <= BufNum
  /\ filling \in BOOLEAN
  /\ filled \in Seq(Buffer) /\ Len(filled) <= BufNum
  /\ buffer \in [Buffer -> Contents]
  /\ begun \in 0 .. MaxFrames
  /\ given \in 0 .. BufNum
  /\ thread \in {"poll", "announce", "requeue", "returned"}
  /\ index \in Buffer
  /\ unread \in Seq(Buffer) /\ Len(unread) <= Capacity
  /\ announced \in 0 .. MaxFrames
  /\ pc \in {"read", "half", "other", "copied"}
  /\ source \in Buffer
  /\ frame \in 0 .. MaxFrames
  /\ copy \in Contents \X Contents

\* A buffer is filled again as many frames later as the driver has buffers.
Overwritten(f) == begun >= f + given

\* The k-th unread index was announced for this frame.
FrameOf(k) == announced - Len(unread) + k

\* With all its buffers, and with every filled one announced, the driver is
\* kept out of every announced buffer by a queue that is one shorter than the
\* ring (pd.cpp:1042), whatever FrameSave does.  A frame that waits to be taken
\* out while the driver fills the next is enough to lose the oldest of a full
\* queue, and so is a QBUF that failed unnoticed at the start (pd.cpp:1604).
AnnouncedIntact ==
  given = BufNum /\ thread # "announce" /\ filled = <<>> =>
    \A k \in 1 .. Len(unread) : buffer[unread[k]] = FrameOf(k)

\* However far GetAlgFrame is behind and however many buffers the driver has,
\* FrameSave copies one frame, and the one it read the index of, unless the
\* driver has come round to that buffer (pd.cpp:1768, 1819).
CopyOfOneFrame ==
  /\ pc \in {"other", "copied"} /\ ~Overwritten(frame) => copy[1] = frame
  /\ pc = "copied" /\ ~Overwritten(frame) => copy[2] = frame

=============================================================================
