------------------------------ MODULE SlotRing ------------------------------
(***************************************************************************)
(* A ring of frame buffers handed from one thread to the next by index.    *)
(* pd/pd.cpp has two: MiddleData, filled by mpp_vpss_FrameSave and read by *)
(* mpp_vpss_Vdec (40 slots), and dstData, filled by mpp_vpss_Vdec and read *)
(* by pd_alg_Body (12 slots).  The writer copies a frame into slot         *)
(* counter % Slots, without any lock, and then writes the index to a       *)
(* TRWRingQueue of capacity Slots - 1.  The reader takes an index and      *)
(* reads the slot after the queue's lock has been released.                *)
(*                                                                         *)
(* The queue is used as RingQueue is proved to behave: the reader's unread *)
(* indices, the oldest first, of which a full queue drops the oldest.      *)
(* Frames are numbered 1, 2, 3 ... in the order they are published.        *)
(***************************************************************************)
EXTENDS Integers, Sequences

CONSTANTS
  Slots,      \* RINGBUF_VDEC_COUNT or RINGBUF_COUNT
  MayReject,  \* TRUE for FrameSave, which drops frames after copying them
  MaxFrames   \* bound: number of published frames

ASSUME SlotsAssumption == Slots \in Nat /\ Slots >= 2
ASSUME MayRejectAssumption == MayReject \in BOOLEAN
ASSUME MaxFramesAssumption == MaxFrames \in Nat

VARIABLES
  slot,     \* the frame whose data each buffer holds, or Torn, or Stale
  counter,  \* the writer's counter, also the number of the last frame
  copying,  \* the writer is inside memcpy
  begun,    \* the highest frame number a copy has been started for
  unread,   \* indices in the queue that the reader has not taken
  pc,       \* the reader: idle, then taken, header, body
  held,     \* the index the reader works on
  frame,    \* the frame that index was queued for
  header,   \* the frame the reader's metadata came from
  body      \* the frame the reader's image data came from

vars == <<slot, counter, copying, begun, unread, pc, held, frame, header, body>>

Torn == -1    \* partly the old frame, partly the new one
Stale == 0    \* nothing yet, or a frame the writer dropped

Slot == 0 .. Slots - 1

\* Mutant: the ring index taken modulo the capacity of the queue.
IndexShort(c) == c % (Slots - 1)

Index(c) == c % Slots

\* Mutant: a queue that never evicts.
EnqueueUnbounded(i) == Append(unread, i)

\* TRWRingQueue::Write for the one reader in use.
Enqueue(i) == Append(IF Len(unread) = Slots - 1 THEN Tail(unread) ELSE unread, i)

Init ==
  /\ slot = [i \in Slot |-> Stale]
  /\ counter = 0
  /\ copying = FALSE
  /\ begun = 0
  /\ unread = <<>>
  /\ pc = "idle"
  /\ held = 0
  /\ frame = 0
  /\ header = 0
  /\ body = 0

-----------------------------------------------------------------------------
\* The writer starts to copy a frame into its next slot.
BeginCopy ==
  /\ ~copying
  /\ counter < MaxFrames
  /\ copying' = TRUE
  /\ begun' = counter + 1
  /\ slot' = [slot EXCEPT ![Index(counter)] = Torn]
  /\ UNCHANGED <<counter, unread, pc, held, frame, header, body>>

\* The copy is complete; its index goes to the queue and the counter moves on.
Publish ==
  /\ copying
  /\ copying' = FALSE
  /\ slot' = [slot EXCEPT ![Index(counter)] = counter + 1]
  /\ unread' = Enqueue(Index(counter))
  /\ counter' = counter + 1
  /\ UNCHANGED <<begun, pc, held, frame, header, body>>

\* FrameSave drops the frame it has copied: the slot will be used again.
Reject ==
  /\ MayReject
  /\ copying
  /\ copying' = FALSE
  /\ slot' = [slot EXCEPT ![Index(counter)] = Stale]
  /\ UNCHANGED <<counter, begun, unread, pc, held, frame, header, body>>

\* Read of the queue returns the oldest index.
Take ==
  /\ pc = "idle"
  /\ unread # <<>>
  /\ held' = Head(unread)
  /\ frame' = counter - Len(unread) + 1
  /\ unread' = Tail(unread)
  /\ pc' = "taken"
  /\ UNCHANGED <<slot, counter, copying, begun, header, body>>

\* Mutant: the metadata of the slot being written, not of the one taken.
ReadHeaderLatest ==
  /\ pc = "taken"
  /\ header' = slot[Index(counter)]
  /\ pc' = "header"
  /\ UNCHANGED <<slot, counter, copying, begun, unread, held, frame, body>>

\* The reader fetches the channel and the other metadata of the slot ...
ReadHeader ==
  /\ pc = "taken"
  /\ header' = slot[held]
  /\ pc' = "header"
  /\ UNCHANGED <<slot, counter, copying, begun, unread, held, frame, body>>

\* ... and then works on its image (decoding, or AlgForward).
ReadBody ==
  /\ pc = "header"
  /\ body' = slot[held]
  /\ pc' = "body"
  /\ UNCHANGED <<slot, counter, copying, begun, unread, held, frame, header>>

Done ==
  /\ pc = "body"
  /\ pc' = "idle"
  /\ UNCHANGED <<slot, counter, copying, begun, unread, held, frame, header, body>>

Writer == BeginCopy \/ Publish \/ Reject
Reader == Take \/ ReadHeader \/ ReadBody \/ Done

Next == Writer \/ Reader

Spec == Init /\ [][Next]_vars

-----------------------------------------------------------------------------
Contents == {Torn, Stale} \cup 1 .. MaxFrames

TypeOK ==
  /\ slot \in [Slot -> Contents]
  /\ counter \in 0 .. MaxFrames
  /\ copying \in BOOLEAN
  /\ begun \in {counter, counter + 1}
  /\ copying => begun = counter + 1
  /\ begun <= MaxFrames
  /\ unread \in Seq(Slot)
  /\ Len(unread) <= Slots - 1
  /\ Len(unread) <= counter
  /\ pc \in {"idle", "taken", "header", "body"}
  /\ held \in Slot
  /\ frame \in 0 .. counter
  /\ header \in Contents
  /\ body \in Contents

\* The k-th unread index stands for this frame.
FrameOf(k) == counter - Len(unread) + k

\* An index the reader has not taken still leads to the frame it was queued
\* for: a queue one shorter than the ring keeps the writer out of every slot
\* it has announced (pd.cpp RINGBUF_COUNT-1, RINGBUF_VDEC_COUNT-1), whatever
\* the reader does and however often FrameSave drops a frame.
UnreadIntact ==
  \A k \in 1 .. Len(unread) :
    /\ unread[k] = Index(FrameOf(k) - 1)
    /\ slot[unread[k]] = FrameOf(k)

\* The writer has begun to overwrite the slot the reader took.
Lapped == begun >= frame + Slots

\* A reader that the writer has not lapped works on one frame: metadata and
\* image come from the frame whose index it took.  The index is used without
\* a lock (pd.cpp:6794-6850), so this is all the protection there is: a
\* reader that took the oldest of Slots - 1 queued frames is lapped by the
\* second frame that follows.
OneFrame ==
  /\ pc \in {"header", "body"} /\ ~Lapped => header = frame
  /\ pc = "body" /\ ~Lapped => body = frame

\* The data behind the unread indices, in the order of reading.
UnreadFrames == [k \in 1 .. Len(unread) |-> slot[unread[k]]]

Fifo == INSTANCE LossyFifo WITH
  Readers <- {"reader"}, count <- Slots - 1, written <- counter,
  unread <- [r \in {"reader"} |-> UnreadFrames], got <- [r \in {"reader"} |-> frame]

\* Ring and queue of indices together are one lossy queue of frames: seen
\* through the indices, the buffers change only by a whole frame that comes
\* in at the end, by the oldest one that is taken, or lost when Slots - 1
\* wait.  No copy into a buffer, complete, under way or given up, is seen by
\* the reader before its index is (pd.cpp:1811-1910, 2425-2451).
FramesInOrder == Fifo!Spec

=============================================================================
