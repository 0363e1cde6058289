----------------------------- MODULE FrameGate -----------------------------
(***************************************************************************)
(* The way of an H.264 frame through mpp_vpss_FrameSave and mpp_vpss_Vdec  *)
(* of pd/pd.cpp.  The camera board sends either all channels at 480p (the  *)
(* split view) or one channel at 720p (a single view) and says which in    *)
(* every frame.  FrameSave copies a frame, follows a change of resolution  *)
(* in the global H264_RESOL, and lets the frames of a channel through only *)
(* after two I frames, asking the board for one as long as it gets others. *)
(* Vdec takes the frames that were let through and picks the decoder, and  *)
(* the length it sends, by H264_RESOL as it is at that moment.             *)
(*                                                                         *)
(* External: the camera board, and the decoder, of which only the time it  *)
(* takes matters here.  ringque_MIDDLE is a queue that drops its oldest    *)
(* frame when full, as RingQueue and SlotRing show it to be.               *)
(***************************************************************************)
EXTENDS Integers, Sequences, SequencesExt

CONSTANTS
  Channels,  \* the camera channels, four in the code
  Queue,     \* capacity of ringque_MIDDLE
  NoFrame    \* Vdec holds no frame

ASSUME FrameGateAssumption ==
  /\ Queue \in Nat \ {0}
  /\ "quad" \notin Channels

VARIABLES
  view,   \* what the board shows: "quad" or a channel
  seen,   \* a frame of this view has arrived
  direct, \* history: a single view, entered from another one by this process
  keys,   \* I frames of each channel that arrived in this view, up to 2
  asked,  \* channels whose I frame FrameSave has requested
  up,     \* the process runs
  resol,  \* H264_RESOL: TRUE is RESOL_720P
  done,   \* Reset_Frame_done
  queue,  \* ringque_MIDDLE, the oldest frame first
  hand,   \* the frame Vdec works on
  chosen, \* the resolutions Vdec took for the decoder and for the length
  pc      \* where Vdec stands

board == <<view, seen, direct>>
save == <<keys, asked, resol, done>>
vdec == <<hand, chosen, pc>>
vars == <<board, save, up, queue, vdec>>

Views == {"quad"} \cup Channels

Shown(c) == view \in {"quad", c}

\* A single view is sent at 720p.
HD == view # "quad"

AtMostTwo(n) == IF n > 2 THEN 2 ELSE n

ProcessStart ==
  /\ up' = TRUE
  /\ direct' = FALSE
  /\ resol' = FALSE
  /\ done' = [c \in Channels |-> 0]
  /\ keys' = [c \in Channels |-> 0]
  /\ asked' = {}
  /\ queue' = <<>>
  /\ hand' = NoFrame
  /\ chosen' = <<>>
  /\ pc' = "read"

Init ==
  /\ view \in Views
  /\ seen = FALSE
  /\ direct = FALSE
  /\ up = TRUE
  /\ resol = FALSE
  /\ done = [c \in Channels |-> 0]
  /\ keys = [c \in Channels |-> 0]
  /\ asked = {}
  /\ queue = <<>>
  /\ hand = NoFrame
  /\ chosen = <<>>
  /\ pc = "read"

-----------------------------------------------------------------------------
(***************************************************************************)
(* The board.                                                              *)
(***************************************************************************)
\* A view lasts until FrameSave has seen a frame of it.
Switch(v) ==
  /\ v # view
  /\ seen
  /\ view' = v
  /\ direct' = ("quad" \notin {view, v})
  /\ seen' = FALSE
  /\ keys' = [c \in Channels |-> 0]
  /\ UNCHANGED <<asked, up, resol, done, queue, vdec>>

-----------------------------------------------------------------------------
(***************************************************************************)
(* mpp_vpss_FrameSave, one frame of channel c; key means an I frame.       *)
(***************************************************************************)

\* Mutant: a queue that never evicts.
EnqueueUnbounded(f) == Append(queue, f)

\* ringque_MIDDLE.Write.
Enqueue(f) == Append(IF Len(queue) = Queue THEN Tail(queue) ELSE queue, f)

\* The frame as it is forwarded.  copied is the resolution whose length memcpy
\* used.
FrameOf(c) == [hd |-> HD, copied |-> resol, keys |-> keys'[c], direct |-> direct]

\* Mutant: the frame that shows another resolution is kept.
FollowAndForward(c) ==
  /\ resol # HD
  /\ resol' = HD
  /\ done' = IF HD THEN [done EXCEPT ![c] = 0] ELSE [d \in Channels |-> 0]
  /\ queue' = Enqueue(FrameOf(c))
  /\ UNCHANGED asked

\* Mutant: a change to 480p closes the gate of one channel too.
FollowOwnGate(c) ==
  /\ resol # HD
  /\ resol' = HD
  /\ done' = [done EXCEPT ![c] = 0]
  /\ UNCHANGED <<asked, queue>>

\* The frame shows another resolution: follow it, and drop the frame.  A
\* change to 720p closes the gate of the frame's own channel only.
FollowResolution(c) ==
  /\ resol # HD
  /\ resol' = HD
  /\ done' = IF HD THEN [done EXCEPT ![c] = 0] ELSE [d \in Channels |-> 0]
  /\ UNCHANGED <<asked, queue>>

\* Mutant: nobody asks for an I frame.
WaitSilently(c, key) ==
  /\ resol = HD
  /\ done[c] < 2
  /\ key => done[c] = 0
  /\ done' = IF key THEN [done EXCEPT ![c] = @ + 1] ELSE done
  /\ UNCHANGED <<resol, asked, queue>>

\* The gate is closed and stays closed: the frame is dropped, and an I frame
\* is requested unless this was one.
WaitIFrame(c, key) ==
  /\ resol = HD
  /\ done[c] < 2
  /\ key => done[c] = 0
  /\ done' = IF key THEN [done EXCEPT ![c] = @ + 1] ELSE done
  /\ asked' = IF key THEN asked \ {c} ELSE asked \cup {c}
  /\ UNCHANGED <<resol, queue>>

\* The second I frame, and every frame after it, goes to Vdec.
Forward(c, key) ==
  /\ resol = HD
  /\ done[c] = 2 \/ (key /\ done[c] = 1)
  /\ done' = [done EXCEPT ![c] = 2]
  /\ asked' = IF key THEN asked \ {c} ELSE asked
  /\ queue' = Enqueue(FrameOf(c))
  /\ UNCHANGED resol

FrameSave(c, key) ==
  /\ up
  /\ Shown(c)
  /\ keys' = IF key THEN [keys EXCEPT ![c] = AtMostTwo(@ + 1)] ELSE keys
  /\ seen' = TRUE
  /\ FollowResolution(c) \/ WaitIFrame(c, key) \/ Forward(c, key)
  /\ UNCHANGED <<view, direct, up, vdec>>

-----------------------------------------------------------------------------
(***************************************************************************)
(* mpp_vpss_Vdec: H264_RESOL is read once for the decoder channel and      *)
(* again for the length.                                                   *)
(***************************************************************************)
VdecRead ==
  /\ pc = "read"
  /\ up
  /\ queue # <<>>
  /\ hand' = Head(queue)
  /\ queue' = Tail(queue)
  /\ pc' = "channel"
  /\ UNCHANGED <<board, save, up, chosen>>

\* Mutant: the decoders of the 480p channels for every frame.
VdecChooseLow(from, to) ==
  /\ pc = from
  /\ chosen' = Append(chosen, FALSE)
  /\ pc' = to
  /\ UNCHANGED <<board, save, up, queue, hand>>

VdecChoose(from, to) ==
  /\ pc = from
  /\ chosen' = Append(chosen, resol)
  /\ pc' = to
  /\ UNCHANGED <<board, save, up, queue, hand>>

\* SendMediaBuffer, GetMediaBuffer and the copy to dstData.
VdecSend ==
  /\ pc = "send"
  /\ hand' = NoFrame
  /\ chosen' = <<>>
  /\ pc' = "read"
  /\ UNCHANGED <<board, save, up, queue>>

Vdec ==
  \/ VdecRead
  \/ VdecChoose("channel", "size")
  \/ VdecChoose("size", "send")
  \/ VdecSend

-----------------------------------------------------------------------------
\* No decoded picture within 10 s, a missing video node, the watchdog: the
\* process kills itself, and check.sh starts it again.
Kill ==
  /\ up
  /\ up' = FALSE
  /\ pc' = "dead"
  /\ UNCHANGED <<board, save, queue, hand, chosen>>

Restart ==
  /\ ~up
  /\ ProcessStart
  /\ UNCHANGED <<view, seen>>

Next ==
  \/ \E v \in Views : Switch(v)
  \/ \E c \in Channels, key \in BOOLEAN : FrameSave(c, key)
  \/ Vdec
  \/ Kill
  \/ Restart

\* The board keeps sending ordinary frames of the channels it shows and
\* answers a request for an I frame; it need not send one by itself.  Vdec
\* runs on.
Fairness ==
  /\ \A c \in Channels :
       /\ WF_vars(FrameSave(c, FALSE))
       /\ WF_vars(c \in asked /\ FrameSave(c, TRUE))
  /\ WF_vars(Vdec)
  /\ WF_vars(Restart)

Spec == Init /\ [][Next]_vars /\ Fairness

-----------------------------------------------------------------------------
Frames == [hd : BOOLEAN, copied : BOOLEAN, keys : 0 .. 2, direct : BOOLEAN]

TypeOK ==
  /\ view \in Views
  /\ seen \in BOOLEAN
  /\ direct \in BOOLEAN
  /\ up \in BOOLEAN
  /\ resol \in BOOLEAN
  /\ done \in [Channels -> 0 .. 2]
  /\ keys \in [Channels -> 0 .. 2]
  /\ asked \subseteq Channels
  /\ queue \in Seq(Frames)
  /\ Len(queue) <= Queue
  /\ hand \in Frames \cup {NoFrame}
  /\ chosen \in Seq(BOOLEAN)
  /\ pc \in {"read", "channel", "size", "send", "dead"}

\* A frame copied with the length of the other resolution never gets to the
\* decoder: the first frame of a new resolution, which FrameSave copies by
\* the old H264_RESOL (pd.cpp:1817-1824), is always dropped (1849, 1871).
WholeFrame == \A f \in ToSet(queue) : f.copied = f.hd

\* A frame is let through only after a second I frame of its channel in the
\* view it belongs to (the comment at pd.cpp:1888), whichever views came
\* before and whichever gates they left open, with one exception: a single
\* view entered from another one.  Nothing closes a gate then, and the one
\* that is left open from the last split view lets frames through at once: the
\* change to 720p had closed the gate of its own channel only (pd.cpp:1845).
SecondIFrame == \A f \in ToSet(queue) : f.keys = 2 \/ f.direct

\* Vdec is about to send a frame to a decoder, or with a length, of the
\* other resolution.
Mismatch == pc = "send" /\ chosen # <<hand.hd, hand.hd>>

\* Frames that Vdec sends by a stale or a new H264_RESOL (pd.cpp:2300-2345)
\* come to an end once the view stops changing, however often the process
\* is killed meanwhile.
MismatchEnds == \A v \in Views : <>[](view = v) => <>[]~Mismatch

\* When the view stays and the process lives, every channel shown gets
\* through in the end: FrameSave goes on asking for I frames until it has
\* two (pd.cpp:1881-1899).
GateOpens ==
  \A v \in Views : <>[](view = v /\ up) => <>[](\A c \in Channels : Shown(c) => done[c] = 2)

=============================================================================
