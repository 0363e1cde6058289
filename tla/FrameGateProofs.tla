--------------------------- MODULE FrameGateProofs ---------------------------
(***************************************************************************)
(* Proofs about FrameGate, for any channels and any length of              *)
(* ringque_MIDDLE.                                                         *)
(***************************************************************************)
EXTENDS FrameGate, TLAPS

\* Unless this view was entered from another single view, the gate has not
\* counted an I frame that did not arrive in this view.  What it has counted of
\* an earlier view it forgets with the resolution: FrameSave has followed the
\* view it has seen a frame of, or the process is new and all gates closed.
Counts ==
  /\ resol = HD /\ ~direct => \A c \in Channels : Shown(c) => done[c] <= keys[c]
  /\ seen /\ resol # HD => \A c \in Channels : done[c] = 0

IInv ==
  /\ TypeOK
  /\ WholeFrame
  /\ Counts
  /\ SecondIFrame

LEMMA EnqueueFacts ==
  ASSUME TypeOK, NEW f \in Frames
  PROVE  /\ Enqueue(f) \in Seq(Frames)
         /\ Len(Enqueue(f)) <= Queue
         /\ ToSet(Enqueue(f)) \subseteq ToSet(queue) \cup {f}
BY FrameGateAssumption DEF TypeOK, Enqueue, ToSet

LEMMA InitIInv == Init => IInv
<1> SUFFICES ASSUME Init PROVE IInv
  OBVIOUS
<1>1. TypeOK
  <2>1. seen \in BOOLEAN /\ direct \in BOOLEAN /\ up \in BOOLEAN /\ resol \in BOOLEAN
    BY Zenon DEF Init
  <2>2. done \in [Channels -> 0 .. 2] /\ keys \in [Channels -> 0 .. 2]
    BY DEF Init
  <2>3. queue \in Seq(Frames) /\ Len(queue) <= Queue /\ chosen \in Seq(BOOLEAN)
    BY FrameGateAssumption DEF Init
  <2>4. view \in Views /\ asked \subseteq Channels /\ hand = NoFrame /\ pc = "read"
    BY DEF Init
  <2> QED BY <2>1, <2>2, <2>3, <2>4 DEF TypeOK
<1>2. WholeFrame /\ SecondIFrame
  BY DEF Init, WholeFrame, SecondIFrame, ToSet
<1>3. Counts
  BY DEF Init, Counts
<1> QED BY <1>1, <1>2, <1>3 DEF IInv

\* If the view is not changed for another of the same resolution, the next
\* frame shows the other resolution, unless the process has forgotten all
\* anyway.
LEMMA SwitchKeeps ==
  ASSUME IInv, NEW v \in Views, Switch(v)
  PROVE  IInv'
<1> USE DEF IInv
<1>1. TypeOK'
  <2>1. view' = v /\ keys' \in [Channels -> 0 .. 2]
    BY DEF Switch
  <2>3. seen' \in BOOLEAN /\ direct' \in BOOLEAN
    BY Zenon DEF Switch
  <2>2. UNCHANGED <<asked, up, resol, done, queue, hand, chosen, pc>>
    BY DEF Switch, vdec
  <2> QED BY <2>1, <2>2, <2>3 DEF TypeOK
<1>2. WholeFrame' /\ SecondIFrame'
  BY DEF Switch, WholeFrame, SecondIFrame
<1>3. Counts'
  <2>1. ~direct' => HD' # HD
    BY DEF Switch, HD
  <2>2. resol \in BOOLEAN /\ HD \in BOOLEAN /\ HD' \in BOOLEAN
    BY DEF TypeOK, HD
  <2>3. resol = HD' /\ ~direct' => resol # HD
    BY <2>1
  <2>4. resol = HD' /\ ~direct' => \A c \in Channels : done[c] = 0 /\ keys'[c] = 0
    BY <2>3 DEF Counts, Switch
  <2>5. resol' = resol /\ done' = done /\ ~seen'
    BY DEF Switch
  <2> QED BY <2>4, <2>5 DEF Counts
<1> QED BY <1>1, <1>2, <1>3

LEMMA FrameSaveKeeps ==
  ASSUME IInv, NEW c \in Channels, NEW key \in BOOLEAN,
         FrameSave(c, key)
  PROVE  IInv'
<1> USE DEF IInv
<1> DEFINE f == FrameOf(c)
<1>1. /\ Shown(c) /\ seen' = TRUE
      /\ UNCHANGED <<view, direct, up, hand, chosen, pc>>
  BY DEF FrameSave, vdec
<1>2. HD' = HD /\ \A d \in Channels : Shown(d)' = Shown(d)
  BY <1>1 DEF HD, Shown
<1>3. resol \in BOOLEAN /\ HD \in BOOLEAN
  BY DEF TypeOK, HD
<1>4. /\ keys' \in [Channels -> 0 .. 2]
      /\ \A d \in Channels : keys[d] <= keys'[d]
      /\ key => keys'[c] = 2 \/ keys'[c] = keys[c] + 1
  BY DEF FrameSave, TypeOK, AtMostTwo
<1>5. CASE FollowResolution(c)
  <2>1. resol' = HD /\ UNCHANGED <<asked, queue>> /\ done' \in [Channels -> 0 .. 2]
    BY <1>5 DEF FollowResolution, TypeOK
  <2>2. \A d \in Channels : Shown(d) => done'[d] = 0
    <3>1. CASE HD
      <4>1. \A d \in Channels : Shown(d) => d = c
        BY <1>1, <3>1 DEF HD, Shown
      <4> QED BY <1>5, <3>1, <4>1 DEF FollowResolution, TypeOK
    <3>2. CASE ~HD
      BY <1>5, <3>2 DEF FollowResolution
    <3> QED BY <3>1, <3>2
  <2>3. TypeOK'
    BY <1>1, <1>3, <1>4, <2>1 DEF TypeOK
  <2>4. WholeFrame' /\ SecondIFrame'
    BY <2>1 DEF WholeFrame, SecondIFrame
  <2>5. Counts'
    <3>1. \A d \in Channels : Shown(d)' => done'[d] <= keys'[d]
      BY <1>2, <1>4, <2>2
    <3> QED BY <1>2, <2>1, <3>1 DEF Counts
  <2> QED BY <2>3, <2>4, <2>5
<1>6. CASE WaitIFrame(c, key) \/ Forward(c, key)
  <2>1. resol = HD /\ resol' = resol /\ asked' \subseteq Channels
    BY <1>6 DEF WaitIFrame, Forward, TypeOK
  <2>2. ~direct => \A d \in Channels : Shown(d) => done[d] <= keys[d]
    BY <2>1 DEF Counts
  <2>3. /\ done' \in [Channels -> 0 .. 2]
        /\ \A d \in Channels : d # c => done'[d] = done[d]
        /\ done'[c] = done[c] \/ (key /\ done'[c] = done[c] + 1)
    BY <1>6 DEF WaitIFrame, Forward, TypeOK
  <2>4. ~direct => \A d \in Channels : Shown(d) => done'[d] <= keys'[d]
    <3>1. \A d \in Channels : done[d] \in 0 .. 2 /\ keys[d] \in 0 .. 2 /\ done'[d] \in 0 .. 2 /\ keys'[d] \in 0 .. 2
      BY <1>4, <2>3 DEF TypeOK
    <3> QED BY <1>4, <2>2, <2>3, <3>1
  <2>5. Counts'
    BY <1>1, <1>2, <2>1, <2>4 DEF Counts
  <2>6. /\ queue' \in Seq(Frames) /\ Len(queue') <= Queue
        /\ ToSet(queue') \subseteq ToSet(queue) \cup {f}
    <3>1. f \in Frames
      BY <1>3, <1>4 DEF Frames, FrameOf, TypeOK
    <3>2. CASE Forward(c, key)
      BY <3>1, <3>2, EnqueueFacts DEF Forward
    <3>3. CASE WaitIFrame(c, key)
      BY <3>3 DEF WaitIFrame, TypeOK
    <3> QED BY <1>6, <3>2, <3>3
  <2>7. TypeOK'
    BY <1>1, <1>4, <2>1, <2>3, <2>6 DEF TypeOK
  <2>8. WholeFrame'
    BY <2>1, <2>6 DEF WholeFrame, FrameOf
  <2>9. SecondIFrame'
    <3>1. CASE Forward(c, key)
      <4>1. done'[c] = 2
        BY <3>1 DEF Forward, TypeOK
      <4>2. f.keys = 2 \/ f.direct
        BY <1>1, <1>4, <2>4, <4>1 DEF FrameOf
      <4> QED BY <2>6, <4>2 DEF SecondIFrame
    <3>2. CASE WaitIFrame(c, key)
      BY <3>2 DEF WaitIFrame, SecondIFrame
    <3> QED BY <1>6, <3>1, <3>2
  <2> QED BY <2>5, <2>7, <2>8, <2>9
<1> QED BY <1>5, <1>6 DEF FrameSave

LEMMA OtherKeeps ==
  ASSUME IInv, Vdec \/ Kill \/ Restart \/ UNCHANGED vars
  PROVE  IInv'
<1> USE DEF IInv
<1>1. CASE Restart
  <2>1. TypeOK'
    <3>1. up' \in BOOLEAN /\ resol' \in BOOLEAN /\ direct' \in BOOLEAN
      BY <1>1, Zenon DEF Restart, ProcessStart
    <3>2. done' \in [Channels -> 0 .. 2] /\ keys' \in [Channels -> 0 .. 2]
      BY <1>1 DEF Restart, ProcessStart
    <3>3. queue' \in Seq(Frames) /\ Len(queue') <= Queue /\ chosen' \in Seq(BOOLEAN)
      BY <1>1, FrameGateAssumption DEF Restart, ProcessStart
    <3>4. UNCHANGED <<view, seen>> /\ asked' = {} /\ hand' = NoFrame /\ pc' = "read"
      BY <1>1 DEF Restart, ProcessStart
    <3> QED BY <3>1, <3>2, <3>3, <3>4 DEF TypeOK
  <2>2. WholeFrame' /\ SecondIFrame' /\ Counts'
    BY <1>1 DEF Restart, ProcessStart, WholeFrame, SecondIFrame, ToSet, Counts
  <2> QED BY <2>1, <2>2
<1>2. CASE Vdec \/ Kill \/ UNCHANGED vars
  <2>1. UNCHANGED <<view, seen, direct, keys, asked, resol, done>>
    BY <1>2 DEF Vdec, VdecRead, VdecChoose, VdecSend, Kill, vars, board, save
  <2>2. Counts'
    BY <2>1 DEF Counts, HD, Shown
  <2>3. queue' = queue \/ (queue # <<>> /\ queue' = Tail(queue) /\ hand' = Head(queue))
    BY <1>2 DEF Vdec, VdecRead, VdecChoose, VdecSend, Kill, vars
  <2>4. /\ queue' \in Seq(Frames) /\ Len(queue') <= Queue
        /\ ToSet(queue') \subseteq ToSet(queue)
    <3>1. CASE queue' = queue
      BY <3>1 DEF TypeOK
    <3>2. CASE queue # <<>> /\ queue' = Tail(queue)
      <4>1. queue \in Seq(Frames) /\ Len(queue) \in Nat /\ Len(queue) > 0 /\ Len(queue) <= Queue
        BY <3>2 DEF TypeOK
      <4>2. /\ queue' \in Seq(Frames) /\ Len(queue') = Len(queue) - 1
            /\ \A i \in 1 .. Len(queue) - 1 : queue'[i] = queue[i + 1]
        BY <3>2, <4>1
      <4>3. Len(queue') <= Queue
        BY <4>1, <4>2, FrameGateAssumption
      <4> QED BY <4>1, <4>2, <4>3 DEF ToSet
    <3> QED BY <2>3, <3>1, <3>2
  <2>5. WholeFrame' /\ SecondIFrame'
    BY <2>4 DEF WholeFrame, SecondIFrame
  <2> DEFINE VdecTyped ==
        /\ hand \in Frames \cup {NoFrame} /\ chosen \in Seq(BOOLEAN) /\ up \in BOOLEAN
        /\ pc \in {"read", "channel", "size", "send", "dead"}
  <2>6. VdecTyped'
    <3>1. CASE VdecRead
      BY <3>1 DEF VdecRead, TypeOK
    <3>2. ASSUME NEW from, NEW to \in {"size", "send"}, VdecChoose(from, to)
          PROVE  VdecTyped'
      BY <3>2 DEF VdecChoose, TypeOK
    <3>3. CASE VdecSend
      BY <3>3 DEF VdecSend, TypeOK
    <3>4. CASE Kill
      <4>1. up' \in BOOLEAN
        BY <3>4, Zenon DEF Kill
      <4> QED BY <3>4, <4>1 DEF Kill, TypeOK
    <3>5. CASE UNCHANGED vars
      BY <3>5 DEF vars, vdec, TypeOK
    <3> QED BY <1>2, <3>1, <3>2, <3>3, <3>4, <3>5 DEF Vdec
  <2>7. TypeOK'
    BY <2>1, <2>4, <2>6 DEF TypeOK
  <2> QED BY <2>2, <2>5, <2>7
<1> QED BY <1>1, <1>2

LEMMA SpecIInv == Spec => []IInv
<1>1. IInv /\ [Next]_vars => IInv'
  BY SwitchKeeps, FrameSaveKeeps, OtherKeeps DEF Next
<1> QED BY <1>1, InitIInv, PTL DEF Spec

\* Type correctness of the filter: ringque_MIDDLE holds no more frames than
\* its length, and no gate counts beyond two.
THEOREM TypeCorrect == Spec => []TypeOK
<1>1. IInv => TypeOK
  BY DEF IInv
<1> QED BY <1>1, SpecIInv, PTL

\* A frame copied with the length of the other resolution is never let
\* through (pd.cpp:1817-1824, 1849, 1871), however the view is switched.
THEOREM WholeFrameSafe == Spec => []WholeFrame
<1>1. IInv => WholeFrame
  BY DEF IInv
<1> QED BY <1>1, SpecIInv, PTL

\* What mpp_vpss_FrameSave lets through came after a second I frame of its
\* channel in the view it belongs to (pd.cpp:1888), for any channels, any
\* kills and any switches of the view before, unless that view is a single one
\* that was entered from another: the split view closes every gate, a single
\* view only its own (pd.cpp:1845, 1865-1868).
THEOREM SecondIFrameSafe == Spec => []SecondIFrame
<1>1. IInv => SecondIFrame
  BY DEF IInv
<1> QED BY <1>1, SpecIInv, PTL

=============================================================================
