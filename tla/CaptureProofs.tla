--------------------------- MODULE CaptureProofs ---------------------------
(***************************************************************************)
(* Proofs about Capture, for any number of buffers, of which the driver    *)
(* may have got any, and of frames.  The buffers take turns: the invariant *)
(* says whose turn it is and which frame each buffer holds until then.     *)
(***************************************************************************)
EXTENDS Capture, SequenceTheorems, TLAPS

\* 1 if GetAlgFrame has a buffer that the driver has not got back, or has
\* returned with it.
InHand ==
  IF \/ thread \in {"announce", "requeue"}
     \/ thread = "returned" /\ Len(queued) + Len(filled) < given
  THEN 1 ELSE 0

\* The number of frames that have been filled.
Completed == IF filling THEN begun - 1 ELSE begun

\* The buffer that is filled k frames from now, if all of them are given back
\* in time: the queued ones, the one in hand, the filled ones.
Turn(k) ==
  IF k <= Len(queued) THEN queued[k]
  ELSE IF k <= Len(queued) + InHand THEN index
  ELSE filled[k - Len(queued) - InHand]

\* Until its turn comes a buffer holds the frame of its last turn.
Ring ==
  /\ Len(queued) + InHand + Len(filled) = given
  /\ filling => queued # <<>> /\ begun > 0
  /\ \A k, l \in 1 .. given : Turn(k) = Turn(l) => k = l
  /\ \A k \in 1 .. given : Completed + k > given /\ ~(filling /\ k = 1) =>
       buffer[Turn(k)] = Completed + k - given

\* All frames taken out have been announced, but for the one in hand.
Counted == announced = Completed - Len(filled) - (IF thread = "announce" THEN 1 ELSE 0)

\* Unless its next turn has passed, frame f is to be looked for in buffer b.
BufferOf(b, f) == \A k \in 1 .. given : k = f + given - Completed => b = Turn(k)

UnreadKnown ==
  /\ Len(unread) <= announced
  /\ \A k \in 1 .. Len(unread) : BufferOf(unread[k], FrameOf(k))

SourceKnown == pc # "read" =>
  /\ frame \in 1 .. announced
  /\ BufferOf(source, frame)

IInv == TypeOK /\ Ring /\ Counted /\ UnreadKnown /\ SourceKnown /\ CopyOfOneFrame

-----------------------------------------------------------------------------
LEMMA InHandType == InHand \in {0, 1}
BY DEF InHand

LEMMA Lengths ==
  ASSUME TypeOK
  PROVE  Len(queued) \in Nat /\ Len(filled) \in Nat /\ given \in Nat
BY CaptureAssumption DEF TypeOK

\* The turns up to the number of buffers are buffers.
LEMMA TurnType ==
  ASSUME TypeOK, Ring, NEW k \in 1 .. given
  PROVE  Turn(k) \in Buffer
<1>1. CASE k <= Len(queued)
  BY <1>1 DEF TypeOK, Turn
<1>2. CASE k > Len(queued) /\ k <= Len(queued) + InHand
  BY <1>2, InHandType DEF TypeOK, Turn
<1>3. CASE k > Len(queued) /\ k > Len(queued) + InHand
  <2>1. k - Len(queued) - InHand \in 1 .. Len(filled)
    BY <1>3, InHandType DEF TypeOK, Ring
  <2> QED BY <1>3, <2>1, InHandType DEF TypeOK, Turn
<1> QED BY <1>1, <1>2, <1>3, InHandType DEF TypeOK

LEMMA CompletedType ==
  ASSUME TypeOK, Ring
  PROVE  Completed \in 0 .. MaxFrames /\ Completed <= begun
BY CaptureAssumption DEF TypeOK, Ring, Completed

LEMMA AnnouncedCompleted ==
  ASSUME TypeOK, Ring, Counted
  PROVE  announced <= Completed
BY CompletedType, CaptureAssumption DEF TypeOK, Counted

\* What an action leaves of the ring that moves no turn and fills no buffer.
LEMMA SameTurns ==
  ASSUME TypeOK, Ring, Counted, UnreadKnown, SourceKnown,
         UNCHANGED <<given, filling, begun, buffer>>,
         filling => queued' # <<>>,
         Len(queued') + InHand' + Len(filled') = given,
         \A k \in 1 .. given : Turn(k)' = Turn(k)
  PROVE  /\ Ring'
         /\ Completed' = Completed
         /\ \A b \in Buffer, f \in 1 .. announced : BufferOf(b, f) => BufferOf(b, f)'
<1>1. Completed' = Completed
  BY DEF Completed
<1>2. Ring'
  BY <1>1 DEF Ring
<1>3. \A b \in Buffer, f \in 1 .. announced : BufferOf(b, f) => BufferOf(b, f)'
  BY <1>1 DEF BufferOf
<1> QED BY <1>1, <1>2, <1>3

\* Taking a buffer out, announcing it, giving it back and returning with or
\* without it move no turn.
LEMMA DequeueTurns ==
  ASSUME TypeOK, Ring, Dequeue
  PROVE  /\ Len(queued') + InHand' + Len(filled') = given
         /\ \A k \in 1 .. given : Turn(k)' = Turn(k)
<1>1. InHand = 0 /\ InHand' = 1
  BY DEF Dequeue, InHand
<1>2. filled \in Seq(Buffer) /\ Len(filled) >= 1 /\ Len(filled') = Len(filled) - 1
  BY DEF TypeOK, Dequeue
<1>3. Head(filled) = filled[1]
      /\ \A i \in 1 .. Len(filled) - 1 : filled'[i] = filled[i + 1]
  BY <1>2 DEF Dequeue
<1>4. ASSUME NEW k \in 1 .. given
      PROVE  Turn(k)' = Turn(k)
  <2>1. CASE k <= Len(queued)
    BY <2>1, <1>1 DEF Turn, Dequeue
  <2>2. CASE k = Len(queued) + 1
    BY <2>2, <1>1, <1>3 DEF Turn, Dequeue, TypeOK
  <2>3. CASE k > Len(queued) + 1
    <3>1. k - Len(queued) - 1 \in 1 .. Len(filled) - 1
      BY <2>3, <1>1, <1>2 DEF Ring, TypeOK
    <3>2. filled'[k - Len(queued) - 1] = filled[k - Len(queued)]
      BY <3>1, <1>3 DEF TypeOK
    <3>3. ~(k <= Len(queued)) /\ ~(k <= Len(queued) + 0) /\ ~(k <= Len(queued) + 1)
          /\ k - Len(queued) - 0 = k - Len(queued)
      BY <2>3, Lengths
    <3>4. queued' = queued
      BY DEF Dequeue
    <3> QED BY <3>2, <3>3, <3>4, <1>1 DEF Turn
  <2> QED BY <2>1, <2>2, <2>3 DEF TypeOK
<1>5. Len(queued') + InHand' + Len(filled') = given
  <2>1. Len(queued) + InHand + Len(filled) = given /\ queued' = queued
    BY DEF Ring, Dequeue
  <2> QED BY <2>1, <1>1, <1>2, Lengths
<1> QED BY <1>4, <1>5

LEMMA RequeueTurns ==
  ASSUME TypeOK, Ring, Requeue
  PROVE  /\ Len(queued') + InHand' + Len(filled') = given
         /\ \A k \in 1 .. given : Turn(k)' = Turn(k)
<1>1. InHand = 1 /\ InHand' = 0
  BY DEF Requeue, InHand
<1>2. queued \in Seq(Buffer) /\ Len(queued') = Len(queued) + 1
  BY DEF TypeOK, Requeue
<1>3. queued'[Len(queued) + 1] = index /\ \A i \in 1 .. Len(queued) : queued'[i] = queued[i]
  BY <1>2 DEF Requeue, TypeOK
<1>4. ASSUME NEW k \in 1 .. given
      PROVE  Turn(k)' = Turn(k)
  <2>1. CASE k <= Len(queued)
    BY <2>1, <1>1, <1>2, <1>3 DEF Turn, TypeOK
  <2>2. CASE k = Len(queued) + 1
    BY <2>2, <1>1, <1>2, <1>3 DEF Turn, TypeOK
  <2>3. CASE k > Len(queued) + 1
    BY <2>3, <1>1, <1>2 DEF Turn, Requeue, TypeOK
  <2> QED BY <2>1, <2>2, <2>3 DEF TypeOK
<1> QED BY <1>1, <1>2, <1>4 DEF Ring, Requeue, TypeOK

LEMMA OtherTurns ==
  ASSUME TypeOK, Ring, Announce \/ Return \/ UNCHANGED <<driver, thread, index>>
  PROVE  /\ Len(queued') + InHand' + Len(filled') = given
         /\ \A k \in 1 .. given : Turn(k)' = Turn(k)
<1>1. InHand' = InHand
  BY DEF Announce, Return, InHand, Ring, TypeOK, driver
<1> QED BY <1>1 DEF Announce, Return, Ring, Turn, driver

\* A buffer that has been filled goes from the first place to the last one.
LEMMA EndFillTurns ==
  ASSUME TypeOK, Ring, EndFill
  PROVE  /\ given >= 1
         /\ Len(queued') + InHand' + Len(filled') = given
         /\ Turn(1) = Head(queued)
         /\ \A k \in 1 .. given : k = given => Turn(k)' = Head(queued)
         /\ \A k, l \in 1 .. given : l = k + 1 => Turn(k)' = Turn(l)
         /\ Completed' = Completed + 1
<1>1. Len(queued) >= 1 /\ Len(queued') = Len(queued) - 1
      /\ Len(filled') = Len(filled) + 1
  BY DEF TypeOK, Ring, EndFill
<1>2. InHand' = InHand
  <2>1. Len(queued') + Len(filled') = Len(queued) + Len(filled)
    BY <1>1, Lengths
  <2>2. thread' = thread /\ given' = given
    BY DEF EndFill, capture
  <2> QED BY <2>1, <2>2 DEF InHand
<1>3. Head(queued) = queued[1]
      /\ (\A i \in 1 .. Len(queued) - 1 : queued'[i] = queued[i + 1])
      /\ (\A i \in 1 .. Len(filled) : filled'[i] = filled[i])
      /\ filled'[Len(filled) + 1] = Head(queued)
  BY <1>1 DEF EndFill, TypeOK
<1>4. given >= 1 /\ Len(queued') + InHand' + Len(filled') = given
  <2>1. Len(queued) + InHand + Len(filled) = given
    BY DEF Ring
  <2> QED BY <2>1, <1>1, <1>2, InHandType, Lengths
<1>5. Turn(1) = Head(queued)
  BY <1>1, <1>3 DEF Turn
<1>6. ASSUME NEW k \in 1 .. given, k = given
      PROVE  Turn(k)' = Head(queued)
  <2>1. k = Len(queued') + InHand' + Len(filled) + 1
    BY <1>6, <1>4, <1>1, <1>2, InHandType, Lengths
  <2>2. ~(k <= Len(queued')) /\ ~(k <= Len(queued') + InHand')
    BY <2>1, <1>1, <1>2, InHandType, Lengths
  <2>3. k - Len(queued') - InHand' = Len(filled) + 1
    BY <2>1, <1>1, <1>2, InHandType, Lengths
  <2> QED BY <2>2, <2>3, <1>3 DEF Turn
<1>7. ASSUME NEW k \in 1 .. given, NEW l \in 1 .. given, l = k + 1
      PROVE  Turn(k)' = Turn(l)
  <2>1. CASE l <= Len(queued)
    BY <2>1, <1>1, <1>3, <1>7 DEF Turn, TypeOK
  <2>2. CASE l > Len(queued) /\ l <= Len(queued) + InHand
    <3>1. index' = index
      BY DEF EndFill, capture
    <3> QED BY <2>2, <3>1, <1>1, <1>2, <1>7, InHandType DEF Turn, TypeOK
  <2>3. CASE l > Len(queued) /\ l > Len(queued) + InHand
    <3>1. l - Len(queued) - InHand \in 1 .. Len(filled)
      BY <2>3, InHandType DEF Ring, TypeOK
    <3>2. k - Len(queued') - InHand' = l - Len(queued) - InHand
      BY <1>7, <1>1, <1>2, InHandType, Lengths
    <3>3. ~(k <= Len(queued')) /\ ~(k <= Len(queued') + InHand')
      BY <1>7, <2>3, <1>1, <1>2, InHandType DEF TypeOK
    <3>4. filled'[l - Len(queued) - InHand] = filled[l - Len(queued) - InHand]
      BY <3>1, <1>3
    <3>5. ~(l <= Len(queued)) /\ ~(l <= Len(queued) + InHand)
      BY <2>3, InHandType, Lengths
    <3>6. Turn(k)' = filled'[k - Len(queued') - InHand']
      BY <3>3 DEF Turn
    <3>7. Turn(l) = filled[l - Len(queued) - InHand]
      BY <3>5 DEF Turn
    <3> QED BY <3>2, <3>4, <3>6, <3>7
  <2> QED BY <2>1, <2>2, <2>3, InHandType DEF TypeOK
<1>8. Completed' = Completed + 1
  BY DEF EndFill, Completed, TypeOK
<1> QED BY <1>4, <1>5, <1>6, <1>7, <1>8

-----------------------------------------------------------------------------
(***************************************************************************)
(* The invariant holds at first and each action keeps it.                  *)
(***************************************************************************)
LEMMA InitIInv == Init => IInv
<1> SUFFICES ASSUME Init PROVE IInv
  OBVIOUS
<1>1. PICK n \in 0 .. BufNum :
        /\ queued \in [1 .. n -> Buffer]
        /\ \A i, j \in 1 .. n : i < j => queued[i] < queued[j]
  BY DEF Init, Ascending
<1>2. queued \in Seq(Buffer) /\ Len(queued) = n
  BY <1>1, CaptureAssumption
<1>3. TypeOK
  BY <1>2, CaptureAssumption DEF Init, TypeOK, Buffer, Contents, Torn, Capacity
<1>4. InHand = 0 /\ Completed = 0 /\ given = n /\ Len(filled) = 0
  BY <1>2 DEF Init, InHand, Completed
<1>5. Ring
  <2>1. \A k \in 1 .. given : Turn(k) = queued[k]
    BY <1>2, <1>4 DEF Turn
  <2>2. \A k, l \in 1 .. given : Turn(k) = Turn(l) => k = l
    <3> SUFFICES ASSUME NEW k \in 1 .. given, NEW l \in 1 .. given, queued[k] = queued[l]
                 PROVE  k = l
      BY <2>1
    <3>1. queued[k] \in Int /\ queued[l] \in Int
      BY <1>1, <1>4, CaptureAssumption DEF Buffer
    <3> QED BY <3>1, <1>1, <1>4
  <2>3. \A k \in 1 .. given : ~(Completed + k > given)
    BY <1>4
  <2>4. Len(queued) + InHand + Len(filled) = given
    BY <1>2, <1>4
  <2>5. ~filling
    BY DEF Init
  <2> QED BY <2>2, <2>3, <2>4, <2>5 DEF Ring
<1>6. Counted
  <2>1. announced = 0 /\ thread # "announce"
    BY DEF Init
  <2>2. Completed - Len(filled) - 0 = 0
    BY <1>4
  <2> QED BY <2>1, <2>2 DEF Counted
<1>7. UnreadKnown /\ SourceKnown /\ CopyOfOneFrame
  BY DEF Init, UnreadKnown, SourceKnown, CopyOfOneFrame
<1> QED BY <1>3, <1>5, <1>6, <1>7 DEF IInv

\* What is known of the announced frames lasts as long as they are announced.
LEMMA UnreadKept ==
  ASSUME TypeOK, UnreadKnown, UNCHANGED <<unread, announced>>,
         \A b \in Buffer, f \in 1 .. announced : BufferOf(b, f) => BufferOf(b, f)'
  PROVE  UnreadKnown'
<1> SUFFICES ASSUME NEW k \in 1 .. Len(unread) PROVE BufferOf(unread[k], FrameOf(k))'
  BY DEF UnreadKnown
<1>1. unread[k] \in Buffer /\ FrameOf(k) \in 1 .. announced
  BY CaptureAssumption DEF TypeOK, UnreadKnown, FrameOf
<1>2. PICK b \in Buffer, f \in 1 .. announced : b = unread[k] /\ f = FrameOf(k)
  BY <1>1
<1>3. BufferOf(b, f)'
  BY <1>2 DEF UnreadKnown
<1> QED BY <1>2, <1>3 DEF BufferOf, FrameOf

LEMMA SourceKept ==
  ASSUME TypeOK, SourceKnown, UNCHANGED <<source, frame>>, pc' # "read" => pc # "read",
         announced' \in Nat, announced' >= announced,
         \A b \in Buffer, f \in 1 .. announced : BufferOf(b, f) => BufferOf(b, f)'
  PROVE  SourceKnown'
<1> SUFFICES ASSUME pc # "read" PROVE frame' \in 1 .. announced' /\ BufferOf(source, frame)'
  BY DEF SourceKnown
<1>1. PICK b \in Buffer, f \in 1 .. announced : b = source /\ f = frame
  BY DEF SourceKnown, TypeOK
<1>2. BufferOf(b, f)'
  BY <1>1 DEF SourceKnown
<1>3. frame' \in 1 .. announced'
  BY <1>1, CaptureAssumption DEF TypeOK
<1> QED BY <1>1, <1>2, <1>3 DEF BufferOf

LEMMA BeginFillIInv == IInv /\ BeginFill => IInv'
<1> SUFFICES ASSUME IInv, BeginFill PROVE IInv'
  OBVIOUS
<1> USE CaptureAssumption DEF IInv
<1>1. Len(queued) >= 1 /\ Head(queued) = queued[1] /\ Head(queued) \in Buffer
  BY DEF BeginFill, TypeOK
<1>2. UNCHANGED <<queued, filled, given, thread, index, unread, announced, pc, source, frame, copy>>
  BY DEF BeginFill, capture, save
<1>3. TypeOK'
  BY <1>1, <1>2 DEF BeginFill, TypeOK, Contents, Torn
<1>4. InHand' = InHand /\ Completed' = Completed
  BY <1>2 DEF InHand, Completed, BeginFill, TypeOK
<1>5. \A k \in 1 .. given : Turn(k)' = Turn(k)
  BY <1>2, <1>4 DEF Turn
<1>6. given >= 1 /\ Turn(1) = Head(queued)
  BY <1>1, InHandType, Lengths DEF Ring, Turn
<1>7. Ring'
  <2>1. (Len(queued) + InHand + Len(filled) = given)'
    BY <1>2, <1>4 DEF Ring
  <2>2. queued' # <<>> /\ begun' > 0
    BY <1>2 DEF BeginFill, TypeOK
  <2>3. (\A k, l \in 1 .. given : Turn(k) = Turn(l) => k = l)'
    BY <1>2, <1>5 DEF Ring
  <2>4. ASSUME NEW k \in 1 .. given, Completed + k > given, k # 1
        PROVE  buffer'[Turn(k)] = Completed + k - given
    <3>1. Turn(k) # Head(queued)
      BY <1>6, <2>4 DEF Ring, TypeOK
    <3>2. Turn(k) \in Buffer
      BY TurnType
    <3>3. buffer[Turn(k)] = Completed + k - given
      BY <2>4 DEF Ring
    <3> QED BY <3>1, <3>2, <3>3 DEF BeginFill, TypeOK
  <2>5. filling'
    BY DEF BeginFill
  <2>6. (\A k \in 1 .. given : Completed + k > given /\ ~(filling /\ k = 1) =>
          buffer[Turn(k)] = Completed + k - given)'
    BY <2>4, <2>5, <1>2, <1>4, <1>5
  <2> QED BY <2>1, <2>2, <2>3, <2>6 DEF Ring
<1>8. Counted'
  BY <1>2, <1>4 DEF Counted
<1>9. UnreadKnown' /\ SourceKnown'
  BY <1>2, <1>4, <1>5 DEF UnreadKnown, SourceKnown, BufferOf, FrameOf
<1>10. CopyOfOneFrame'
  BY <1>2 DEF CopyOfOneFrame, Overwritten, BeginFill, TypeOK
<1> QED BY <1>3, <1>7, <1>8, <1>9, <1>10

LEMMA EndFillIInv == IInv /\ EndFill => IInv'
<1> SUFFICES ASSUME IInv, EndFill PROVE IInv'
  OBVIOUS
<1> USE CaptureAssumption DEF IInv
<1>1. Len(queued) >= 1 /\ Head(queued) = queued[1] /\ Head(queued) \in Buffer
  BY DEF EndFill, TypeOK, Ring
<1>2. UNCHANGED <<begun, given, thread, index, unread, announced, pc, source, frame, copy>>
  BY DEF EndFill, capture, save
<1>3. TypeOK'
  <2>1. queued' \in Seq(Buffer) /\ filled' \in Seq(Buffer)
    BY <1>1 DEF EndFill, TypeOK
  <2>2. Len(queued') <= BufNum /\ Len(filled') <= BufNum
    <3>1. given' \in 0 .. BufNum /\ Len(queued') + InHand' + Len(filled') = given'
      BY <1>2, EndFillTurns DEF TypeOK
    <3>2. InHand' \in {0, 1}
      BY DEF InHand
    <3> QED BY <2>1, <3>1, <3>2
  <2> QED BY <1>1, <1>2, <2>1, <2>2 DEF EndFill, TypeOK, Contents, Torn
<1>4. Ring'
  <2>1. (Len(queued) + InHand + Len(filled) = given)'
    BY <1>2, EndFillTurns
  <2>2. (\A k, l \in 1 .. given : Turn(k) = Turn(l) => k = l)'
    <3> SUFFICES ASSUME NEW k \in 1 .. given, NEW l \in 1 .. given, Turn(k)' = Turn(l)'
                 PROVE  k = l
      BY <1>2
    <3>1. CASE k = given /\ l = given
      BY <3>1
    <3>2. CASE k < given /\ l < given
      <4>1. k + 1 \in 1 .. given /\ l + 1 \in 1 .. given
        BY <3>2, Lengths
      <4>2. PICK m \in 1 .. given, n \in 1 .. given : m = k + 1 /\ n = l + 1
        BY <4>1
      <4>3. Turn(m) = Turn(n)
        BY <4>2, EndFillTurns
      <4> QED BY <4>2, <4>3 DEF Ring
    <3>3. CASE k = given /\ l < given
      <4>1. PICK n \in 1 .. given : n = l + 1
        BY <3>3, Lengths
      <4>2. Turn(1) = Turn(n)
        BY <4>1, <3>3, EndFillTurns
      <4> QED BY <4>1, <4>2, Lengths DEF Ring
    <3>4. CASE k < given /\ l = given
      <4>1. PICK n \in 1 .. given : n = k + 1
        BY <3>4, Lengths
      <4>2. Turn(1) = Turn(n)
        BY <4>1, <3>4, EndFillTurns
      <4> QED BY <4>1, <4>2, Lengths DEF Ring
    <3> QED BY <3>1, <3>2, <3>3, <3>4, Lengths
  <2>3. ASSUME NEW k \in 1 .. given, Completed' + k > given
        PROVE  buffer'[Turn(k)'] = Completed' + k - given
    <3>1. CASE k = given
      <4>1. Turn(k)' = Head(queued) /\ Completed' = begun
        BY <3>1, EndFillTurns DEF EndFill, Completed
      <4>2. buffer'[Head(queued)] = begun
        BY <1>1 DEF EndFill, TypeOK
      <4> QED BY <3>1, <4>1, <4>2, Lengths DEF TypeOK
    <3>2. CASE k < given
      <4>1. PICK n \in 1 .. given : n = k + 1
        BY <3>2, Lengths
      <4>2. Turn(k)' = Turn(n) /\ Turn(1) = Head(queued) /\ Completed' = Completed + 1 /\ given >= 1
        BY <4>1, EndFillTurns
      <4>3. Turn(n) # Head(queued)
        BY <4>1, <4>2, Lengths DEF Ring
      <4>4. buffer[Turn(n)] = Completed + n - given
        <5>1. Completed + n > given /\ n # 1
          BY <4>1, <4>2, <2>3, CompletedType, Lengths
        <5> QED BY <5>1 DEF Ring
      <4>5. buffer'[Turn(n)] = buffer[Turn(n)]
        BY <4>3, TurnType DEF EndFill, TypeOK
      <4> QED BY <4>1, <4>2, <4>4, <4>5, CompletedType, Lengths
    <3> QED BY <3>1, <3>2, Lengths
  <2>4. ~filling'
    BY DEF EndFill
  <2> QED BY <2>1, <2>2, <2>3, <2>4, <1>2 DEF Ring
<1>5. Counted'
  <2>1. Len(filled') = Len(filled) + 1
    BY <1>1 DEF EndFill, TypeOK
  <2> QED BY <1>2, <2>1, EndFillTurns, CompletedType, Lengths DEF Counted
<1>6. ASSUME NEW b \in Buffer, NEW f \in 1 .. announced, BufferOf(b, f)
      PROVE  BufferOf(b, f)'
  <2> SUFFICES ASSUME NEW k \in 1 .. given, k = f + given - Completed'
               PROVE  b = Turn(k)'
    BY <1>2 DEF BufferOf
  <2>1. f <= Completed /\ f \in Int
    BY AnnouncedCompleted, CompletedType DEF TypeOK
  <2>2. k < given /\ k + 1 = f + given - Completed
    BY <2>1, EndFillTurns, CompletedType, Lengths
  <2>3. PICK n \in 1 .. given : n = k + 1
    BY <2>2, Lengths
  <2> QED BY <1>6, <2>2, <2>3, EndFillTurns DEF BufferOf
<1>7. UnreadKnown'
  BY <1>2, <1>6, UnreadKept
<1>8. SourceKnown'
  BY <1>2, <1>6, SourceKept DEF TypeOK
<1>9. CopyOfOneFrame'
  BY <1>2 DEF CopyOfOneFrame, Overwritten
<1> QED BY <1>3, <1>4, <1>5, <1>7, <1>8, <1>9

LEMMA DequeueIInv == IInv /\ Dequeue => IInv'
<1> SUFFICES ASSUME IInv, Dequeue PROVE IInv'
  OBVIOUS
<1> USE CaptureAssumption DEF IInv
<1>1. UNCHANGED <<queued, filling, buffer, begun, given, unread, announced, pc, source, frame, copy>>
  BY DEF Dequeue, save
<1>2. TypeOK'
  BY <1>1 DEF Dequeue, TypeOK
<1>3. /\ Ring' /\ Completed' = Completed
      /\ \A b \in Buffer, f \in 1 .. announced : BufferOf(b, f) => BufferOf(b, f)'
  <2>1. filling => queued' # <<>>
    BY <1>1 DEF Ring
  <2> QED BY <1>1, <2>1, DequeueTurns, SameTurns
<1>4. Counted'
  <2>1. Len(filled') = Len(filled) - 1 /\ thread # "announce" /\ thread' = "announce"
    BY DEF Dequeue, TypeOK
  <2> QED BY <1>1, <1>3, <2>1, CompletedType, Lengths DEF Counted
<1>5. UnreadKnown' /\ SourceKnown'
  BY <1>1, <1>3, UnreadKept, SourceKept DEF TypeOK
<1>6. CopyOfOneFrame'
  BY <1>1 DEF CopyOfOneFrame, Overwritten
<1> QED BY <1>2, <1>3, <1>4, <1>5, <1>6

LEMMA RequeueIInv == IInv /\ Requeue => IInv'
<1> SUFFICES ASSUME IInv, Requeue PROVE IInv'
  OBVIOUS
<1> USE CaptureAssumption DEF IInv
<1>1. UNCHANGED <<filling, filled, buffer, begun, given, index, unread, announced, pc, source, frame, copy>>
  BY DEF Requeue, save
<1>2. queued' \in Seq(Buffer) /\ Len(queued') = Len(queued) + 1
  BY DEF Requeue, TypeOK
<1>3. TypeOK'
  <2>1. InHand = 1
    BY DEF InHand, Requeue
  <2>2. Len(queued') <= BufNum
    BY <1>2, <2>1, Lengths DEF Ring, TypeOK
  <2> QED BY <1>1, <1>2, <2>2 DEF Requeue, TypeOK
<1>4. /\ Ring' /\ Completed' = Completed
      /\ \A b \in Buffer, f \in 1 .. announced : BufferOf(b, f) => BufferOf(b, f)'
  <2>1. queued' # <<>>
    BY <1>2, Lengths
  <2> QED BY <1>1, <2>1, RequeueTurns, SameTurns
<1>5. Counted'
  <2>1. thread # "announce" /\ thread' # "announce"
    BY DEF Requeue
  <2> QED BY <1>1, <1>4, <2>1 DEF Counted
<1>6. UnreadKnown' /\ SourceKnown'
  BY <1>1, <1>4, UnreadKept, SourceKept DEF TypeOK
<1>7. CopyOfOneFrame'
  BY <1>1 DEF CopyOfOneFrame, Overwritten
<1> QED BY <1>3, <1>4, <1>5, <1>6, <1>7

\* No other action but Announce disturbs the ring or the count.
LEMMA OtherRing ==
  ASSUME IInv, Announce \/ Return \/ UNCHANGED <<driver, thread, index>>
  PROVE  /\ Ring' /\ Completed' = Completed
         /\ \A b \in Buffer, f \in 1 .. announced : BufferOf(b, f) => BufferOf(b, f)'
<1>1. UNCHANGED <<queued, filling, filled, buffer, begun, given>>
  BY DEF Announce, Return, driver
<1>2. filling => queued' # <<>>
  BY <1>1 DEF IInv, Ring
<1> QED BY <1>1, <1>2, OtherTurns, SameTurns DEF IInv

LEMMA ReturnIInv == IInv /\ Return => IInv'
<1> SUFFICES ASSUME IInv, Return PROVE IInv'
  OBVIOUS
<1> USE CaptureAssumption DEF IInv
<1>1. UNCHANGED <<driver, index, unread, announced, pc, source, frame, copy>>
  BY DEF Return, save
<1>2. TypeOK'
  BY <1>1 DEF Return, TypeOK, driver
<1>3. Counted'
  BY <1>1, OtherRing DEF Return, Counted, driver
<1>4. UnreadKnown' /\ SourceKnown'
  BY <1>1, OtherRing, UnreadKept, SourceKept DEF TypeOK
<1>5. CopyOfOneFrame'
  BY <1>1 DEF CopyOfOneFrame, Overwritten, driver
<1> QED BY <1>2, <1>3, <1>4, <1>5, OtherRing

LEMMA AnnounceIInv == IInv /\ Announce => IInv'
<1> SUFFICES ASSUME IInv, Announce PROVE IInv'
  OBVIOUS
<1> USE CaptureAssumption DEF IInv
<1>1. UNCHANGED <<queued, filling, filled, buffer, begun, given, index, pc, source, frame, copy>>
  BY DEF Announce, driver, save
<1>2. thread = "announce" /\ thread' = "requeue" /\ announced' = announced + 1
  BY DEF Announce
<1>3. Counted'
  BY <1>1, <1>2, OtherRing, CompletedType, Lengths DEF Counted, TypeOK
<1>4. announced' <= Completed /\ announced' \in Nat /\ announced' \in 0 .. MaxFrames
  BY <1>1, <1>2, CompletedType, Lengths DEF Counted, TypeOK
<1>5. unread' \in Seq(Buffer) /\ Len(unread') <= Capacity /\ Len(unread') >= 1
      /\ Len(unread') <= Len(unread) + 1
  BY DEF Announce, TypeOK, Capacity
<1>6. TypeOK'
  BY <1>1, <1>2, <1>4, <1>5 DEF TypeOK
<1>7. ASSUME NEW k \in 1 .. Len(unread'), k < Len(unread')
      PROVE  \E l \in 1 .. Len(unread) : unread'[k] = unread[l] /\ FrameOf(k)' = FrameOf(l)
  <2>1. CASE Len(unread) = Capacity
    <3>1. unread' = Append(Tail(unread), index) /\ Len(unread) >= 1
      BY <2>1 DEF Announce, Capacity, TypeOK
    <3>2. Len(unread') = Len(unread) /\ unread'[k] = unread[k + 1]
      BY <3>1, <1>7 DEF TypeOK
    <3>3. k + 1 \in 1 .. Len(unread)
      BY <3>2, <1>7 DEF TypeOK
    <3>4. FrameOf(k)' = FrameOf(k + 1)
      BY <3>2, <1>2 DEF FrameOf, TypeOK
    <3> QED BY <3>2, <3>3, <3>4
  <2>2. CASE Len(unread) # Capacity
    <3>1. unread' = Append(unread, index)
      BY <2>2 DEF Announce
    <3>2. Len(unread') = Len(unread) + 1 /\ unread'[k] = unread[k]
      BY <3>1, <1>7 DEF TypeOK
    <3>3. FrameOf(k)' = FrameOf(k)
      BY <3>2, <1>2 DEF FrameOf, TypeOK
    <3> QED BY <3>2, <3>3, <1>7 DEF TypeOK
  <2> QED BY <2>1, <2>2
<1>8. unread'[Len(unread')] = index
  BY DEF Announce, TypeOK, Capacity
<1>9. ASSUME NEW k \in 1 .. given, k = announced + 1 + given - Completed
      PROVE  index = Turn(k)'
  <2>1. InHand' = 1
    BY <1>2 DEF InHand
  <2>2. InHand = 1
    BY <1>2 DEF InHand
  <2>3. k = Len(queued) + 1
    BY <1>9, <1>2, <2>2, CompletedType, Lengths DEF Counted, Ring
  <2> QED BY <1>1, <2>1, <2>3, Lengths DEF Turn
<1>10. UnreadKnown'
  <2>1. (Len(unread) <= announced)'
    BY <1>2, <1>5 DEF UnreadKnown, TypeOK
  <2>2. ASSUME NEW k \in 1 .. Len(unread') PROVE BufferOf(unread[k], FrameOf(k))'
    <3>1. CASE k < Len(unread')
      <4>1. PICK l \in 1 .. Len(unread) : unread'[k] = unread[l] /\ FrameOf(k)' = FrameOf(l)
        BY <1>7, <3>1
      <4>2. unread[l] \in Buffer /\ FrameOf(l) \in 1 .. announced
        BY DEF TypeOK, UnreadKnown, FrameOf
      <4>3. PICK b \in Buffer, f \in 1 .. announced : b = unread[l] /\ f = FrameOf(l)
        BY <4>2
      <4>4. BufferOf(b, f)'
        BY <4>3, OtherRing DEF UnreadKnown
      <4> QED BY <4>1, <4>3, <4>4 DEF BufferOf
    <3>2. CASE k = Len(unread')
      <4>1. FrameOf(k)' = announced + 1
        BY <3>2, <1>2, <1>5 DEF FrameOf, TypeOK
      <4> QED BY <4>1, <3>2, <1>1, <1>8, <1>9, OtherRing DEF BufferOf
    <3> QED BY <3>1, <3>2, <1>5
  <2> QED BY <2>1, <2>2 DEF UnreadKnown
<1>11. SourceKnown'
  BY <1>1, <1>2, <1>4, OtherRing, SourceKept DEF TypeOK
<1>12. CopyOfOneFrame'
  BY <1>1 DEF CopyOfOneFrame, Overwritten
<1> QED BY <1>3, <1>6, <1>10, <1>11, <1>12, OtherRing

LEMMA ReadIInv == IInv /\ Read => IInv'
<1> SUFFICES ASSUME IInv, Read PROVE IInv'
  OBVIOUS
<1> USE CaptureAssumption DEF IInv
<1>1. UNCHANGED <<driver, thread, index, announced, copy>>
  BY DEF Read
<1>2. UNCHANGED <<queued, filling, filled, buffer, begun, given>>
  BY <1>1 DEF driver
<1>3. Len(unread) >= 1 /\ unread' \in Seq(Buffer) /\ Len(unread') = Len(unread) - 1
      /\ Head(unread) = unread[1] /\ Head(unread) \in Buffer
      /\ \A k \in 1 .. Len(unread') : unread'[k] = unread[k + 1]
  BY DEF Read, TypeOK
<1>4. source' = unread[1] /\ frame' = FrameOf(1) /\ FrameOf(1) \in 1 .. announced
  BY <1>3 DEF Read, FrameOf, TypeOK, UnreadKnown
<1>5. TypeOK'
  <2>1. source' \in Buffer /\ frame' \in 0 .. MaxFrames
    BY <1>3, <1>4 DEF TypeOK
  <2>2. unread' \in Seq(Buffer) /\ Len(unread') <= Capacity
    BY <1>3 DEF TypeOK, Capacity
  <2>3. pc' = "half"
    BY DEF Read
  <2> QED BY <1>1, <1>2, <2>1, <2>2, <2>3 DEF TypeOK
<1>6. Counted'
  BY <1>1, <1>2, OtherRing DEF Counted
<1>7. ASSUME NEW k \in 1 .. Len(unread)
      PROVE  \A n \in 1 .. given : n = FrameOf(k) + given - Completed => unread[k] = Turn(n)'
  <2>1. unread[k] \in Buffer /\ FrameOf(k) \in 1 .. announced
    BY DEF TypeOK, UnreadKnown, FrameOf
  <2>2. PICK b \in Buffer, f \in 1 .. announced : b = unread[k] /\ f = FrameOf(k)
    BY <2>1
  <2>3. BufferOf(b, f)'
    BY <1>1, <2>2, OtherRing DEF UnreadKnown
  <2> QED BY <1>1, <1>2, <2>2, <2>3, OtherRing DEF BufferOf
<1>8. UnreadKnown'
  <2>1. (Len(unread) <= announced)'
    BY <1>1, <1>3 DEF UnreadKnown, TypeOK
  <2>2. ASSUME NEW k \in 1 .. Len(unread') PROVE BufferOf(unread[k], FrameOf(k))'
    <3>1. k + 1 \in 1 .. Len(unread) /\ FrameOf(k)' = FrameOf(k + 1)
      BY <1>1, <1>3 DEF FrameOf, TypeOK
    <3>2. PICK l \in 1 .. Len(unread) : unread'[k] = unread[l] /\ FrameOf(k)' = FrameOf(l)
      BY <1>3, <3>1
    <3> QED BY <3>2, <1>1, <1>2, <1>7, OtherRing DEF BufferOf
  <2> QED BY <2>1, <2>2 DEF UnreadKnown
<1>9. SourceKnown'
  <2>1. \A n \in 1 .. given : n = FrameOf(1) + given - Completed => unread[1] = Turn(n)'
    BY <1>3, <1>7 DEF TypeOK
  <2> QED BY <1>1, <1>2, <1>4, <2>1, OtherRing DEF SourceKnown, BufferOf
<1>10. CopyOfOneFrame'
  BY DEF Read, CopyOfOneFrame
<1> QED BY <1>1, <1>5, <1>6, <1>8, <1>9, <1>10, OtherRing

\* As long as the driver has not come round to it, the buffer of a frame that
\* has been announced holds this frame.
LEMMA BufferHolds ==
  ASSUME TypeOK, Ring, NEW b \in Buffer, NEW f \in 1 .. Completed,
         BufferOf(b, f), ~Overwritten(f)
  PROVE  buffer[b] = f
<1>1. Completed + (f + given - Completed) = f + given
  BY CompletedType, Lengths
<1>2. PICK k \in 1 .. given : k = f + given - Completed
  BY CompletedType, Lengths DEF Overwritten, TypeOK
<1>3. b = Turn(k)
  BY <1>2 DEF BufferOf
<1>4. ~(filling /\ k = 1)
  BY <1>2, CompletedType, Lengths DEF Completed, Overwritten, TypeOK
<1>5. Completed + k > given /\ Completed + k - given = f
  BY <1>1, <1>2, CompletedType, Lengths
<1> QED BY <1>3, <1>4, <1>5 DEF Ring

LEMMA CopyIInv == IInv /\ Copy => IInv'
<1> SUFFICES ASSUME IInv, Copy PROVE IInv'
  OBVIOUS
<1> USE CaptureAssumption DEF IInv
<1>1. UNCHANGED <<driver, thread, index, unread, announced, source, frame>>
  BY DEF Copy, capture
<1>2. UNCHANGED <<queued, filling, filled, buffer, begun, given>>
  BY <1>1 DEF driver
<1>3. buffer[source] \in Contents
  BY DEF TypeOK
<1>4. TypeOK'
  BY <1>1, <1>2, <1>3 DEF Copy, TypeOK
<1>5. Counted'
  BY <1>1, <1>2, OtherRing DEF Counted
<1>6. UnreadKnown' /\ SourceKnown'
  <2>1. pc' # "read" => pc # "read"
    BY DEF Copy
  <2> QED BY <1>1, <2>1, OtherRing, UnreadKept, SourceKept DEF TypeOK
<1>7. ~Overwritten(frame) => buffer[source] = frame
  <2>1. frame \in 1 .. Completed /\ BufferOf(source, frame)
    BY AnnouncedCompleted, CompletedType DEF Copy, SourceKnown, TypeOK
  <2> QED BY <2>1, BufferHolds DEF TypeOK
<1>8. CopyOfOneFrame'
  <2>1. Overwritten(frame)' <=> Overwritten(frame)
    BY <1>1, <1>2 DEF Overwritten
  <2>2. CASE pc = "half"
    BY <2>1, <2>2, <1>1, <1>7 DEF Copy, CopyOfOneFrame, TypeOK
  <2>3. CASE pc = "other"
    BY <2>1, <2>3, <1>1, <1>7 DEF Copy, CopyOfOneFrame, TypeOK
  <2> QED BY <2>2, <2>3 DEF Copy
<1> QED BY <1>1, <1>4, <1>5, <1>6, <1>8, OtherRing

LEMMA AgainIInv == IInv /\ (Again \/ UNCHANGED vars) => IInv'
<1> SUFFICES ASSUME IInv, Again \/ UNCHANGED vars PROVE IInv'
  OBVIOUS
<1> USE CaptureAssumption DEF IInv
<1>1. UNCHANGED <<driver, thread, index, unread, announced, source, frame, copy>>
      /\ (pc' = "read" \/ pc' = pc)
  BY DEF Again, vars, capture, save
<1>2. UNCHANGED <<queued, filling, filled, buffer, begun, given>>
  BY <1>1 DEF driver
<1>3. TypeOK'
  BY <1>1, <1>2 DEF TypeOK
<1>4. Counted'
  BY <1>1, <1>2, OtherRing DEF Counted
<1>5. UnreadKnown' /\ SourceKnown'
  BY <1>1, OtherRing, UnreadKept, SourceKept DEF TypeOK
<1>6. CopyOfOneFrame'
  BY <1>1, <1>2 DEF CopyOfOneFrame, Overwritten
<1> QED BY <1>1, <1>3, <1>4, <1>5, <1>6, OtherRing

LEMMA NextIInv == IInv /\ [Next]_vars => IInv'
BY BeginFillIInv, EndFillIInv, DequeueIInv, AnnounceIInv, RequeueIInv, ReturnIInv,
   ReadIInv, CopyIInv, AgainIInv DEF Next

LEMMA Invariant == Spec => []IInv
BY InitIInv, NextIInv, PTL DEF Spec

-----------------------------------------------------------------------------
\* Every variable keeps its type; in particular the driver never has more
\* buffers than there are, and ringque_V4L2 never more indices than it holds
\* (pd.cpp:1042).
THEOREM TypeCorrect == Spec => []TypeOK
<1>1. IInv => TypeOK
  BY DEF IInv
<1> QED BY <1>1, Invariant, PTL

LEMMA IInvAnnouncedIntact == IInv => AnnouncedIntact
<1> SUFFICES ASSUME IInv, given = BufNum, thread # "announce", filled = <<>>,
                    NEW k \in 1 .. Len(unread)
             PROVE  buffer[unread[k]] = FrameOf(k)
  BY DEF AnnouncedIntact
<1> USE CaptureAssumption DEF IInv
<1>1. announced = Completed
  <2>1. Len(filled) = 0
    OBVIOUS
  <2>2. announced = Completed - Len(filled) - 0
    BY DEF Counted
  <2> QED BY <2>1, <2>2, CompletedType
<1>2. unread[k] \in Buffer /\ FrameOf(k) \in 1 .. Completed
  BY <1>1 DEF TypeOK, UnreadKnown, FrameOf
<1>3. ~Overwritten(FrameOf(k))
  <2>1. FrameOf(k) + given >= Completed + 2
    BY <1>1 DEF FrameOf, TypeOK, Capacity
  <2>2. begun <= Completed + 1
    BY DEF Completed, TypeOK
  <2> QED BY <1>2, <2>1, <2>2, CompletedType, Lengths DEF Overwritten, TypeOK
<1> QED BY <1>2, <1>3, BufferHolds DEF UnreadKnown

\* With all its buffers, and every filled one announced, the driver is kept
\* out of the announced buffers by a queue one shorter than the ring
\* (pd.cpp:1042), for any number of buffers.
THEOREM AnnouncedIntactSafe == Spec => []AnnouncedIntact
BY IInvAnnouncedIntact, Invariant, PTL

\* For any number of buffers, of which InitAlgChn may have queued any, and
\* however late GetAlgFrame and FrameSave are: a copy is of the one frame
\* whose index was read, unless the driver has come round to its buffer
\* (pd.cpp:1768, 1819).
THEOREM CopyOfOneFrameSafe == Spec => []CopyOfOneFrame
<1>1. IInv => CopyOfOneFrame
  BY DEF IInv
<1> QED BY <1>1, Invariant, PTL

=============================================================================
