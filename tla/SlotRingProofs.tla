--------------------------- MODULE SlotRingProofs ---------------------------
(***************************************************************************)
(* Proofs about SlotRing for every number of slots and of frames.          *)
(***************************************************************************)
EXTENDS SlotRing, SequenceTheorems, TLAPS

\* Two counters less than Slots apart use different slots.
LEMMA IndexDiffers ==
  ASSUME NEW a \in Nat, NEW b \in Nat, b < a, a - b < Slots
  PROVE  Index(a) # Index(b)
<1> SUFFICES ASSUME a % Slots = b % Slots PROVE FALSE
  BY DEF Index
<1> DEFINE qa == a \div Slots
           qb == b \div Slots
<1>1. Slots \in Nat /\ Slots > 0
  BY SlotsAssumption
<1>2. qa \in Int /\ a = Slots * qa + (a % Slots)
  BY <1>1
<1>3. qb \in Int /\ b = Slots * qb + (b % Slots)
  BY <1>1
<1> HIDE DEF qa, qb
<1>4. a % Slots \in Int
  BY <1>1
<1>5. a - b = Slots * qa - Slots * qb
  BY <1>1, <1>2, <1>3, <1>4
<1>6. Slots * qa - Slots * qb = Slots * (qa - qb)
  BY <1>1, <1>2, <1>3
<1>7. CASE qa - qb <= 0
  BY <1>1, <1>2, <1>3, <1>5, <1>6, <1>7
<1>8. CASE qa - qb >= 1
  BY <1>1, <1>2, <1>3, <1>5, <1>6, <1>8
<1>9. QED
  BY <1>2, <1>3, <1>7, <1>8

LEMMA IndexType == ASSUME NEW c \in Nat PROVE Index(c) \in Slot
BY SlotsAssumption DEF Index, Slot

\* What the reader's slot holds as long as the writer has not lapped it.
HeldIntact ==
  pc # "idle" =>
    /\ frame >= 1
    /\ ~Lapped => held = Index(frame - 1) /\ slot[held] = frame

IInv == TypeOK /\ UnreadIntact /\ HeldIntact /\ OneFrame

\* Writing into slot Index(counter) leaves every announced slot alone.
LEMMA UnreadElsewhere ==
  ASSUME TypeOK, UnreadIntact, NEW k \in 1 .. Len(unread)
  PROVE  /\ unread[k] \in Slot
         /\ unread[k] # Index(counter)
         /\ FrameOf(k) \in 1 .. counter
<1>1. /\ Len(unread) \in Nat /\ Len(unread) <= Slots - 1 /\ Slots \in Nat
      /\ counter \in Nat
  BY SlotsAssumption, MaxFramesAssumption DEF TypeOK
<1>2. unread[k] \in Slot
  BY ElementOfSeq DEF TypeOK
<1>3. FrameOf(k) \in 1 .. counter
  BY <1>1 DEF FrameOf, TypeOK
<1>4. FrameOf(k) - 1 \in Nat /\ FrameOf(k) - 1 < counter /\ counter - (FrameOf(k) - 1) < Slots
  BY <1>1, <1>3 DEF FrameOf
<1>5. Index(counter) # Index(FrameOf(k) - 1)
  BY <1>1, <1>4, IndexDiffers
<1>6. QED
  BY <1>2, <1>3, <1>5 DEF UnreadIntact

LEMMA InitIInv == Init => IInv
<1> SUFFICES ASSUME Init PROVE IInv
  OBVIOUS
<1>1. TypeOK
  BY SlotsAssumption, MaxFramesAssumption DEF Init, TypeOK, Contents, Slot, Stale
<1>2. UnreadIntact /\ HeldIntact /\ OneFrame
  BY DEF Init, UnreadIntact, HeldIntact, OneFrame
<1>3. QED
  BY <1>1, <1>2 DEF IInv

\* The part of the invariant about the reader, for a step that changes only
\* slot Index(counter) and keeps the reader where it is.
LEMMA ReaderUndisturbed ==
  ASSUME IInv, NEW v, slot' = [slot EXCEPT ![Index(counter)] = v],
         begun' = counter + 1, UNCHANGED <<pc, held, frame, header, body>>
  PROVE  HeldIntact' /\ OneFrame'
<1>1. /\ counter \in Nat /\ begun \in Nat /\ begun <= begun' /\ Slots \in Nat
      /\ frame \in Nat /\ frame <= counter
  BY SlotsAssumption, MaxFramesAssumption DEF IInv, TypeOK
<1>2. Lapped => Lapped'
  BY <1>1 DEF Lapped
<1>3. OneFrame'
  BY <1>2 DEF IInv, OneFrame
<1>4. ASSUME pc # "idle", ~Lapped' PROVE slot'[held] = frame /\ held = Index(frame - 1)
  <2>1. held = Index(frame - 1) /\ slot[held] = frame /\ frame >= 1
    BY <1>2, <1>4 DEF IInv, HeldIntact
  <2>2. frame - 1 \in Nat /\ frame - 1 < counter /\ counter - (frame - 1) < Slots
    BY <1>1, <1>4, <2>1 DEF Lapped
  <2>3. Index(counter) # held
    BY <1>1, <2>1, <2>2, IndexDiffers
  <2>4. QED
    BY <2>1, <2>3 DEF IInv, TypeOK
<1>5. HeldIntact'
  BY <1>4 DEF IInv, HeldIntact
<1>6. QED
  BY <1>3, <1>5

LEMMA BeginCopyIInv == ASSUME IInv, BeginCopy PROVE IInv'
<1>1. TypeOK /\ UnreadIntact
  BY DEF IInv
<1>2. counter \in Nat /\ Index(counter) \in Slot
  BY <1>1, MaxFramesAssumption, IndexType DEF TypeOK
<1>3. TypeOK'
  <2>1. slot' \in [Slot -> Contents]
    BY <1>1, <1>2 DEF BeginCopy, TypeOK, Contents
  <2>2. QED
    BY <1>1, <1>2, <2>1, MaxFramesAssumption DEF BeginCopy, TypeOK
<1>4. UnreadIntact'
  <2> SUFFICES ASSUME NEW k \in 1 .. Len(unread)
               PROVE  /\ unread[k] = Index(FrameOf(k) - 1)
                      /\ slot'[unread[k]] = FrameOf(k)
    BY DEF UnreadIntact, BeginCopy, FrameOf
  <2>1. unread[k] \in Slot /\ unread[k] # Index(counter)
    BY <1>1, UnreadElsewhere
  <2>2. QED
    BY <1>1, <2>1 DEF UnreadIntact, BeginCopy, TypeOK
<1>5. HeldIntact' /\ OneFrame'
  BY ReaderUndisturbed DEF BeginCopy
<1>6. QED
  BY <1>3, <1>4, <1>5 DEF IInv

LEMMA RejectIInv == ASSUME IInv, Reject PROVE IInv'
<1>1. TypeOK /\ UnreadIntact
  BY DEF IInv
<1>2. counter \in Nat /\ Index(counter) \in Slot /\ begun' = counter + 1
  BY <1>1, MaxFramesAssumption, IndexType DEF TypeOK, Reject
<1>3. TypeOK'
  <2>1. slot' \in [Slot -> Contents]
    BY <1>1, <1>2 DEF Reject, TypeOK, Contents
  <2>2. QED
    BY <1>1, <2>1 DEF Reject, TypeOK
<1>4. UnreadIntact'
  <2> SUFFICES ASSUME NEW k \in 1 .. Len(unread)
               PROVE  /\ unread[k] = Index(FrameOf(k) - 1)
                      /\ slot'[unread[k]] = FrameOf(k)
    BY DEF UnreadIntact, Reject, FrameOf
  <2>1. unread[k] \in Slot /\ unread[k] # Index(counter)
    BY <1>1, UnreadElsewhere
  <2>2. QED
    BY <1>1, <2>1 DEF UnreadIntact, Reject, TypeOK
<1>5. HeldIntact' /\ OneFrame'
  BY <1>2, ReaderUndisturbed DEF Reject
<1>6. QED
  BY <1>3, <1>4, <1>5 DEF IInv

\* What the queue holds after a Write: the unread indices, without the
\* oldest if there is no room, and the new one.
LEMMA EnqueueFacts ==
  ASSUME TypeOK, NEW i \in Slot
  PROVE  LET d == IF Len(unread) = Slots - 1 THEN 1 ELSE 0
         IN  /\ Enqueue(i) \in Seq(Slot)
             /\ Len(Enqueue(i)) = Len(unread) - d + 1
             /\ \A k \in 1 .. Len(unread) - d : Enqueue(i)[k] = unread[k + d]
             /\ Enqueue(i)[Len(unread) - d + 1] = i
<1>1. unread \in Seq(Slot) /\ Len(unread) \in Nat /\ Slots \in Nat /\ Slots >= 2
  BY SlotsAssumption DEF TypeOK
<1>2. CASE Len(unread) = Slots - 1
  <2>1. unread # <<>>
    BY <1>1, <1>2
  <2>2. /\ Tail(unread) \in Seq(Slot)
        /\ Len(Tail(unread)) = Len(unread) - 1
        /\ \A k \in 1 .. Len(unread) - 1 : Tail(unread)[k] = unread[k + 1]
    BY <1>1, <2>1, HeadTailProperties
  <2>3. Enqueue(i) = Append(Tail(unread), i)
    BY <1>2 DEF Enqueue
  <2>4. /\ Enqueue(i) \in Seq(Slot)
        /\ Len(Enqueue(i)) = Len(Tail(unread)) + 1
        /\ \A k \in 1 .. Len(Tail(unread)) : Enqueue(i)[k] = Tail(unread)[k]
        /\ Enqueue(i)[Len(Tail(unread)) + 1] = i
    BY <2>2, <2>3, AppendProperties
  <2>5. QED
    BY <1>1, <1>2, <2>2, <2>4
<1>3. CASE Len(unread) # Slots - 1
  <2>1. Enqueue(i) = Append(unread, i)
    BY <1>3 DEF Enqueue
  <2>2. /\ Enqueue(i) \in Seq(Slot)
        /\ Len(Enqueue(i)) = Len(unread) + 1
        /\ \A k \in 1 .. Len(unread) : Enqueue(i)[k] = unread[k]
        /\ Enqueue(i)[Len(unread) + 1] = i
    BY <1>1, <2>1, AppendProperties
  <2>3. QED
    BY <1>1, <1>3, <2>2
<1>4. QED
  BY <1>2, <1>3

LEMMA PublishIInv == ASSUME IInv, Publish PROVE IInv'
<1> DEFINE d == IF Len(unread) = Slots - 1 THEN 1 ELSE 0
<1>1. TypeOK /\ UnreadIntact
  BY DEF IInv
<1>2. /\ counter \in Nat /\ Index(counter) \in Slot /\ counter' = counter + 1
      /\ begun = counter + 1 /\ begun' = begun /\ counter + 1 <= MaxFrames
      /\ Len(unread) \in Nat /\ Len(unread) <= Slots - 1 /\ Len(unread) <= counter
      /\ Slots \in Nat /\ Slots >= 2
  BY <1>1, MaxFramesAssumption, SlotsAssumption, IndexType DEF TypeOK, Publish
<1>3. /\ unread' \in Seq(Slot)
      /\ Len(unread') = Len(unread) - d + 1
      /\ \A k \in 1 .. Len(unread) - d : unread'[k] = unread[k + d]
      /\ unread'[Len(unread) - d + 1] = Index(counter)
  BY <1>1, <1>2, EnqueueFacts DEF Publish
<1>4. slot' = [slot EXCEPT ![Index(counter)] = counter + 1]
  BY DEF Publish
<1>5. TypeOK'
  <2>1. slot' \in [Slot -> Contents]
    BY <1>1, <1>2, <1>4 DEF TypeOK, Contents
  <2>2. Len(unread') <= Slots - 1 /\ Len(unread') <= counter'
    BY <1>2, <1>3
  <2>3. frame' \in 0 .. counter' /\ counter' \in 0 .. MaxFrames
    BY <1>1, <1>2 DEF Publish, TypeOK
  <2>4. QED
    BY <1>1, <1>2, <1>3, <2>1, <2>2, <2>3 DEF Publish, TypeOK
<1>6. UnreadIntact'
  <2> SUFFICES ASSUME NEW k \in 1 .. Len(unread')
               PROVE  /\ unread'[k] = Index((counter' - Len(unread') + k) - 1)
                      /\ slot'[unread'[k]] = counter' - Len(unread') + k
    BY DEF UnreadIntact, FrameOf
  <2>1. CASE k = Len(unread')
    <3>1. unread'[k] = Index(counter) /\ counter' - Len(unread') + k = counter + 1
      BY <1>2, <1>3, <2>1
    <3>2. slot'[Index(counter)] = counter + 1
      BY <1>1, <1>2, <1>4 DEF TypeOK
    <3>3. (counter + 1) - 1 = counter
      BY <1>2
    <3>4. QED
      BY <3>1, <3>2, <3>3
  <2>2. CASE k # Len(unread')
    <3>1. k + d \in 1 .. Len(unread) /\ unread'[k] = unread[k + d]
      BY <1>2, <1>3, <2>2
    <3>2. FrameOf(k + d) = counter' - Len(unread') + k
      BY <1>2, <1>3, <3>1 DEF FrameOf
    <3>3. unread[k + d] \in Slot /\ unread[k + d] # Index(counter)
      BY <1>1, <3>1, UnreadElsewhere
    <3>4. unread[k + d] = Index(FrameOf(k + d) - 1) /\ slot[unread[k + d]] = FrameOf(k + d)
      BY <1>1, <3>1 DEF UnreadIntact
    <3>5. slot'[unread[k + d]] = slot[unread[k + d]]
      BY <1>1, <1>4, <3>3 DEF TypeOK
    <3>6. QED
      BY <3>1, <3>2, <3>4, <3>5
  <2>3. QED
    BY <2>1, <2>2
<1>7. HeldIntact' /\ OneFrame'
  BY <1>2, <1>4, ReaderUndisturbed DEF Publish
<1>8. QED
  BY <1>5, <1>6, <1>7 DEF IInv

LEMMA TakeIInv == ASSUME IInv, Take PROVE IInv'
<1>1. TypeOK /\ UnreadIntact
  BY DEF IInv
<1>2. /\ unread \in Seq(Slot) /\ unread # <<>> /\ Len(unread) \in Nat
      /\ counter \in Nat /\ Len(unread) <= counter /\ Len(unread) <= Slots - 1
      /\ Slots \in Nat
  BY <1>1, MaxFramesAssumption, SlotsAssumption DEF TypeOK, Take
<1>3. /\ Len(unread) >= 1
      /\ held' = unread[1]
      /\ unread[1] \in Slot
      /\ unread' \in Seq(Slot)
      /\ Len(unread') = Len(unread) - 1
      /\ \A k \in 1 .. Len(unread) - 1 : unread'[k] = unread[k + 1]
  BY <1>2, HeadTailProperties, ElementOfSeq DEF Take
<1>4. /\ frame' = FrameOf(1)
      /\ held' = Index(FrameOf(1) - 1)
      /\ slot[held'] = FrameOf(1)
  BY <1>1, <1>2, <1>3 DEF Take, UnreadIntact, FrameOf
<1>5. frame' \in 0 .. counter /\ frame' >= 1
  BY <1>2, <1>3 DEF Take
<1>6. TypeOK'
  BY <1>1, <1>2, <1>3, <1>5 DEF TypeOK, Take
<1>7. UnreadIntact'
  <2> SUFFICES ASSUME NEW k \in 1 .. Len(unread')
               PROVE  /\ unread'[k] = Index((counter - Len(unread') + k) - 1)
                      /\ slot[unread'[k]] = counter - Len(unread') + k
    BY DEF UnreadIntact, FrameOf, Take
  <2>1. k + 1 \in 1 .. Len(unread) /\ unread'[k] = unread[k + 1]
    BY <1>2, <1>3
  <2>2. FrameOf(k + 1) = counter - Len(unread') + k
    BY <1>2, <1>3, <2>1 DEF FrameOf
  <2>3. QED
    BY <1>1, <2>1, <2>2 DEF UnreadIntact
<1>8. HeldIntact' /\ OneFrame'
  BY <1>4, <1>5 DEF Take, HeldIntact, OneFrame
<1>9. QED
  BY <1>6, <1>7, <1>8 DEF IInv

LEMMA ReaderIInv ==
  ASSUME IInv, ReadHeader \/ ReadBody \/ Done
  PROVE  IInv'
<1> USE DEF IInv
<1>1. CASE ReadHeader
  <2>1. slot[held] \in Contents
    BY DEF TypeOK
  <2>2. TypeOK'
    BY <1>1, <2>1 DEF ReadHeader, TypeOK
  <2>3. UnreadIntact' /\ HeldIntact' /\ OneFrame'
    BY <1>1 DEF ReadHeader, UnreadIntact, FrameOf, HeldIntact, OneFrame, Lapped
  <2>4. QED
    BY <2>2, <2>3
<1>2. CASE ReadBody
  <2>1. slot[held] \in Contents
    BY DEF TypeOK
  <2>2. TypeOK'
    BY <1>2, <2>1 DEF ReadBody, TypeOK
  <2>3. UnreadIntact' /\ HeldIntact' /\ OneFrame'
    BY <1>2 DEF ReadBody, UnreadIntact, FrameOf, HeldIntact, OneFrame, Lapped
  <2>4. QED
    BY <2>2, <2>3
<1>3. CASE Done
  BY <1>3 DEF Done, TypeOK, UnreadIntact, FrameOf, HeldIntact, OneFrame, Lapped
<1>4. QED
  BY <1>1, <1>2, <1>3

LEMMA NextIInv == IInv /\ [Next]_vars => IInv'
<1> SUFFICES ASSUME IInv, [Next]_vars PROVE IInv'
  OBVIOUS
<1>1. CASE UNCHANGED vars
  BY <1>1 DEF vars, IInv, TypeOK, UnreadIntact, FrameOf, HeldIntact, OneFrame, Lapped
<1>2. QED
  BY <1>1, BeginCopyIInv, PublishIInv, RejectIInv, TakeIInv, ReaderIInv
     DEF Next, Writer, Reader

LEMMA SpecIInv == Spec => []IInv
BY InitIInv, NextIInv, PTL DEF Spec

\* Type correctness of the frame rings: the queue never holds more than
\* Slots - 1 indices, nor more than frames have been published.
THEOREM TypeCorrect == Spec => []TypeOK
<1>1. IInv => TypeOK
  BY DEF IInv
<1>2. QED
  BY <1>1, SpecIInv, PTL

\* Every index in the queue leads to the frame it was queued for: the writer
\* of pd.cpp's frame rings never touches an announced slot.
THEOREM AnnouncedFramesSafe == Spec => []UnreadIntact
<1>1. IInv => UnreadIntact
  BY DEF IInv
<1>2. QED
  BY <1>1, SpecIInv, PTL

\* A reader the writer has not lapped sees metadata and image of one frame.
THEOREM OneFrameSafe == Spec => []OneFrame
<1>1. IInv => OneFrame
  BY DEF IInv
<1>2. QED
  BY <1>1, SpecIInv, PTL

-----------------------------------------------------------------------------
(***************************************************************************)
(* Ring and queue together are a lossy queue of frames.                    *)
(***************************************************************************)

\* The last n frames of c.
Latest(c, n) == [k \in 1 .. n |-> c - n + k]

\* What the buffers hold behind the unread indices are the latest frames.
LEMMA FramesAreLatest ==
  ASSUME IInv
  PROVE  /\ UnreadFrames = Latest(counter, Len(unread))
         /\ counter \in Nat /\ Len(unread) \in Nat
<1>1. counter \in Nat /\ Len(unread) \in Nat
  BY MaxFramesAssumption DEF IInv, TypeOK
<1>2. \A k \in 1 .. Len(unread) : slot[unread[k]] = counter - Len(unread) + k
  BY DEF IInv, UnreadIntact, FrameOf
<1> QED BY <1>1, <1>2 DEF UnreadFrames, Latest

\* The same after a step.
LEMMA FramesAreLatestNext ==
  ASSUME IInv'
  PROVE  UnreadFrames' = Latest(counter', Len(unread'))
<1>1. counter' \in Nat /\ Len(unread') \in Nat
  BY MaxFramesAssumption DEF IInv, TypeOK
<1>2. \A k \in 1 .. Len(unread') : slot'[unread'[k]] = counter' - Len(unread') + k
  BY DEF IInv, UnreadIntact, FrameOf
<1> QED BY <1>1, <1>2 DEF UnreadFrames, Latest

LEMMA LatestType ==
  ASSUME NEW c \in Nat, NEW n \in Nat
  PROVE  Latest(c, n) \in Seq(Int) /\ Len(Latest(c, n)) = n
BY DEF Latest

LEMMA LatestTail ==
  ASSUME NEW c \in Nat, NEW n \in Nat, n > 0
  PROVE  /\ Latest(c, n) # <<>>
         /\ Tail(Latest(c, n)) = Latest(c, n - 1)
         /\ Head(Latest(c, n)) = c - n + 1
<1>1. Latest(c, n) \in Seq(Int) /\ Len(Latest(c, n)) = n
  BY LatestType
<1>2. Latest(c, n) # <<>>
  BY <1>1
<1>3. /\ Head(Latest(c, n)) = Latest(c, n)[1]
      /\ Tail(Latest(c, n)) \in Seq(Int)
      /\ Len(Tail(Latest(c, n))) = n - 1
      /\ \A k \in 1 .. n - 1 : Tail(Latest(c, n))[k] = Latest(c, n)[k + 1]
  BY <1>1, <1>2, HeadTailProperties
<1>4. Latest(c, n - 1) \in Seq(Int) /\ Len(Latest(c, n - 1)) = n - 1
  BY LatestType
<1>5. \A k \in 1 .. n - 1 : Tail(Latest(c, n))[k] = Latest(c, n - 1)[k]
  BY <1>3 DEF Latest
<1>6. Tail(Latest(c, n)) = Latest(c, n - 1)
  BY <1>3, <1>4, <1>5, SeqEqual
<1>7. Latest(c, n)[1] = c - n + 1
  BY DEF Latest
<1> QED BY <1>2, <1>3, <1>6, <1>7

LEMMA LatestAppend ==
  ASSUME NEW c \in Nat, NEW n \in Nat
  PROVE  Append(Latest(c, n), c + 1) = Latest(c + 1, n + 1)
<1>1. /\ Latest(c, n) \in Seq(Int) /\ Len(Latest(c, n)) = n
      /\ Latest(c + 1, n + 1) \in Seq(Int) /\ Len(Latest(c + 1, n + 1)) = n + 1
  BY LatestType
<1>2. /\ Append(Latest(c, n), c + 1) \in Seq(Int)
      /\ Len(Append(Latest(c, n), c + 1)) = n + 1
      /\ \A k \in 1 .. n : Append(Latest(c, n), c + 1)[k] = Latest(c, n)[k]
      /\ Append(Latest(c, n), c + 1)[n + 1] = c + 1
  BY <1>1, AppendProperties
<1>3. \A k \in 1 .. n + 1 : Append(Latest(c, n), c + 1)[k] = Latest(c + 1, n + 1)[k]
  BY <1>2 DEF Latest
<1> QED BY <1>1, <1>2, <1>3, SeqEqual

\* A published frame comes in at the end, and the oldest of Slots - 1 goes.
LEMMA PublishIsWrite == ASSUME IInv, Publish PROVE Fifo!Write
<1> DEFINE n == Len(unread)
<1>1. IInv'
  BY PublishIInv
<1>2. /\ UnreadFrames = Latest(counter, n) /\ counter \in Nat /\ n \in Nat
      /\ UnreadFrames' = Latest(counter', Len(unread'))
  BY <1>1, FramesAreLatest, FramesAreLatestNext
<1>3. counter' = counter + 1 /\ frame' = frame
  BY DEF Publish
<1>4. Len(unread') = IF n = Slots - 1 THEN n ELSE n + 1
  <2>1. Index(counter) \in Slot
    BY <1>2, IndexType
  <2> QED BY <1>2, <2>1, EnqueueFacts DEF Publish, IInv
<1>5. UnreadFrames' = Append(Fifo!WithRoom(UnreadFrames), counter')
  <2>1. CASE n = Slots - 1
    <3>1. n > 0 /\ n - 1 \in Nat /\ (n - 1) + 1 = n
      BY <1>2, <2>1, SlotsAssumption
    <3>2. Fifo!WithRoom(UnreadFrames) = Latest(counter, n - 1)
      BY <1>2, <2>1, <3>1, LatestType, LatestTail DEF Fifo!WithRoom
    <3> QED BY <1>2, <1>3, <1>4, <2>1, <3>1, <3>2, LatestAppend
  <2>2. CASE n # Slots - 1
    <3>1. Fifo!WithRoom(UnreadFrames) = Latest(counter, n)
      BY <1>2, <2>2, LatestType DEF Fifo!WithRoom
    <3> QED BY <1>2, <1>3, <1>4, <2>2, <3>1, LatestAppend
  <2> QED BY <2>1, <2>2
<1> QED BY <1>3, <1>5 DEF Fifo!Write

\* The frame that the reader takes is the oldest.
LEMMA TakeIsRead == ASSUME IInv, Take PROVE Fifo!Read("reader")
<1>1. IInv'
  BY TakeIInv
<1>2. /\ UnreadFrames = Latest(counter, Len(unread)) /\ counter \in Nat /\ Len(unread) \in Nat
      /\ UnreadFrames' = Latest(counter', Len(unread'))
  BY <1>1, FramesAreLatest, FramesAreLatestNext
<1>3. /\ Len(unread) > 0 /\ Len(unread') = Len(unread) - 1
      /\ counter' = counter /\ frame' = counter - Len(unread) + 1
  <2>1. unread \in Seq(Slot) /\ unread # <<>> /\ unread' = Tail(unread)
    BY DEF Take, IInv, TypeOK
  <2> QED BY <1>2, <2>1, HeadTailProperties DEF Take
<1>4. /\ UnreadFrames # <<>> /\ UnreadFrames' = Tail(UnreadFrames)
      /\ frame' = Head(UnreadFrames)
  BY <1>2, <1>3, LatestTail
<1> QED BY <1>3, <1>4 DEF Fifo!Read

\* Copies under way, frames given up and the reader's use of a slot are not
\* seen through the indices.
LEMMA OtherIsStutter ==
  ASSUME IInv, BeginCopy \/ Reject \/ ReadHeader \/ ReadBody \/ Done \/ UNCHANGED vars
  PROVE  UNCHANGED Fifo!vars
<1>1. IInv'
  BY BeginCopyIInv, RejectIInv, ReaderIInv, NextIInv
<1>2. UNCHANGED <<counter, unread, frame>>
  BY DEF BeginCopy, Reject, ReadHeader, ReadBody, Done, vars
<1>3. UnreadFrames' = UnreadFrames
  BY <1>1, <1>2, FramesAreLatest, FramesAreLatestNext
<1> QED BY <1>2, <1>3 DEF Fifo!vars

\* The frame rings dstData and MiddleData, whose buffers are written without
\* a lock, and the queues of their indices implement a lossy queue of whole
\* frames (pd.cpp:1811-1910, 2425-2451), for every ring of two slots or more.
THEOREM Refinement == Spec => FramesInOrder
<1>1. Init => Fifo!Init
  BY DEF Init, Fifo!Init, UnreadFrames
<1>2. IInv /\ [Next]_vars => [Fifo!Next]_(Fifo!vars)
  BY PublishIsWrite, TakeIsRead, OtherIsStutter DEF Next, Writer, Reader, Fifo!Next
<1> QED BY <1>1, <1>2, SpecIInv, PTL DEF Spec, FramesInOrder, Fifo!Spec

=============================================================================
