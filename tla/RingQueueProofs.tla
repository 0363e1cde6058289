-------------------------- MODULE RingQueueProofs --------------------------
(***************************************************************************)
(* Proofs about RingQueue for every capacity, every set of readers and     *)
(* every number of writes.                                                 *)
(***************************************************************************)
EXTENDS RingQueue, SequenceTheorems, TLAPS

\* The inductive invariant.  A position can be shown to stay below count
\* only because it stays below the length of the deque.
IInv == TypeOK /\ PositionInQueue /\ Consecutive /\ NoLostWakeup

LEMMA KeptFacts ==
  ASSUME TypeOK
  PROVE  /\ Kept \in Seq(1 .. written)
         /\ Len(Kept) = IF Full THEN count - 1 ELSE Len(queue)
         /\ Len(Kept) < count
         /\ \A i \in 1 .. Len(Kept) : Kept[i] = queue[i]
<1>1. CASE Full
  <2>1. count - 1 \in Nat /\ queue \in Seq(1 .. written) /\ Len(queue) = count
    BY <1>1, CountAssumption DEF TypeOK, Full
  <2>2. ASSUME NEW i \in 1 .. count - 1 PROVE queue[i] \in 1 .. written
    <3>1. i \in 1 .. Len(queue)
      BY <2>1
    <3>2. QED
      BY <2>1, <3>1, ElementOfSeq
  <2>3. Kept = SubSeq(queue, 1, count - 1)
    BY <1>1 DEF Kept
  <2>4. /\ Kept \in Seq(1 .. written)
        /\ Len(Kept) = count - 1
        /\ \A i \in 1 .. count - 1 : Kept[i] = queue[i]
    BY <2>1, <2>2, <2>3, SubSeqProperties
  <2>5. QED
    BY <1>1, <2>1, <2>4
<1>2. CASE ~Full
  BY <1>2, CountAssumption DEF TypeOK, Kept, Full
<1>3. QED
  BY <1>1, <1>2

LEMMA PushFacts ==
  ASSUME TypeOK, NEW v \in Nat, Push(v)
  PROVE  /\ Len(queue') = Len(Kept) + 1
         /\ queue'[1] = v
         /\ \A i \in 2 .. Len(Kept) + 1 : queue'[i] = queue[i - 1]
         /\ v = written + 1 => queue' \in Seq(1 .. written + 1)
<1>1. Kept \in Seq(1 .. written)
  BY KeptFacts
<1>2. written \in Nat
  BY BoundsAssumption DEF TypeOK
<1>3. Kept \in Seq(Nat) /\ <<v>> \in Seq(Nat)
  BY <1>1, <1>2
<1>4. Len(queue') = Len(Kept) + 1 /\ queue'[1] = v
  BY <1>3 DEF Push
<1>5. \A i \in 2 .. Len(Kept) + 1 : queue'[i] = Kept[i - 1]
  BY <1>3 DEF Push
<1>6. \A i \in 2 .. Len(Kept) + 1 : queue'[i] = queue[i - 1]
  BY <1>5, <1>1, KeptFacts
<1>7. ASSUME v = written + 1 PROVE queue' \in Seq(1 .. written + 1)
  <2>1. <<v>> \in Seq(1 .. written + 1)
    BY <1>7, <1>2
  <2>2. Kept \in Seq(1 .. written + 1)
    BY <1>1, <1>2
  <2>3. QED
    BY <2>1, <2>2 DEF Push
<1>8. QED
  BY <1>4, <1>6, <1>7

LEMMA InitIInv == Init => IInv
<1> SUFFICES ASSUME Init PROVE IInv
  OBVIOUS
<1>1. TypeOK
  BY CountAssumption, BoundsAssumption DEF Init, TypeOK, EMPTY
<1>2. PositionInQueue /\ Consecutive /\ NoLostWakeup
  BY DEF Init, PositionInQueue, Consecutive, NoLostWakeup, EMPTY
<1>3. QED
  BY <1>1, <1>2 DEF IInv

LEMMA WriteIInv ==
  ASSUME IInv, Write
  PROVE  IInv'
<1>1. TypeOK /\ PositionInQueue /\ Consecutive /\ NoLostWakeup
  BY DEF IInv
<1>2. written \in Nat /\ written' = written + 1 /\ written' \in 0 .. MaxWrites
  BY <1>1, BoundsAssumption DEF TypeOK, Write
<1>3. count \in Nat /\ count >= 1
  BY CountAssumption
<1>4. /\ Len(queue') = Len(Kept) + 1
      /\ queue'[1] = written'
      /\ \A i \in 2 .. Len(Kept) + 1 : queue'[i] = queue[i - 1]
      /\ queue' \in Seq(1 .. written')
  BY <1>1, <1>2, PushFacts DEF Write
<1>5. /\ Len(Kept) \in Nat
      /\ Len(Kept) < count
      /\ Len(Kept) = IF Full THEN count - 1 ELSE Len(queue)
  BY <1>1, <1>3, KeptFacts DEF TypeOK
<1>6. ASSUME NEW r \in Readers
      PROVE  /\ rpos'[r] \in EMPTY .. count - 1
             /\ rpos'[r] < Len(queue')
             /\ rpos'[r] >= 0
  <2>1. rpos[r] \in -1 .. count - 1 /\ rpos[r] < Len(queue) /\ Len(queue) \in Nat
    BY <1>1, <1>6 DEF TypeOK, PositionInQueue, EMPTY
  <2>2. rpos'[r] = (IF Full /\ rpos[r] >= count - 1 THEN rpos[r] - 1 ELSE rpos[r]) + 1
    BY <1>6 DEF Write, Push, Forwarded, RdFull
  <2>3. QED
    BY <2>1, <2>2, <1>3, <1>4, <1>5, <1>1 DEF Full, EMPTY, TypeOK
<1>7. TypeOK'
  <2>1. rpos' \in [Readers -> EMPTY .. count - 1]
    BY <1>6 DEF Write, Push
  <2>2. pc' \in [Readers -> {"idle", "test", "wait", "expired"}]
    BY <1>1 DEF TypeOK, Write, NotifyAll
  <2>3. got' \in [Readers -> 0 .. written' \cup {TIMEOUT}]
    BY <1>1, <1>2 DEF TypeOK, Write
  <2>4. wakes' \in 0 .. MaxWakes
    BY <1>1 DEF TypeOK, Write
  <2>5. Len(queue') <= count
    BY <1>3, <1>4, <1>5
  <2>6. QED
    BY <1>2, <1>4, <2>1, <2>2, <2>3, <2>4, <2>5 DEF TypeOK
<1>8. PositionInQueue'
  BY <1>6 DEF PositionInQueue
<1>9. Consecutive'
  <2> SUFFICES ASSUME NEW i \in 1 .. Len(queue')
               PROVE  queue'[i] = written' - i + 1
    BY DEF Consecutive
  <2>1. CASE i = 1
    BY <2>1, <1>2, <1>4
  <2>2. CASE i # 1
    <3>1. i - 1 \in 1 .. Len(queue) /\ queue'[i] = queue[i - 1]
      BY <2>2, <1>1, <1>3, <1>4, <1>5 DEF Full, TypeOK
    <3>2. queue[i - 1] = written - (i - 1) + 1
      BY <3>1, <1>1 DEF Consecutive
    <3>3. QED
      BY <3>1, <3>2, <1>2
  <2>3. QED
    BY <2>1, <2>2
<1>10. NoLostWakeup'
  BY DEF Write, NotifyAll, NoLostWakeup
<1>11. QED
  BY <1>7, <1>8, <1>9, <1>10 DEF IInv

LEMMA ReaderIInv ==
  ASSUME IInv, NEW r \in Readers, Call(r) \/ InRead(r) \/ SpuriousWake(r)
  PROVE  IInv'
<1> USE DEF IInv
<1>1. CASE Call(r)
  BY <1>1 DEF Call, TypeOK, PositionInQueue, Consecutive, NoLostWakeup, RdEmpty
<1>2. CASE Take(r)
  <2>1. /\ rpos[r] \in -1 .. count - 1
        /\ rpos[r] < Len(queue)
        /\ Len(queue) \in Nat
        /\ rpos[r] >= 0
        /\ count \in Nat
    BY <1>2, CountAssumption DEF Take, RdEmpty, EMPTY, TypeOK, PositionInQueue
  <2>2. queue[rpos[r] + 1] \in 1 .. written
    <3>1. queue \in Seq(1 .. written) /\ rpos[r] + 1 \in 1 .. Len(queue)
      BY <2>1 DEF TypeOK
    <3>2. QED
      BY <3>1, ElementOfSeq
  <2>3. rpos' \in [Readers -> EMPTY .. count - 1]
    BY <1>2, <2>1 DEF Take, TypeOK, EMPTY
  <2>4. got' \in [Readers -> 0 .. written \cup {TIMEOUT}]
    <3>1. written \in Nat
      BY BoundsAssumption DEF TypeOK
    <3>2. QED
      BY <1>2, <2>2, <3>1 DEF Take, TypeOK
  <2>5. TypeOK'
    BY <1>2, <2>3, <2>4 DEF Take, TypeOK
  <2>6. PositionInQueue'
    BY <1>2, <2>1 DEF Take, TypeOK, PositionInQueue
  <2>7. Consecutive'
    BY <1>2 DEF Take, Consecutive
  <2>8. NoLostWakeup'
    BY <1>2 DEF Take, NoLostWakeup, RdEmpty, TypeOK
  <2>9. QED
    BY <2>5, <2>6, <2>7, <2>8
<1>3. CASE Wait(r)
  BY <1>3 DEF Wait, TypeOK, PositionInQueue, Consecutive, NoLostWakeup, RdEmpty
<1>4. CASE Expire(r)
  BY <1>4 DEF Expire, TypeOK, PositionInQueue, Consecutive, NoLostWakeup, RdEmpty
<1>5. CASE ReturnTimeout(r)
  BY <1>5 DEF ReturnTimeout, TypeOK, PositionInQueue, Consecutive, NoLostWakeup, RdEmpty
<1>6. CASE SpuriousWake(r)
  <2>1. wakes' \in 0 .. MaxWakes
    BY <1>6, BoundsAssumption DEF SpuriousWake, TypeOK
  <2>2. QED
    BY <1>6, <2>1 DEF SpuriousWake, TypeOK, PositionInQueue, Consecutive, NoLostWakeup, RdEmpty
<1>7. QED
  BY <1>1, <1>2, <1>3, <1>4, <1>5, <1>6 DEF InRead

LEMMA NextIInv == IInv /\ [Next]_vars => IInv'
<1> SUFFICES ASSUME IInv, [Next]_vars PROVE IInv'
  OBVIOUS
<1>1. CASE Write
  BY <1>1, WriteIInv
<1>2. CASE Clear
  <2>1. TypeOK'
    BY <1>2, CountAssumption DEF IInv, Clear, TypeOK, EMPTY
  <2>2. PositionInQueue' /\ Consecutive' /\ NoLostWakeup'
    BY <1>2 DEF Clear, PositionInQueue, Consecutive, NoLostWakeup, RdEmpty, EMPTY
  <2>3. QED
    BY <2>1, <2>2 DEF IInv
<1>3. ASSUME NEW r \in Readers, Call(r) \/ InRead(r) \/ SpuriousWake(r)
      PROVE  IInv'
  BY <1>3, ReaderIInv
<1>4. CASE UNCHANGED vars
  BY <1>4 DEF vars, IInv, TypeOK, PositionInQueue, Consecutive, NoLostWakeup, RdEmpty
<1>5. QED
  BY <1>1, <1>2, <1>3, <1>4 DEF Next

\* The inductive invariant holds throughout.
LEMMA SpecIInv == Spec => []IInv
BY InitIInv, NextIInv, PTL DEF Spec

\* Type correctness of TRWRingQueue (itc.h): rpos_ stays in -1 .. count_-1
\* and the deque never holds more than count_ elements.
THEOREM TypeCorrect == Spec => []TypeOK
<1>1. IInv => TypeOK
  BY DEF IInv
<1>2. QED
  BY <1>1, SpecIInv, PTL

\* queue_.at(rpos_[chn]) in Read is always in range, for every capacity.
THEOREM PositionSafe == Spec => []PositionInQueue
<1>1. IInv => PositionInQueue
  BY DEF IInv
<1>2. QED
  BY <1>1, SpecIInv, PTL

\* Eviction and emplace_front leave neither a hole nor a duplicate in the deque.
THEOREM ConsecutiveSafe == Spec => []Consecutive
<1>1. IInv => Consecutive
  BY DEF IInv
<1>2. QED
  BY <1>1, SpecIInv, PTL

\* No reader sleeps in cond_ while it has an element to read.
THEOREM WakeupSafe == Spec => []NoLostWakeup
<1>1. IInv => NoLostWakeup
  BY DEF IInv
<1>2. QED
  BY <1>1, SpecIInv, PTL

-----------------------------------------------------------------------------
(***************************************************************************)
(* The refinement.  Unread(r) is the part of the deque from the front to   *)
(* the position of r, in reading order.                                    *)
(***************************************************************************)
LEMMA ReadOrderFacts ==
  ASSUME NEW q \in Seq(Nat), NEW p \in Int, -1 <= p, p < Len(q)
  PROVE  /\ ReadOrder(q, p) \in Seq(Nat)
         /\ Len(ReadOrder(q, p)) = p + 1
         /\ \A i \in 1 .. p + 1 : ReadOrder(q, p)[i] = q[p + 2 - i]
<1>1. ASSUME NEW i \in 1 .. p + 1 PROVE q[p + 2 - i] \in Nat
  <2>1. p + 2 - i \in 1 .. Len(q)
    OBVIOUS
  <2>2. QED
    BY <2>1, ElementOfSeq
<1>2. QED
  BY <1>1 DEF ReadOrder

\* Taking the element at position p leaves the tail.
LEMMA ReadOrderAfterTake ==
  ASSUME NEW q \in Seq(Nat), NEW p \in Nat, p < Len(q)
  PROVE  /\ ReadOrder(q, p) # <<>>
         /\ Head(ReadOrder(q, p)) = q[p + 1]
         /\ ReadOrder(q, p - 1) = Tail(ReadOrder(q, p))
<1> DEFINE u == ReadOrder(q, p)
           v == ReadOrder(q, p - 1)
<1>1. u \in Seq(Nat) /\ Len(u) = p + 1 /\ \A i \in 1 .. p + 1 : u[i] = q[p + 2 - i]
  BY ReadOrderFacts
<1>2. /\ v \in Seq(Nat)
      /\ Len(v) = (p - 1) + 1
      /\ \A i \in 1 .. (p - 1) + 1 : v[i] = q[(p - 1) + 2 - i]
  <2>1. p - 1 \in Int /\ -1 <= p - 1 /\ p - 1 < Len(q)
    OBVIOUS
  <2>2. QED
    BY <2>1, ReadOrderFacts
<1> HIDE DEF u, v
<1>3. u # <<>> /\ Head(u) = q[p + 1]
  BY <1>1
<1>4. /\ Tail(u) \in Seq(Nat)
      /\ Len(Tail(u)) = p
      /\ \A i \in 1 .. p : Tail(u)[i] = u[i + 1]
  BY <1>1, <1>3, HeadTailProperties
<1>5. ASSUME NEW i \in 1 .. p PROVE v[i] = Tail(u)[i]
  <2>1. i \in 1 .. (p - 1) + 1 /\ i + 1 \in 1 .. p + 1
    OBVIOUS
  <2>2. v[i] = q[(p - 1) + 2 - i] /\ Tail(u)[i] = q[p + 2 - (i + 1)]
    BY <2>1, <1>1, <1>2, <1>4
  <2>3. (p - 1) + 2 - i = p + 2 - (i + 1)
    BY <2>1
  <2>4. QED
    BY <2>2, <2>3
<1>6. v = Tail(u)
  <2>1. Len(v) = Len(Tail(u)) /\ \A i \in 1 .. Len(v) : v[i] = Tail(u)[i]
    BY <1>2, <1>4, <1>5
  <2>2. v \in Seq(Nat) /\ Tail(u) \in Seq(Nat)
    BY <1>2, <1>4
  <2>3. QED
    BY <2>1, <2>2, SeqEqual
<1>7. QED
  BY <1>3, <1>6 DEF u, v

\* A Write adds one element at the end and, when the reader is at the last
\* place of a full deque, takes the oldest one away.
\* Deque q of capacity c becomes q2 by a Write of e, and position p becomes p2.
Pushed(c, q, q2, p, p2, e) ==
  /\ c \in Nat \ {0} /\ q \in Seq(Nat) /\ q2 \in Seq(Nat)
  /\ p \in Int /\ p2 \in Int /\ e \in Nat
  /\ -1 <= p /\ p < Len(q) /\ Len(q) <= c
  /\ p2 = IF p = c - 1 THEN p ELSE p + 1
  /\ Len(q2) = IF Len(q) = c THEN c ELSE Len(q) + 1
  /\ q2[1] = e
  /\ \A i \in 2 .. Len(q2) : q2[i] = q[i - 1]

LEMMA ReadOrderAfterWrite ==
  ASSUME NEW c, NEW q, NEW q2, NEW p, NEW p2, NEW e, Pushed(c, q, q2, p, p2, e)
  PROVE  ReadOrder(q2, p2)
           = Append(IF Len(ReadOrder(q, p)) = c THEN Tail(ReadOrder(q, p))
                                                ELSE ReadOrder(q, p), e)
<1> USE DEF Pushed
<1> DEFINE u == ReadOrder(q, p)
           v == ReadOrder(q2, p2)
           w == IF Len(u) = c THEN Tail(u) ELSE u
           x == Append(w, e)
<1>1. Len(q) \in Nat /\ Len(q2) \in Nat /\ 0 <= p2 /\ -1 <= p2 /\ p2 < Len(q2)
  OBVIOUS
<1>2. u \in Seq(Nat) /\ Len(u) = p + 1 /\ \A i \in 1 .. p + 1 : u[i] = q[p + 2 - i]
  BY ReadOrderFacts
<1>3. v \in Seq(Nat) /\ Len(v) = p2 + 1 /\ \A i \in 1 .. p2 + 1 : v[i] = q2[p2 + 2 - i]
  BY <1>1, ReadOrderFacts
<1> HIDE DEF u, v
<1>4. w \in Seq(Nat) /\ Len(w) = p2 /\ \A i \in 1 .. p2 : w[i] = q[p2 + 1 - i]
  <2>1. CASE p = c - 1
    <3>1. p \in Nat /\ p2 = p
      BY <2>1
    <3>2. ReadOrder(q, p - 1) = Tail(u)
      BY <3>1, ReadOrderAfterTake DEF u
    <3>3. w = ReadOrder(q, p - 1)
      BY <2>1, <3>2, <1>2
    <3>4. p - 1 \in Int /\ -1 <= p - 1 /\ p - 1 < Len(q)
      BY <3>1
    <3> HIDE DEF w
    <3>5. /\ w \in Seq(Nat)
          /\ Len(w) = (p - 1) + 1
          /\ \A i \in 1 .. (p - 1) + 1 : w[i] = q[(p - 1) + 2 - i]
      BY <3>3, <3>4, ReadOrderFacts
    <3>6. (p - 1) + 1 = p2 /\ \A i \in 1 .. p2 : (p - 1) + 2 - i = p2 + 1 - i
      BY <3>1
    <3>7. QED
      BY <3>5, <3>6
  <2>2. CASE p # c - 1
    <3>1. w = u /\ p2 = p + 1
      BY <2>2, <1>2
    <3>2. \A i \in 1 .. p2 : p + 2 - i = p2 + 1 - i
      BY <3>1
    <3>3. QED
      BY <3>1, <3>2, <1>2
  <2>3. QED
    BY <2>1, <2>2
<1> HIDE DEF w
<1>5. /\ x \in Seq(Nat)
      /\ Len(x) = Len(w) + 1
      /\ \A i \in 1 .. Len(w) : x[i] = w[i]
      /\ x[Len(w) + 1] = e
  BY <1>4, AppendProperties
<1> HIDE DEF x
<1>6. ASSUME NEW i \in 1 .. p2 + 1 PROVE v[i] = x[i]
  <2>1. CASE i = p2 + 1
    <3>1. p2 + 2 - i = 1
      BY <2>1
    <3>2. QED
      BY <2>1, <3>1, <1>3, <1>4, <1>5
  <2>2. CASE i # p2 + 1
    <3>1. i \in 1 .. p2 /\ p2 + 2 - i \in 2 .. Len(q2)
      BY <2>2, <1>1
    <3>2. v[i] = q2[p2 + 2 - i] /\ x[i] = q[p2 + 1 - i]
      BY <3>1, <1>3, <1>4, <1>5
    <3>3. q2[p2 + 2 - i] = q[(p2 + 2 - i) - 1]
      BY <3>1
    <3>4. (p2 + 2 - i) - 1 = p2 + 1 - i
      BY <3>1
    <3>5. QED
      BY <3>2, <3>3, <3>4
  <2>3. QED
    BY <2>1, <2>2
<1>7. v = x
  <2>1. Len(v) = Len(x) /\ \A i \in 1 .. Len(v) : v[i] = x[i]
    BY <1>1, <1>3, <1>4, <1>5, <1>6
  <2>2. v \in Seq(Nat) /\ x \in Seq(Nat)
    BY <1>3, <1>5
  <2>3. QED
    BY <2>1, <2>2, SeqEqual
<1>8. QED
  BY <1>7 DEF v, x, w, u

LEMMA WriteRefines ==
  ASSUME IInv, IInv', Write
  PROVE  Fifo!Write
<1>1. TypeOK /\ PositionInQueue
  BY DEF IInv
<1>2. written \in Nat /\ written' = written + 1 /\ count \in Nat \ {0}
  BY <1>1, BoundsAssumption, CountAssumption DEF TypeOK, Write
<1>3. queue \in Seq(Nat) /\ queue' \in Seq(Nat) /\ Len(queue) <= count
  <2>1. queue \in Seq(1 .. written) /\ queue' \in Seq(1 .. written')
    BY DEF IInv, TypeOK
  <2>2. QED
    BY <1>1, <1>2, <2>1 DEF TypeOK
<1>4. /\ Len(queue') = IF Len(queue) = count THEN count ELSE Len(queue) + 1
      /\ queue'[1] = written'
      /\ \A i \in 2 .. Len(queue') : queue'[i] = queue[i - 1]
  BY <1>1, <1>2, PushFacts, KeptFacts DEF Write, Full
<1>5. ASSUME NEW r \in Readers
      PROVE  Unread(r)' = Append(Fifo!WithRoom(Unread(r)), written')
  <2>1. rpos[r] \in Int /\ -1 <= rpos[r] /\ rpos[r] < Len(queue) /\ rpos[r] <= count - 1
    BY <1>1, <1>2 DEF TypeOK, PositionInQueue, EMPTY
  <2>2. rpos'[r] = (IF Full /\ rpos[r] >= count - 1 THEN rpos[r] - 1 ELSE rpos[r]) + 1
    BY DEF Write, Push, Forwarded, RdFull
  <2>3. Len(queue) \in Nat
    BY <1>3
  <2>4. rpos'[r] = IF rpos[r] = count - 1 THEN rpos[r] ELSE rpos[r] + 1
    BY <2>1, <2>2, <2>3, <1>2, <1>3 DEF Full
  <2>5. rpos'[r] \in Int /\ written' \in Nat
    BY <2>1, <2>4, <1>2
  <2>6. ReadOrder(queue', rpos'[r]) = Append(Fifo!WithRoom(ReadOrder(queue, rpos[r])), written')
    <3>1. Pushed(count, queue, queue', rpos[r], rpos'[r], written')
      BY <1>2, <1>3, <1>4, <2>1, <2>4, <2>5 DEF Pushed
    <3>2. QED
      BY <3>1, ReadOrderAfterWrite DEF Fifo!WithRoom
  <2>7. QED
    BY <2>6 DEF Unread
<1>6. [r \in Readers |-> Unread(r)]'
        = [r \in Readers |-> Append(Fifo!WithRoom([s \in Readers |-> Unread(s)][r]), written')]
  BY <1>5
<1>7. QED
  BY <1>2, <1>6 DEF Fifo!Write, Write

LEMMA TakeRefines ==
  ASSUME IInv, NEW r \in Readers, Take(r)
  PROVE  Fifo!Read(r)
<1>1. written \in Nat
  BY BoundsAssumption DEF IInv, TypeOK
<1>2. queue \in Seq(Nat) /\ rpos[r] \in Nat /\ rpos[r] < Len(queue)
  BY <1>1, CountAssumption DEF IInv, TypeOK, PositionInQueue, Take, RdEmpty, EMPTY
<1>3. rpos'[r] = rpos[r] - 1 /\ queue' = queue
  BY DEF Take, IInv, TypeOK
<1>4. /\ Unread(r) # <<>>
      /\ Head(Unread(r)) = queue[rpos[r] + 1]
      /\ Unread(r)' = Tail(Unread(r))
  BY <1>2, <1>3, ReadOrderAfterTake DEF Unread
<1>5. ASSUME NEW s \in Readers, s # r PROVE Unread(s)' = Unread(s)
  BY <1>5 DEF Take, Unread, IInv, TypeOK
<1>6. [s \in Readers |-> Unread(s)]'
        = [[s \in Readers |-> Unread(s)] EXCEPT ![r] = Tail(@)]
  BY <1>4, <1>5
<1>7. QED
  BY <1>4, <1>6 DEF Fifo!Read, Take

LEMMA UnreadUnchanged ==
  ASSUME UNCHANGED <<queue, rpos>>
  PROVE  [r \in Readers |-> Unread(r)]' = [r \in Readers |-> Unread(r)]
BY DEF Unread

LEMMA StepRefines == IInv /\ IInv' /\ [Next]_vars => [Fifo!Next]_(Fifo!vars)
<1> SUFFICES ASSUME IInv, IInv', [Next]_vars PROVE [Fifo!Next]_(Fifo!vars)
  OBVIOUS
<1>1. CASE Write
  BY <1>1, WriteRefines DEF Fifo!Next
<1>2. CASE Clear
  <2>1. ASSUME NEW r \in Readers PROVE Unread(r)' = <<>>
    BY <1>2 DEF Clear, Unread, ReadOrder, EMPTY
  <2>2. Fifo!Clear
    BY <1>2, <2>1 DEF Clear, Fifo!Clear
  <2>3. QED
    BY <2>2 DEF Fifo!Next
<1>3. ASSUME NEW r \in Readers, Take(r) PROVE [Fifo!Next]_(Fifo!vars)
  BY <1>3, TakeRefines DEF Fifo!Next
<1>4. ASSUME NEW r \in Readers, ReturnTimeout(r) PROVE [Fifo!Next]_(Fifo!vars)
  BY <1>4, UnreadUnchanged DEF ReturnTimeout, TIMEOUT, Fifo!GiveUp, Fifo!Next
<1>5. ASSUME UNCHANGED <<queue, rpos, written, got>> PROVE [Fifo!Next]_(Fifo!vars)
  BY <1>5, UnreadUnchanged DEF Fifo!vars
<1>6. ASSUME NEW r \in Readers, Call(r) \/ Wait(r) \/ Expire(r) \/ SpuriousWake(r)
      PROVE  UNCHANGED <<queue, rpos, written, got>>
  BY <1>6 DEF Call, Wait, Expire, SpuriousWake
<1>7. CASE UNCHANGED vars
  BY <1>5, <1>7 DEF vars
<1>8. QED
  BY <1>1, <1>2, <1>3, <1>4, <1>5, <1>6, <1>7 DEF Next, InRead

\* TRWRingQueue implements one lossy first-in first-out queue per reader:
\* elements come in the order of the Writes, none twice, and a reader loses
\* one only when it is count_ elements behind.
THEOREM Refinement == Spec => ImplementsLossyFifo
<1>1. Init => Fifo!Init
  <2> SUFFICES ASSUME Init PROVE Fifo!Init
    OBVIOUS
  <2>1. ASSUME NEW r \in Readers PROVE Unread(r) = <<>>
    BY DEF Init, Unread, ReadOrder, EMPTY
  <2>2. QED
    BY <2>1 DEF Init, Fifo!Init
<1>2. QED
  BY <1>1, StepRefines, SpecIInv, PTL DEF Spec, ImplementsLossyFifo, Fifo!Spec

=============================================================================
