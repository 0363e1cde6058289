----------------------------- MODULE RingQueue -----------------------------
(***************************************************************************)
(* TRWRingQueue<T> of include/itc.h: one writer, several readers.  The     *)
(* deque queue_ keeps the newest element in front; rpos_[r] is the index   *)
(* of the next element of reader r, and -1 when r has read everything.     *)
(* Write never blocks: it evicts the oldest element of a full queue, read  *)
(* or not.  Every operation holds lock_, so each one is a single step,     *)
(* except that a reader that finds nothing gives the lock up in            *)
(* cond_.wait / cond_.wait_for and takes it again later.                   *)
(*                                                                         *)
(* The elements are the numbers 1, 2, 3 ... in the order of the Writes, so *)
(* that order, loss and duplication can be observed.                       *)
(***************************************************************************)
EXTENDS Integers, Sequences

CONSTANTS
  Readers,    \* the channels 0 .. TRWRINGQUE_READER_MAX - 1
  Timed,      \* the readers that call Read with timeout >= 0
  count,      \* count_, the most elements the queue keeps
  MaxWrites,  \* bound: number of Writes
  MaxWakes    \* bound: number of spurious wake-ups

\* count_ = 0 (the constructor's default) would make Write read at(-1).
ASSUME CountAssumption == count \in Nat \ {0}
ASSUME ReadersAssumption == Timed \subseteq Readers
ASSUME BoundsAssumption == MaxWrites \in Nat /\ MaxWakes \in Nat

VARIABLES
  queue,    \* queue_; queue[1] is the front, the newest element
  rpos,     \* rpos_
  written,  \* number of Writes so far, the last element written
  pc,       \* where each reader stands in Read
  got,      \* what the last Read of each reader returned
  wakes     \* spurious wake-ups so far

vars == <<queue, rpos, written, pc, got, wakes>>

EMPTY == -1          \* TRWRINGQUE_RPOS_EMPTY
TIMEOUT == -100      \* TRWRQ_ERROR_READ_TIMEOUT

\* Mutant: the last position taken for a free one.
RdFullOffByOne(r) == rpos[r] >= count

RdFull(r) == rpos[r] >= count - 1
RdEmpty(r) == rpos[r] <= EMPTY

Init ==
  /\ queue = <<>>
  /\ rpos = [r \in Readers |-> EMPTY]
  /\ written = 0
  /\ pc = [r \in Readers |-> "idle"]
  /\ got = [r \in Readers |-> 0]
  /\ wakes = 0

-----------------------------------------------------------------------------
(***************************************************************************)
(* The writer.                                                             *)
(***************************************************************************)
Full == Len(queue) = count

\* queue_ once the oldest element has been popped from a full queue.
Kept == IF Full THEN SubSeq(queue, 1, count - 1) ELSE queue

\* A reader that had not read the popped element loses it.
Forwarded(r) == IF Full /\ RdFull(r) THEN rpos[r] - 1 ELSE rpos[r]

\* emplace_front, then ++rpos_ of every reader.
Push(v) ==
  /\ queue' = <<v>> \o Kept
  /\ rpos' = [r \in Readers |-> Forwarded(r) + 1]

\* Mutant: no notification.
NotifyNobody == pc' = pc

\* cond_.notify_all(): every waiting reader goes back to its loop test.
NotifyAll == pc' = [r \in Readers |-> IF pc[r] = "wait" THEN "test" ELSE pc[r]]

Write ==
  /\ written < MaxWrites
  /\ written' = written + 1
  /\ Push(written + 1)
  /\ NotifyAll
  /\ UNCHANGED <<got, wakes>>

\* Mutant: the positions are not reset.
ClearQueueOnly ==
  /\ queue' = <<>>
  /\ UNCHANGED <<rpos, written, pc, got, wakes>>

\* Clear drops every element and notifies nobody.
Clear ==
  /\ queue' = <<>>
  /\ rpos' = [r \in Readers |-> EMPTY]
  /\ UNCHANGED <<written, pc, got, wakes>>

-----------------------------------------------------------------------------
(***************************************************************************)
(* A reader: idle -> test (the loop test, lock_ held) -> wait -> test ...  *)
(* until it takes an element, or -> expired, when wait_for has timed out   *)
(* and the reader still has to take the lock again.                        *)
(***************************************************************************)
Call(r) ==
  /\ pc[r] = "idle"
  /\ pc' = [pc EXCEPT ![r] = "test"]
  /\ UNCHANGED <<queue, rpos, written, got, wakes>>

\* Mutant: the position is not moved on.
TakeTwice(r) ==
  /\ pc[r] = "test"
  /\ ~RdEmpty(r)
  /\ got' = [got EXCEPT ![r] = queue[rpos[r] + 1]]
  /\ pc' = [pc EXCEPT ![r] = "idle"]
  /\ UNCHANGED <<queue, rpos, written, wakes>>

Take(r) ==
  /\ pc[r] = "test"
  /\ ~RdEmpty(r)
  /\ got' = [got EXCEPT ![r] = queue[rpos[r] + 1]]
  /\ rpos' = [rpos EXCEPT ![r] = @ - 1]
  /\ pc' = [pc EXCEPT ![r] = "idle"]
  /\ UNCHANGED <<queue, written, wakes>>

Wait(r) ==
  /\ pc[r] = "test"
  /\ RdEmpty(r)
  /\ pc' = [pc EXCEPT ![r] = "wait"]
  /\ UNCHANGED <<queue, rpos, written, got, wakes>>

\* Both waits may return without a notification; the loop tests again, and
\* wait_for then starts with the whole timeout.
SpuriousWake(r) ==
  /\ pc[r] = "wait"
  /\ wakes < MaxWakes
  /\ wakes' = wakes + 1
  /\ pc' = [pc EXCEPT ![r] = "test"]
  /\ UNCHANGED <<queue, rpos, written, got>>

\* Mutant: the status of wait_for is ignored and the loop goes on.
ExpireIgnored(r) ==
  /\ r \in Timed
  /\ pc[r] = "wait"
  /\ pc' = [pc EXCEPT ![r] = "test"]
  /\ UNCHANGED <<queue, rpos, written, got, wakes>>

Expire(r) ==
  /\ r \in Timed
  /\ pc[r] = "wait"
  /\ pc' = [pc EXCEPT ![r] = "expired"]
  /\ UNCHANGED <<queue, rpos, written, got, wakes>>

\* The status decides, not RdEmpty: a Write that came in between is not seen.
ReturnTimeout(r) ==
  /\ pc[r] = "expired"
  /\ got' = [got EXCEPT ![r] = TIMEOUT]
  /\ pc' = [pc EXCEPT ![r] = "idle"]
  /\ UNCHANGED <<queue, rpos, written, wakes>>

InRead(r) == Take(r) \/ Wait(r) \/ Expire(r) \/ ReturnTimeout(r)

Next ==
  \/ Write
  \/ Clear
  \/ \E r \in Readers : Call(r) \/ InRead(r) \/ SpuriousWake(r)

\* A thread inside Read runs on: the mutex is held for short sections only,
\* and wait_for returns once its time is over.
Spec == Init /\ [][Next]_vars /\ \A r \in Readers : WF_vars(InRead(r))

-----------------------------------------------------------------------------
TypeOK ==
  /\ queue \in Seq(1 .. written)
  /\ Len(queue) <= count
  /\ rpos \in [Readers -> EMPTY .. count - 1]
  /\ written \in 0 .. MaxWrites
  /\ pc \in [Readers -> {"idle", "test", "wait", "expired"}]
  /\ got \in [Readers -> 0 .. written \cup {TIMEOUT}]
  /\ wakes \in 0 .. MaxWakes

\* queue_.at(rpos_[chn]) in Read (itc.h:86) never throws: however evictions,
\* reads and clears interleave, a reader's position stays inside the deque.
PositionInQueue == \A r \in Readers : rpos[r] < Len(queue)

\* The deque holds consecutive elements, the newest first: eviction and
\* emplace_front (itc.h:101-113) leave no hole and no duplicate.
Consecutive == \A i \in 1 .. Len(queue) : queue[i] = written - i + 1

\* No lost wake-up: a reader sleeps in cond_ only while it has nothing to
\* read, because every Write that gives it something notifies it (itc.h:115).
NoLostWakeup == \A r \in Readers : pc[r] = "wait" => RdEmpty(r)

\* A Read with a timeout returns even when the writer has stopped; the
\* comment at itc.h:93 ("if writing is stopped first, then readings may be
\* blocked") is about the Read without one.
TimedReadReturns == \A r \in Timed : pc[r] = "test" ~> pc[r] = "idle"

-----------------------------------------------------------------------------
\* The elements of deque q from position p to the front, in reading order.
ReadOrder(q, p) == [i \in 1 .. p + 1 |-> q[p + 2 - i]]

\* What reader r has still to get, the oldest first.
Unread(r) == ReadOrder(queue, rpos[r])

Fifo == INSTANCE LossyFifo WITH unread <- [r \in Readers |-> Unread(r)]

\* The shared deque and the positions implement one lossy queue per reader:
\* Write, Read and Clear of itc.h change what a reader will get exactly as
\* LossyFifo says.
ImplementsLossyFifo == Fifo!Spec

=============================================================================
