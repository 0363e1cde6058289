----------------------------- MODULE LossyFifo -----------------------------
(***************************************************************************)
(* What TRWRingQueue promises its users.  Each reader has a first-in       *)
(* first-out queue of its own with room for count elements.  A writer      *)
(* appends its element to all of them and never waits; a reader loses an   *)
(* element only when it is count elements behind, and then the oldest.  A  *)
(* reader gets each element at most once, in the order of the writes.      *)
(***************************************************************************)
EXTENDS Integers, Sequences

CONSTANTS Readers, count

VARIABLES
  unread,    \* the elements each reader has still to get, the oldest first
  written,   \* the last element written
  got        \* the last element, or failure, each reader was given

Init ==
  /\ unread = [r \in Readers |-> <<>>]
  /\ written = 0
  /\ got = [r \in Readers |-> 0]

WithRoom(s) == IF Len(s) = count THEN Tail(s) ELSE s

Write ==
  /\ written' = written + 1
  /\ unread' = [r \in Readers |-> Append(WithRoom(unread[r]), written')]
  /\ UNCHANGED got

Read(r) ==
  /\ unread[r] # <<>>
  /\ got' = [got EXCEPT ![r] = Head(unread[r])]
  /\ unread' = [unread EXCEPT ![r] = Tail(@)]
  /\ UNCHANGED written

\* A Read may give up, and then takes nothing.
GiveUp(r) ==
  /\ got' = [got EXCEPT ![r] = -100]
  /\ UNCHANGED <<unread, written>>

Clear ==
  /\ unread' = [r \in Readers |-> <<>>]
  /\ UNCHANGED <<written, got>>

Next == Write \/ Clear \/ \E r \in Readers : Read(r) \/ GiveUp(r)

vars == <<unread, written, got>>

Spec == Init /\ [][Next]_vars

=============================================================================
