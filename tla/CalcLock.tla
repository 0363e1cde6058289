------------------------------ MODULE CalcLock ------------------------------
(***************************************************************************)
(* g_Mutex of alg.cpp, which is to let one algorithm run at a time, and    *)
(* the media semaphore of the picture each algorithm works on.  A round of *)
(* the driver monitoring (dmm), lane (adas), zoom, apc and track threads   *)
(* is ALG_Calculate_Lock, MS_P, the computation, MS_V,                     *)
(* ALG_Calculate_unLock.  pd_alg_Body computes without the lock and still  *)
(* calls ALG_Calculate_unLock.                                             *)
(*                                                                         *)
(* g_Mutex is a mutex of the default type: to lock it twice waits for      *)
(* ever, and to unlock it frees it whoever had locked it, as glibc does.   *)
(* External: MS_P, MS_V and ipsys, the process that writes the pictures    *)
(* under the same semaphores.                                              *)
(***************************************************************************)
EXTENDS Integers

CONSTANTS
  Algs,      \* the threads that lock
  Pd,        \* the thread that does not: {pd_alg_Body}, or none on its own
  Leaky,     \* threads whose MS_P error path keeps g_Mutex
  Quitters   \* threads that may return in the middle of the computation

ASSUME CalcLockAssumption ==
  /\ Leaky \subseteq Algs
  /\ Quitters \subseteq Algs
  /\ Algs \cap Pd = {}

VARIABLES
  locked,  \* g_Mutex
  sem,     \* who has the media semaphore of each thread's picture
  pc       \* where each thread stands

vars == <<locked, sem, pc>>

Threads == Algs \cup Pd

Init ==
  /\ locked = FALSE
  /\ sem = [a \in Algs |-> "free"]
  /\ pc = [t \in Threads |-> "idle"]

\* Between ALG_Calculate_Lock and ALG_Calculate_unLock.
Inside(t) == pc[t] \in {"p", "run", "v", "unlock"}

Goto(t, from, to) == pc[t] = from /\ pc' = [pc EXCEPT ![t] = to]

-----------------------------------------------------------------------------
ALG_Calculate_Lock(a) ==
  /\ ~locked
  /\ locked' = TRUE
  /\ Goto(a, "idle", "p")
  /\ UNCHANGED sem

MS_P(a) ==
  /\ Goto(a, "p", "run")
  /\ sem[a] = "free"
  /\ sem' = [sem EXCEPT ![a] = "alg"]
  /\ UNCHANGED locked

\* Mutant: MS_P's error is not looked at.
MS_P_Ignored(a) ==
  /\ Goto(a, "p", "run")
  /\ UNCHANGED <<locked, sem>>

\* MS_P returns an error: unlock and try again, or just try again.
MS_P_Fails(a) ==
  /\ Goto(a, "p", IF a \in Leaky THEN "idle" ELSE "unlock")
  /\ UNCHANGED <<locked, sem>>

\* Mutant: the path of a failed computation forgets MS_V.
ForwardNoV(a) ==
  /\ pc[a] = "run"
  /\ \E to \in {"v", "unlock"} : Goto(a, "run", to)
  /\ UNCHANGED <<locked, sem>>

\* The computation ends, well or not.
Forward(a) ==
  /\ Goto(a, "run", "v")
  /\ UNCHANGED <<locked, sem>>

\* Mutant: any thread function returns on an error.
QuitAny(a) ==
  /\ Goto(a, "run", "gone")
  /\ UNCHANGED <<locked, sem>>

\* The thread function returns: apc_Gui_Zoom or Msg_submitEvent has failed.
Quit(a) ==
  /\ a \in Quitters
  /\ Goto(a, "run", "gone")
  /\ UNCHANGED <<locked, sem>>

\* Mutant: MS_V is left out.
MS_V_None(a) ==
  /\ Goto(a, "v", "unlock")
  /\ UNCHANGED <<locked, sem>>

MS_V(a) ==
  /\ Goto(a, "v", "unlock")
  /\ sem' = [sem EXCEPT ![a] = "free"]
  /\ UNCHANGED locked

ALG_Calculate_unLock(t) ==
  /\ Goto(t, "unlock", "idle")
  /\ locked' = FALSE
  /\ UNCHANGED sem

-----------------------------------------------------------------------------
\* pd_alg_Body has taken a frame from its queue and analyses it ...
Analyse(p) ==
  /\ Goto(p, "idle", "run")
  /\ UNCHANGED <<locked, sem>>

\* ... until it has a result, or drops a frame of an invalid channel.
AnalyseDone(p) ==
  /\ Goto(p, "run", "unlock") \/ Goto(p, "idle", "unlock")
  /\ UNCHANGED <<locked, sem>>

\* ipsys writes the next picture.
WriteBegin(a) ==
  /\ sem[a] = "free"
  /\ sem' = [sem EXCEPT ![a] = "ipsys"]
  /\ UNCHANGED <<locked, pc>>

WriteEnd(a) ==
  /\ sem[a] = "ipsys"
  /\ sem' = [sem EXCEPT ![a] = "free"]
  /\ UNCHANGED <<locked, pc>>

Next ==
  \/ \E a \in Algs :
       \/ ALG_Calculate_Lock(a)
       \/ MS_P(a) \/ MS_P_Fails(a)
       \/ Forward(a) \/ Quit(a)
       \/ MS_V(a)
       \/ WriteBegin(a) \/ WriteEnd(a)
  \/ \E p \in Pd : Analyse(p) \/ AnalyseDone(p)
  \/ \E t \in Threads : ALG_Calculate_unLock(t)

\* A thread that holds the lock runs on, a semaphore that is free again and
\* again is given to the thread that waits for it, and ipsys gives it back.
Fairness ==
  /\ \A a \in Algs :
       /\ SF_vars(MS_P(a))
       /\ WF_vars(Forward(a))
       /\ WF_vars(MS_V(a))
       /\ WF_vars(WriteEnd(a))
  /\ \A t \in Threads : WF_vars(ALG_Calculate_unLock(t))

Spec == Init /\ [][Next]_vars /\ Fairness

-----------------------------------------------------------------------------
TypeOK ==
  /\ locked \in BOOLEAN
  /\ sem \in [Algs -> {"free", "alg", "ipsys"}]
  /\ pc \in [Threads -> {"idle", "p", "run", "v", "unlock", "gone"}]
  /\ \A a \in Algs : pc[a] = "gone" => a \in Quitters

\* Only one algorithm runs at the same time, as the comment at alg.cpp:75
\* says of g_Mutex.  It is so without pd_alg_Body (Pd = {}) only, which
\* computes without the lock and unlocks what others hold (pd.cpp:6883).
OneAlgorithm == \A t, u \in Threads : pc[t] = "run" /\ pc[u] = "run" => t = u

\* Although pd_alg_Body's unlock (pd.cpp:6883) lets several algorithms in at a
\* time, each computes on a picture that is its own until MS_V: ipsys does not
\* write it meanwhile, whichever calls of MS_P have failed before.
PictureKept == \A a \in Algs : pc[a] \in {"run", "v"} => sem[a] = "alg"

\* The lock is held and no thread that locks is going to release it.
Abandoned == locked /\ \A a \in Algs : ~Inside(a)

\* A held g_Mutex is released, whichever error paths are taken and however
\* ipsys uses the semaphores, unless a thread has left with it: by the MS_P
\* error path of dmm.cpp:1774-1780, 1936-1942 and 3158-3164, or by the
\* returns at apc.cpp:819 and track.cpp:437.
LockReleased == locked ~> (~locked \/ Abandoned)

\* The picture is given back to ipsys unless the thread returned with it.
MediaReleased == \A a \in Algs : sem[a] = "alg" ~> (sem[a] # "alg" \/ pc[a] = "gone")

=============================================================================
