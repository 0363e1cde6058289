--------------------------- MODULE RestartProofs ---------------------------
(***************************************************************************)
(* Proofs about Restart, for any limit of the watchdog, time to load,      *)
(* capacity of the queues and number of faults: no Read of the video       *)
(* threads runs into its timeout, and a model that is configured and does  *)
(* not run has a restart under way.                                        *)
(***************************************************************************)
EXTENDS Restart, TLAPS

\* RestartPending at every place of uart_receive: a model that is saved and
\* does not run has a restart under way, unless one is about to be scheduled.
RestartOwned ==
  phase = "run" /\ config # active => scheduled \/ failed \/ uart = "schedule"

\* A process that has not started its threads counts nothing.
NotStarted == ~Alive => time_out = 0 /\ \A s \in Waiters : wait[s] = 0

\* While the models are being loaded nothing sets the count back.
Loading == phase = "load" =>
  /\ time_out <= LoadRounds
  /\ \A s \in Waiters : wait[s] <= time_out

\* What both queues hold when the camera stalls, and the time to load, is all
\* that a waiter can be ahead of the watchdog.
Ahead == phase = "run" =>
  \A s \in Waiters : wait[s] <= time_out + LoadRounds + Middle + Pictures

\* A stage that has yet to do its work of this round counts as a round.
Due(s) == IF s \in due THEN 1 ELSE 0

\* FrameSave has waited for as many rounds as there have been indices taken
\* out of ringque_MIDDLE since, and then out of ringque.
SaveDrains == phase = "run" =>
  /\ middle > 0 => wait["save"] <= LoadRounds + Middle - middle + Due("vdec")
  /\ middle = 0 /\ pictures > 0 /\ ~hung =>
       wait["save"] <= LoadRounds + Middle + Pictures - pictures + Due("alg")

\* Vdec has waited for as many rounds as pictures have been taken out since.
VdecDrains == phase = "run" /\ pictures > 0 /\ ~hung =>
  wait["vdec"] <= LoadRounds + Pictures - pictures + Due("alg")

Clock == NotStarted /\ Loading /\ Ahead /\ SaveDrains /\ VdecDrains

IInv == TypeOK /\ RestartOwned /\ Clock

-----------------------------------------------------------------------------
LEMMA BlankFacts ==
  /\ Blank.active = "bsd" /\ Blank.scheduled = FALSE /\ Blank.failed = FALSE
  /\ Blank.uart = "idle" /\ Blank.want = "none"
  /\ Blank.time_out = 0 /\ Blank.wait = [s \in Waiters |-> 0]
  /\ Blank.middle = 0 /\ Blank.pictures = 0 /\ Blank.due = {} /\ Blank.hung = FALSE
BY DEF Blank

LEMMA InitIInv == Init => IInv
<1> SUFFICES ASSUME Init PROVE IInv
  OBVIOUS
<1>1. TypeOK
  <2>1. scheduled = FALSE /\ failed = FALSE /\ hung = FALSE
    BY BlankFacts, Zenon DEF Init
  <2>2. /\ active = "bsd" /\ uart = "idle" /\ want = "none" /\ time_out = 0
        /\ wait = [s \in Waiters |-> 0] /\ middle = 0 /\ pictures = 0 /\ due = {}
    BY BlankFacts, Zenon DEF Init
  <2>3. wait \in [Waiters -> 0 .. ReadRounds]
    BY <2>2, RestartAssumption
  <2>4. phase = "down" /\ node = TRUE /\ faults = 0 /\ config \in Models /\ params = "whole"
    BY Zenon DEF Init
  <2>5. /\ faults \in 0 .. MaxFaults /\ time_out \in 0 .. Limit
        /\ middle \in 0 .. Middle /\ pictures \in 0 .. Pictures
    BY <2>2, <2>4, RestartAssumption
  <2>6. QED
    BY <2>1, <2>2, <2>3, <2>4, <2>5, Zenon DEF TypeOK, Models
<1>2. RestartOwned /\ Clock
  BY BlankFacts DEF Init, RestartOwned, Clock, NotStarted, Loading, Ahead, SaveDrains, VdecDrains,
     Alive, Waiters
<1>3. QED
  BY <1>1, <1>2 DEF IInv

\* A kill, by whomever, leaves a process that has not been started.
LEMMA DieIInv ==
  ASSUME IInv, Die, UNCHANGED files, node' \in BOOLEAN, faults' \in 0 .. MaxFaults
  PROVE  IInv'
<1>1. TypeOK'
  <2>1. scheduled' = FALSE /\ failed' = FALSE /\ hung' = FALSE
    BY BlankFacts, Zenon DEF Die
  <2>2. /\ active' = "bsd" /\ uart' = "idle" /\ want' = "none" /\ time_out' = 0
        /\ wait' = [s \in Waiters |-> 0] /\ middle' = 0 /\ pictures' = 0 /\ due' = {}
    BY BlankFacts, Zenon DEF Die
  <2>3. wait' \in [Waiters -> 0 .. ReadRounds]
    BY <2>2, RestartAssumption
  <2>4. phase' = "down"
    BY Zenon DEF Die
  <2>5. /\ time_out' \in 0 .. Limit
        /\ middle' \in 0 .. Middle /\ pictures' \in 0 .. Pictures
    BY <2>2, <2>4, RestartAssumption
  <2>6. config' \in Models /\ params' \in {"whole", "torn"}
    BY DEF IInv, TypeOK, files
  <2>7. QED
    BY <2>1, <2>2, <2>3, <2>4, <2>5, <2>6, Zenon DEF TypeOK, Models
<1>2. RestartOwned' /\ Clock'
  BY BlankFacts DEF Die, RestartOwned, Clock, NotStarted, Loading, Ahead, SaveDrains, VdecDrains,
     Alive, Waiters
<1>3. QED
  BY <1>1, <1>2 DEF IInv

\* Steps that leave the phase and the video pipeline alone.
LEMMA ClockUnchanged ==
  ASSUME Clock, UNCHANGED <<phase, video>>
  PROVE  Clock'
BY DEF Clock, video, NotStarted, Loading, Ahead, SaveDrains, VdecDrains, Due, Alive

-----------------------------------------------------------------------------
(***************************************************************************)
(* Start.                                                                  *)
(***************************************************************************)
LEMMA StartIInv == ASSUME IInv, Start \/ InitAlgChn \/ Load PROVE IInv'
<1>1. TypeOK
  BY DEF IInv
<1>2. CASE Start
  BY <1>2 DEF Start, IInv, world, files, process, TypeOK, RestartOwned, Clock, NotStarted, Loading,
     Ahead, SaveDrains, VdecDrains, Alive
<1>3. CASE InitAlgChn /\ node
  <2>1. phase = "open" /\ phase' = "load" /\ UNCHANGED <<world, files, process>>
    BY <1>3 DEF InitAlgChn
  <2>2. time_out' = 0 /\ \A s \in Waiters : wait'[s] = 0
    BY <2>1 DEF IInv, Clock, NotStarted, Alive, process
  <2>3. Clock'
    BY <2>1, <2>2, RestartAssumption DEF Clock, NotStarted, Loading, Ahead, SaveDrains, VdecDrains, Alive
  <2>4. TypeOK' /\ RestartOwned'
    BY <1>1, <2>1 DEF world, files, process, TypeOK, RestartOwned
  <2>5. QED
    BY <2>3, <2>4 DEF IInv
<1>4. CASE InitAlgChn /\ ~node
  BY <1>1, <1>4, DieIInv DEF InitAlgChn, world, TypeOK
<1>5. CASE Load /\ phase' = "run"
  <2>1. phase = "load" /\ active' = config /\ UNCHANGED <<world, files, scheduled, failed, uart, want, video>>
    BY <1>5 DEF Load, Die
  <2>2. TypeOK' /\ RestartOwned'
    BY <1>1, <1>5, <2>1 DEF world, files, video, TypeOK, RestartOwned
  <2>3. /\ \A s \in Waiters : wait[s] \in Nat /\ wait[s] <= LoadRounds
        /\ middle \in 0 .. Middle /\ pictures \in 0 .. Pictures /\ time_out \in Nat
        /\ LoadRounds \in Nat /\ Middle \in Nat /\ Pictures \in Nat
    BY <1>1, <2>1, RestartAssumption DEF IInv, Clock, Loading, TypeOK
  <2>4. Ahead'
    BY <2>1, <2>3 DEF Ahead, video
  <2>5. SaveDrains' /\ VdecDrains'
    BY <2>1, <2>3 DEF SaveDrains, VdecDrains, video, Waiters, Due
  <2>6. NotStarted' /\ Loading'
    BY <1>5 DEF NotStarted, Loading, Alive
  <2>7. QED
    BY <2>2, <2>4, <2>5, <2>6 DEF IInv, Clock
<1>6. CASE Load /\ phase' # "run"
  BY <1>1, <1>6, DieIInv DEF Load, world, TypeOK
<1>7. QED
  BY <1>2, <1>3, <1>4, <1>5, <1>6 DEF InitAlgChn

-----------------------------------------------------------------------------
(***************************************************************************)
(* The video pipeline and the watchdog.                                    *)
(***************************************************************************)

\* The ranges that the arithmetic below needs.
LEMMA Ranges ==
  ASSUME TypeOK
  PROVE  /\ Limit \in Nat /\ LoadRounds \in Nat /\ ReadRounds \in Nat
         /\ Middle \in Nat /\ Pictures \in Nat
         /\ time_out \in Nat /\ middle \in Nat /\ pictures \in Nat
         /\ time_out <= Limit /\ middle <= Middle /\ pictures <= Pictures
         /\ wait["save"] \in Nat /\ wait["vdec"] \in Nat
         /\ \A s \in Waiters : wait[s] \in Nat /\ wait[s] <= ReadRounds
         /\ \A s : Due(s) \in {0, 1}
BY RestartAssumption DEF TypeOK, Waiters, Due

LEMMA FrameSaveIInv == ASSUME IInv, FrameSave PROVE IInv'
<1>1. TypeOK /\ Clock
  BY DEF IInv
<1>2. middle' \in 0 .. Middle
  <2>1. Atmost(middle + 1, Middle) \in 0 .. Middle
    BY <1>1, Ranges DEF Atmost
  <2>2. QED
    BY <1>1, <2>1 DEF FrameSave, TypeOK
<1>3. wait' \in [Waiters -> 0 .. ReadRounds] /\ wait'["save"] = 0 /\ wait'["vdec"] = wait["vdec"]
  BY <1>1, RestartAssumption DEF FrameSave, TypeOK, Waiters
<1>4. TypeOK' /\ RestartOwned'
  BY <1>1, <1>2, <1>3 DEF IInv, FrameSave, TypeOK, RestartOwned, world, files, serial
<1>5. /\ UNCHANGED <<phase, time_out, pictures, due, hung>>
      /\ \A s \in Waiters : wait'[s] \in Nat /\ wait'[s] <= wait[s]
  BY <1>1, <1>3, Ranges DEF FrameSave, Waiters
<1>6. NotStarted' /\ Loading' /\ Ahead'
  BY <1>1, <1>5, Ranges DEF Clock, NotStarted, Loading, Ahead, Alive, FrameSave
<1>7. SaveDrains' /\ VdecDrains'
  BY <1>1, <1>2, <1>3, <1>5, Ranges DEF Clock, SaveDrains, VdecDrains, Due
<1>8. QED
  BY <1>4, <1>6, <1>7 DEF IInv, Clock

LEMMA VdecIInv == ASSUME IInv, Vdec PROVE IInv'
<1>1. TypeOK /\ Clock
  BY DEF IInv
<1>2. middle > 0 /\ middle' = middle - 1 /\ due' = due \ {"vdec"} /\ UNCHANGED <<phase, time_out, hung>>
  BY DEF Vdec
<1>3. pictures' \in 0 .. Pictures
  <2>1. Atmost(pictures + 1, Pictures) \in 0 .. Pictures
    BY <1>1, Ranges DEF Atmost
  <2>2. QED
    BY <1>1, <2>1 DEF Vdec, TypeOK
<1>4. wait' \in [Waiters -> 0 .. ReadRounds] /\ wait'["vdec"] = 0 /\ wait'["save"] = wait["save"]
  BY <1>1, RestartAssumption DEF Vdec, TypeOK, Waiters
<1>5. TypeOK' /\ RestartOwned'
  <2>1. middle' \in 0 .. Middle /\ due' \subseteq {"vdec", "alg"}
    BY <1>1, <1>2, Ranges DEF TypeOK
  <2>2. QED
    BY <1>1, <1>3, <1>4, <2>1 DEF IInv, Vdec, TypeOK, RestartOwned, world, files, serial
<1>6. \A s \in Waiters : wait'[s] \in Nat /\ wait'[s] <= wait[s]
  BY <1>1, <1>4, Ranges DEF Waiters
<1>7. NotStarted' /\ Loading' /\ Ahead'
  BY <1>1, <1>2, <1>6, Ranges DEF Clock, NotStarted, Loading, Ahead, Alive, Vdec
<1>8. SaveDrains'
  <2>1. phase = "run" => wait["save"] <= LoadRounds + Middle - middle + 1
    BY <1>1, <1>2, Ranges DEF Clock, SaveDrains
  <2>2. Due("vdec")' = 0 /\ Due("alg")' \in {0, 1}
    BY <1>2 DEF Due
  <2>3. QED
    BY <1>1, <1>2, <1>3, <1>4, <2>1, <2>2, Ranges DEF SaveDrains
<1>9. VdecDrains'
  <2>1. Due("alg")' \in {0, 1}
    BY DEF Due
  <2>2. QED
    BY <1>1, <1>3, <1>4, <2>1, Ranges DEF VdecDrains
<1>10. QED
  BY <1>5, <1>7, <1>8, <1>9 DEF IInv, Clock

\* Here the bounds on the drained queues pay off: they hold up the watchdog's
\* count when pd_alg_Body sets it back.
LEMMA DetectIInv == ASSUME IInv, Detect PROVE IInv'
<1>1. TypeOK /\ Clock
  BY DEF IInv
<1>2. /\ phase = "run" /\ ~hung /\ pictures > 0 /\ pictures' = pictures - 1
      /\ due' = due \ {"alg"} /\ UNCHANGED <<phase, wait, middle, hung>>
  BY DEF Detect
<1>3. time_out' \in 0 .. Limit
  BY <1>1, Ranges, RestartAssumption DEF Detect, TypeOK
<1>4. TypeOK' /\ RestartOwned'
  <2>1. pictures' \in 0 .. Pictures /\ due' \subseteq {"vdec", "alg"}
    BY <1>1, <1>2, Ranges DEF TypeOK
  <2>2. QED
    BY <1>1, <1>3, <2>1 DEF IInv, Detect, TypeOK, RestartOwned, world, files, serial
<1>5. Due("vdec")' = Due("vdec") /\ Due("alg")' = 0
  BY <1>2 DEF Due
<1>6. SaveDrains' /\ VdecDrains'
  BY <1>1, <1>2, <1>5, Ranges DEF Clock, SaveDrains, VdecDrains
<1>7. Ahead'
  <2>1. wait["save"] <= LoadRounds + Middle + Pictures
    BY <1>1, <1>2, Ranges DEF Clock, SaveDrains
  <2>2. wait["vdec"] <= LoadRounds + Middle + Pictures
    BY <1>1, <1>2, Ranges DEF Clock, VdecDrains
  <2>3. QED
    BY <1>1, <1>2, <1>3, <2>1, <2>2, Ranges DEF Ahead, Waiters
<1>8. NotStarted' /\ Loading'
  BY <1>2 DEF NotStarted, Loading, Alive
<1>9. QED
  BY <1>4, <1>6, <1>7, <1>8 DEF IInv, Clock

LEMMA TickIInv == ASSUME IInv, Tick PROVE IInv'
<1>1. TypeOK /\ Clock
  BY DEF IInv
<1>2. CASE ~node \/ Expired
  <2>1. Die /\ UNCHANGED <<world, files>>
    BY <1>2 DEF Tick
  <2>2. QED
    BY <1>1, <2>1, DieIInv DEF world, TypeOK
<1>3. CASE node /\ ~Expired
  <2>1. /\ Alive /\ due = {} /\ (phase = "load" => time_out < LoadRounds)
        /\ time_out' = Atmost(time_out + 1, Limit) /\ wait' = Waited /\ due' = Working
        /\ UNCHANGED <<phase, serial, middle, pictures, hung, world, files>>
    BY <1>3 DEF Tick
  <2>2. time_out' = time_out + 1 /\ time_out' \in 0 .. Limit
    BY <1>1, <1>3, <2>1, Ranges DEF Expired, Atmost
  <2>3. /\ wait' \in [Waiters -> 0 .. ReadRounds]
        /\ \A s \in Waiters : wait'[s] <= wait[s] + 1
        /\ middle > 0 => wait'["vdec"] = 0
    <3>1. ASSUME NEW s \in Waiters
          PROVE  /\ Atmost(wait[s] + 1, ReadRounds) \in 0 .. ReadRounds
                 /\ Atmost(wait[s] + 1, ReadRounds) <= wait[s] + 1
      BY <1>1, Ranges DEF Atmost
    <3>2. QED
      BY <1>1, <2>1, <3>1, Ranges DEF Waited, Waiters
  <2>4. TypeOK' /\ RestartOwned'
    BY <1>1, <2>1, <2>2, <2>3 DEF IInv, TypeOK, RestartOwned, world, files, serial, Working
  <2>5. \A s \in Waiters : wait'[s] \in Nat
    BY <1>1, <2>3, Ranges
  <2>6. NotStarted' /\ Loading' /\ Ahead'
    BY <1>1, <2>1, <2>2, <2>3, <2>5, Ranges DEF Clock, NotStarted, Loading, Ahead, Alive
  <2>7. /\ Due("vdec") = 0 /\ Due("alg") = 0
        /\ middle > 0 => Due("vdec")' = 1
        /\ phase = "run" /\ pictures > 0 /\ ~hung => Due("alg")' = 1
    BY <2>1 DEF Due, Working
  <2>8. SaveDrains'
    BY <1>1, <2>1, <2>3, <2>5, <2>7, Ranges DEF Clock, SaveDrains, Waiters
  <2>9. VdecDrains'
    BY <1>1, <2>1, <2>3, <2>5, <2>7, Ranges DEF Clock, VdecDrains, Waiters
  <2>10. QED
    BY <2>4, <2>6, <2>8, <2>9 DEF IInv, Clock
<1>4. QED
  BY <1>2, <1>3

-----------------------------------------------------------------------------
(***************************************************************************)
(* The UART, and faults.                                                   *)
(***************************************************************************)
LEMMA ReceiveIInv ==
  ASSUME IInv, NEW m \in Models \cup {"none", "unknown"}, Receive(m)
  PROVE  IInv'
<1>1. TypeOK' /\ RestartOwned'
  BY DEF IInv, Receive, TypeOK, RestartOwned, world, files, video
<1>2. Clock'
  BY ClockUnchanged DEF IInv, Receive
<1>3. QED
  BY <1>1, <1>2 DEF IInv

LEMMA SaveIInv == ASSUME IInv, BeginSave \/ EndSave \/ FailSave PROVE IInv'
<1>1. TypeOK' /\ RestartOwned'
  <2>1. CASE BeginSave
    BY <2>1 DEF IInv, BeginSave, TypeOK, RestartOwned, world, video
  <2>2. CASE EndSave
    BY <2>2 DEF IInv, EndSave, Answered, TypeOK, RestartOwned, world, video
  <2>3. CASE FailSave
    BY <2>3 DEF IInv, FailSave, Answered, TypeOK, RestartOwned, world, files, video
  <2>4. QED
    BY <2>1, <2>2, <2>3
<1>2. Clock'
  BY ClockUnchanged DEF IInv, BeginSave, EndSave, FailSave
<1>3. QED
  BY <1>1, <1>2 DEF IInv

\* A model that is saved now, or was saved already and does not run, is on its
\* way to pd_ScheduleAlgRestart, and a failure before this one is forgotten.
LEMMA PersistIInv == ASSUME IInv, Persist PROVE IInv'
<1>1. CASE want \in Models /\ config' = want /\ failed' = FALSE
           /\ (IF want # config \/ want # active
                 THEN uart' = "schedule" /\ UNCHANGED want ELSE Answered("none"))
  <2>1. TypeOK'
    BY <1>1 DEF IInv, Persist, Answered, TypeOK, world, video
  <2>2. active' = active
    BY DEF Persist
  <2>3. RestartOwned'
    BY <1>1, <2>2 DEF RestartOwned
  <2>4. QED
    BY <2>1, <2>3, ClockUnchanged DEF IInv, Persist
<1>2. CASE Answered("none") /\ UNCHANGED <<config, failed>>
  <2>1. TypeOK'
    BY <1>2 DEF IInv, Persist, Answered, TypeOK, world, video
  <2>2. RestartOwned'
    BY <1>2 DEF IInv, Persist, RestartOwned
  <2>3. QED
    BY <2>1, <2>2, ClockUnchanged DEF IInv, Persist
<1>3. QED
  BY <1>1, <1>2 DEF Persist

LEMMA ScheduleIInv == ASSUME IInv, Schedule PROVE IInv'
<1>1. TypeOK'
  BY DEF IInv, Schedule, Answered, TypeOK, world, files, video
<1>2. scheduled' \/ failed'
  BY DEF Schedule
<1>3. RestartOwned'
  BY <1>2 DEF RestartOwned
<1>4. QED
  BY <1>1, <1>3, ClockUnchanged DEF IInv, Schedule

LEMMA FaultIInv ==
  ASSUME IInv, RestartAlg \/ Kill \/ LoseNode \/ FindNode \/ Hang
  PROVE  IInv'
<1>1. TypeOK /\ Clock
  BY DEF IInv
<1>2. Fault => faults' \in 0 .. MaxFaults
  BY <1>1, RestartAssumption DEF Fault, TypeOK
<1>3. CASE RestartAlg
  BY <1>1, <1>3, DieIInv DEF RestartAlg, world, TypeOK
<1>4. CASE Kill
  BY <1>1, <1>2, <1>4, DieIInv DEF Kill, TypeOK
<1>5. CASE LoseNode \/ FindNode
  <2>1. TypeOK' /\ RestartOwned'
    BY <1>1, <1>2, <1>5 DEF IInv, LoseNode, FindNode, TypeOK, RestartOwned, files, process
  <2>2. Clock'
    BY <1>1, <1>5, ClockUnchanged DEF LoseNode, FindNode, process, video
  <2>3. QED
    BY <2>1, <2>2 DEF IInv
<1>6. CASE Hang
  <2>1. TypeOK' /\ RestartOwned'
    BY <1>1, <1>2, <1>6 DEF IInv, Hang, TypeOK, RestartOwned, files, serial
  <2>2. NotStarted' /\ Loading' /\ Ahead' /\ VdecDrains'
    BY <1>1, <1>6 DEF Clock, Hang, NotStarted, Loading, Ahead, VdecDrains, Alive
  <2>3. Due("vdec")' = Due("vdec")
    BY <1>6 DEF Hang, Due
  <2>4. SaveDrains'
    BY <1>1, <1>6, <2>3 DEF Clock, Hang, SaveDrains
  <2>5. QED
    BY <2>1, <2>2, <2>4 DEF IInv, Clock
<1>7. QED
  BY <1>3, <1>4, <1>5, <1>6

LEMMA NextIInv == IInv /\ [Next]_vars => IInv'
<1> SUFFICES ASSUME IInv, [Next]_vars PROVE IInv'
  OBVIOUS
<1>1. CASE UNCHANGED vars
  <2>1. TypeOK' /\ RestartOwned'
    BY <1>1 DEF IInv, vars, world, files, process, TypeOK, RestartOwned
  <2>2. Clock'
    BY <1>1, ClockUnchanged DEF IInv, vars, process, video
  <2>3. QED
    BY <2>1, <2>2 DEF IInv
<1>2. CASE Start \/ InitAlgChn \/ Load
  BY <1>2, StartIInv
<1>3. CASE FrameSave \/ Vdec \/ Detect \/ Tick
  BY <1>3, FrameSaveIInv, VdecIInv, DetectIInv, TickIInv
<1>4. CASE \E m \in Models \cup {"none", "unknown"} : Receive(m)
  BY <1>4, ReceiveIInv
<1>5. CASE Uart
  BY <1>5, SaveIInv, PersistIInv, ScheduleIInv DEF Uart
<1>6. CASE RestartAlg \/ Kill \/ LoseNode \/ FindNode \/ Hang
  BY <1>6, FaultIInv
<1>7. QED
  BY <1>1, <1>2, <1>3, <1>4, <1>5, <1>6 DEF Next

LEMMA SpecIInv == Spec => []IInv
BY InitIInv, NextIInv, PTL DEF Spec

-----------------------------------------------------------------------------
\* Type correctness: s32time_out never passes the limit, and the queues never
\* hold more than their capacity.
THEOREM TypeCorrect == Spec => []TypeOK
<1>1. IInv => TypeOK
  BY DEF IInv
<1>2. QED
  BY <1>1, SpecIInv, PTL

\* The watchdog kills the process before FrameSave or Vdec can take a timeout
\* for an index.
THEOREM NoTimeoutIndexSafe == Spec => []NoTimeoutIndex
<1>1. IInv => NoTimeoutIndex
  <2> SUFFICES ASSUME IInv, NEW s \in Waiters PROVE wait[s] < ReadRounds
    BY DEF NoTimeoutIndex
  <2>1. TypeOK /\ Clock
    BY DEF IInv
  <2>2. /\ LoadRounds \in Nat /\ Limit \in Nat /\ Middle \in Nat /\ Pictures \in Nat /\ ReadRounds \in Nat
        /\ LoadRounds <= Limit /\ ReadRounds > LoadRounds + Limit + Middle + Pictures /\ Middle > 0
    BY RestartAssumption
  <2>3. CASE phase = "run"
    BY <2>1, <2>2, <2>3, Ranges DEF Clock, Ahead
  <2>4. CASE phase = "load"
    BY <2>1, <2>2, <2>4, Ranges DEF Clock, Loading
  <2>5. CASE ~Alive
    BY <2>1, <2>2, <2>5, Ranges DEF Clock, NotStarted
  <2>6. QED
    BY <2>3, <2>4, <2>5 DEF Alive
<1>2. QED
  BY <1>1, SpecIInv, PTL

\* A process that does not run the configured model is going to be restarted,
\* or the thread that should restart it could not be created.
THEOREM RestartPendingSafe == Spec => []RestartPending
<1>1. IInv => RestartPending
  BY DEF IInv, RestartOwned, RestartPending
<1>2. QED
  BY <1>1, SpecIInv, PTL

=============================================================================
