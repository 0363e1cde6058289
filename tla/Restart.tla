------------------------------- MODULE Restart -------------------------------
(***************************************************************************)
(* Life and death of the alg process as pd/pd.cpp governs it.              *)
(*   - check.sh starts the process.  PD_Init opens the camera, starts the  *)
(*     video threads and the monitor, and only then loads the models;      *)
(*     the thread that listens to the camera board (UART) comes last.      *)
(*   - The monitor counts rounds of 200 ms; pd_alg_Body sets the count to  *)
(*     0 for every frame it gets through.  More than 100 rounds, or a      *)
(*     camera that is gone, and the process is killed.                     *)
(*   - FrameSave and Vdec wait 500 s for an index and use whatever Read    *)
(*     returns, a timeout too, as an index.                                *)
(*   - The board sends parameters and a model (BSD or flow with pallets).  *)
(*     They are saved, and the process kills itself to run the new model.  *)
(*                                                                         *)
(* Time is counted in rounds of the monitor.  A stage of the video         *)
(* pipeline that has work does a piece of it in every round.  Sizes of     *)
(* queues are all that is left of the frames.                              *)
(***************************************************************************)
EXTENDS Integers

CONSTANTS
  Limit,       \* 100: rounds without a processed frame before the kill
  LoadRounds,  \* rounds that PD_Init needs, at most, to load the models
  ReadRounds,  \* rounds that are sure to fit into the 500 s of a Read
  Middle,      \* capacity of ringque_MIDDLE (39)
  Pictures,    \* capacity of ringque (11)
  MaxFaults    \* bound: lost cameras, hanging detectors, other kills

ASSUME RestartAssumption ==
  /\ Limit \in Nat /\ LoadRounds \in Nat /\ ReadRounds \in Nat
  /\ Middle \in Nat \ {0} /\ Pictures \in Nat \ {0} /\ MaxFaults \in Nat
  /\ LoadRounds <= Limit
  /\ ReadRounds > LoadRounds + Limit + Middle + Pictures

VARIABLES
  phase,      \* down, open, load, run
  node,       \* the video node exists
  faults,     \* number of faults so far
  config,     \* enPdsModel of the configuration file
  params,     \* PALLET_CONFIG: whole or torn
  active,     \* g_bFlowPalletMode
  scheduled,  \* g_bRestartScheduled: pd_RestartAlgThread sleeps
  failed,     \* history: the thread for the last restart could not be created
  uart,       \* where uart_receive stands
  want,       \* the model that the frame asks for, or "none"
  time_out,   \* s32time_out
  wait,       \* rounds that FrameSave and Vdec have waited in Read
  middle,     \* unread indices of ringque_MIDDLE
  pictures,   \* unread indices of ringque
  due,        \* stages that have yet to do something in this round
  hung        \* the detector does not return

process == <<active, scheduled, failed, uart, want, time_out, wait, middle, pictures, due, hung>>
files == <<config, params>>
serial == <<active, scheduled, failed, uart, want>>
video == <<time_out, wait, middle, pictures, due, hung>>
world == <<node, faults>>
vars == <<phase, world, files, process>>

Models == {"bsd", "flow"}
Waiters == {"save", "vdec"}

\* A process that has just been started, or is dead.
Blank ==
  [active |-> "bsd", scheduled |-> FALSE, failed |-> FALSE, uart |-> "idle", want |-> "none",
   time_out |-> 0, wait |-> [s \in Waiters |-> 0], middle |-> 0, pictures |-> 0,
   due |-> {}, hung |-> FALSE]

Init ==
  /\ phase = "down"
  /\ node = TRUE
  /\ faults = 0
  /\ config \in Models
  /\ params = "whole"
  /\ active = Blank.active
  /\ scheduled = Blank.scheduled
  /\ failed = Blank.failed
  /\ uart = Blank.uart
  /\ want = Blank.want
  /\ time_out = Blank.time_out
  /\ wait = Blank.wait
  /\ middle = Blank.middle
  /\ pictures = Blank.pictures
  /\ due = Blank.due
  /\ hung = Blank.hung

Die ==
  /\ phase' = "down"
  /\ active' = Blank.active
  /\ scheduled' = Blank.scheduled
  /\ failed' = Blank.failed
  /\ uart' = Blank.uart
  /\ want' = Blank.want
  /\ time_out' = Blank.time_out
  /\ wait' = Blank.wait
  /\ middle' = Blank.middle
  /\ pictures' = Blank.pictures
  /\ due' = Blank.due
  /\ hung' = Blank.hung

Alive == phase \in {"load", "run"}

-----------------------------------------------------------------------------
(***************************************************************************)
(* Start.                                                                  *)
(***************************************************************************)

\* check.sh.
Start ==
  /\ phase = "down"
  /\ phase' = "open"
  /\ UNCHANGED <<world, files, process>>

\* mpp_vpss_InitAlgChn, and the threads; without a camera the process is
\* killed.
InitAlgChn ==
  /\ phase = "open"
  /\ \/ node /\ phase' = "load" /\ UNCHANGED process
     \/ ~node /\ Die
  /\ UNCHANGED <<world, files>>

\* The rest of PD_Init, and PD_Start.  Flow mode needs its parameters.
Load ==
  /\ phase = "load"
  /\ \/ /\ config = "flow" => params = "whole"
        /\ phase' = "run"
        /\ active' = config
        /\ UNCHANGED <<scheduled, failed, uart, want, video>>
     \/ config = "flow" /\ params = "torn" /\ Die
  /\ UNCHANGED <<world, files>>

-----------------------------------------------------------------------------
(***************************************************************************)
(* The video pipeline and the watchdog.                                    *)
(***************************************************************************)

\* Mutant: a queue holds as many indices as it has slots.
AtmostAllSlots(n, bound) == IF n <= bound THEN n ELSE bound + 1

\* A full queue drops its oldest index.
Atmost(n, bound) == IF n < bound THEN n ELSE bound

\* FrameSave reads an index; the frame may be dropped (FrameGate).
FrameSave ==
  /\ Alive
  /\ node
  /\ wait' = [wait EXCEPT !["save"] = 0]
  /\ middle' \in {middle, Atmost(middle + 1, Middle)}
  /\ UNCHANGED <<phase, world, files, serial, time_out, pictures, due, hung>>

\* Vdec reads an index; decoding may fail.
Vdec ==
  /\ Alive
  /\ middle > 0
  /\ middle' = middle - 1
  /\ wait' = [wait EXCEPT !["vdec"] = 0]
  /\ pictures' \in {pictures, Atmost(pictures + 1, Pictures)}
  /\ due' = due \ {"vdec"}
  /\ UNCHANGED <<phase, world, files, serial, time_out, hung>>

\* Mutant: the count is reset before there is a frame.
DetectEarly ==
  /\ phase = "run"
  /\ ~hung
  /\ pictures' = Atmost(pictures, Pictures) - (IF pictures > 0 THEN 1 ELSE 0)
  /\ time_out' = 0
  /\ due' = due \ {"alg"}
  /\ UNCHANGED <<phase, world, files, serial, wait, middle, hung>>

\* pd_alg_Body gets through a frame, or gives it up on the way.
Detect ==
  /\ phase = "run"
  /\ ~hung
  /\ pictures > 0
  /\ pictures' = pictures - 1
  /\ time_out' \in {0, time_out}
  /\ due' = due \ {"alg"}
  /\ UNCHANGED <<phase, world, files, serial, wait, middle, hung>>

\* The stages that have something to do.
Working == {s \in {"vdec", "alg"} :
  IF s = "vdec" THEN middle > 0 ELSE phase = "run" /\ pictures > 0 /\ ~hung}

\* The rounds waited so far: a Read that finds something does not wait.
Waited == [s \in Waiters |->
  IF s = "vdec" /\ middle > 0 THEN 0 ELSE Atmost(wait[s] + 1, ReadRounds)]

\* Mutant: the limit is shorter than loading the models takes.
ExpiredEarly == time_out + 1 > LoadRounds \div 2

\* Mutant: the count is compared with nothing.
ExpiredNever == FALSE

\* s32time_out ++; if(s32time_out > 100).
Expired == time_out + 1 > Limit

\* A round of mpp_vpss_Monitor.
Tick ==
  /\ Alive
  /\ due = {}
  /\ phase = "load" => time_out < LoadRounds
  /\ \/ /\ node /\ ~Expired
        /\ time_out' = Atmost(time_out + 1, Limit)
        /\ wait' = Waited
        /\ due' = Working
        /\ UNCHANGED <<phase, serial, middle, pictures, hung>>
     \/ (~node \/ Expired) /\ Die
  /\ UNCHANGED <<world, files>>

-----------------------------------------------------------------------------
(***************************************************************************)
(* The UART: parameters and model (pd_HandlePalletFrame).                  *)
(***************************************************************************)

\* A frame of 14 bytes (parameters) or of 15 (a model too, known or not).
\* The parameters are saved in flow mode only.
Receive(m) ==
  /\ phase = "run"
  /\ uart = "idle"
  /\ m = "none" => active = "flow"
  /\ uart' = IF active = "flow" THEN "save" ELSE "persist"
  /\ want' = m
  /\ UNCHANGED <<phase, world, files, active, scheduled, failed, video>>

\* The frame is done with; an answer may have been sent.
Answered(m) == uart' = "idle" /\ want' = m

\* SaveParams opens the file ...
BeginSave ==
  /\ uart = "save"
  /\ uart' = "saving"
  /\ params' = "torn"
  /\ UNCHANGED <<phase, world, config, active, scheduled, failed, want, video>>

\* ... and has written it.
EndSave ==
  /\ uart = "saving"
  /\ params' = "whole"
  /\ IF want = "none" THEN Answered("none") ELSE uart' = "persist" /\ UNCHANGED want
  /\ UNCHANGED <<phase, world, config, active, scheduled, failed, video>>

\* SaveParams fails, before or while it writes.
FailSave ==
  /\ uart \in {"save", "saving"}
  /\ Answered("none")
  /\ UNCHANGED <<phase, world, files, active, scheduled, failed, video>>

\* Mutant: the saved model alone decides that there is nothing to do.
PersistSavedOnly ==
  /\ uart = "persist"
  /\ \/ /\ want \in Models
        /\ config' = want
        /\ IF want # config THEN uart' = "schedule" /\ UNCHANGED want ELSE Answered("none")
        /\ failed' = FALSE
     \/ Answered("none") /\ UNCHANGED <<config, failed>>
  /\ UNCHANGED <<phase, world, params, active, scheduled, video>>

\* pd_PersistModelMode: the model is saved, or is saved already but does not
\* run; it runs already; or there is no such model or the configuration
\* cannot be read or written.
Persist ==
  /\ uart = "persist"
  /\ \/ /\ want \in Models
        /\ config' = want
        /\ IF want # config \/ want # active
             THEN uart' = "schedule" /\ UNCHANGED want
             ELSE Answered("none")
        /\ failed' = FALSE
     \/ Answered("none") /\ UNCHANGED <<config, failed>>
  /\ UNCHANGED <<phase, world, params, active, scheduled, video>>

\* Mutant: a failing restart leaves g_bRestartScheduled set.
ScheduleStuck ==
  /\ uart = "schedule"
  /\ Answered("none")
  /\ \/ UNCHANGED <<scheduled, failed>>
     \/ ~scheduled /\ scheduled' = TRUE /\ UNCHANGED failed
  /\ UNCHANGED <<phase, world, files, active, video>>

\* The answer "saved", then pd_ScheduleAlgRestart.
Schedule ==
  /\ uart = "schedule"
  /\ Answered("none")
  /\ \/ scheduled /\ UNCHANGED <<scheduled, failed>>
     \/ ~scheduled /\ scheduled' = TRUE /\ UNCHANGED failed
     \/ ~scheduled /\ failed' = TRUE /\ UNCHANGED scheduled
  /\ UNCHANGED <<phase, world, files, active, video>>

\* pd_RestartAlgThread: SIGKILL after a second.
RestartAlg ==
  /\ scheduled
  /\ Die
  /\ UNCHANGED <<world, files>>

Uart == BeginSave \/ EndSave \/ FailSave \/ Persist \/ Schedule

-----------------------------------------------------------------------------
(***************************************************************************)
(* Faults.                                                                 *)
(***************************************************************************)
Fault == faults < MaxFaults /\ faults' = faults + 1

Kill ==
  /\ Fault
  /\ phase # "down"
  /\ Die
  /\ UNCHANGED <<node, files>>

LoseNode ==
  /\ Fault
  /\ node
  /\ node' = FALSE
  /\ UNCHANGED <<phase, files, process>>

FindNode ==
  /\ ~node
  /\ node' = TRUE
  /\ UNCHANGED <<phase, faults, files, process>>

Hang ==
  /\ Fault
  /\ phase = "run"
  /\ hung' = TRUE
  /\ due' = due \ {"alg"}
  /\ UNCHANGED <<phase, node, files, serial, time_out, wait, middle, pictures>>

Next ==
  \/ Start \/ InitAlgChn \/ Load
  \/ FrameSave \/ Vdec \/ Detect \/ Tick
  \/ \E m \in Models \cup {"none", "unknown"} : Receive(m)
  \/ Uart \/ RestartAlg
  \/ Kill \/ LoseNode \/ FindNode \/ Hang

\* check.sh and the threads run on, and the camera comes back.  Neither the
\* camera nor the board has to send anything.
Fairness ==
  /\ WF_vars(Start) /\ WF_vars(InitAlgChn) /\ WF_vars(Load)
  /\ WF_vars(Vdec) /\ WF_vars(Detect) /\ WF_vars(Tick)
  /\ WF_vars(Uart) /\ WF_vars(RestartAlg)
  /\ WF_vars(FindNode)

Spec == Init /\ [][Next]_vars /\ Fairness

-----------------------------------------------------------------------------
TypeOK ==
  /\ phase \in {"down", "open", "load", "run"}
  /\ node \in BOOLEAN
  /\ faults \in 0 .. MaxFaults
  /\ config \in Models
  /\ params \in {"whole", "torn"}
  /\ active \in Models
  /\ scheduled \in BOOLEAN
  /\ failed \in BOOLEAN
  /\ uart \in {"idle", "save", "saving", "persist", "schedule"}
  /\ want \in Models \cup {"none", "unknown"}
  /\ time_out \in 0 .. Limit
  /\ wait \in [Waiters -> 0 .. ReadRounds]
  /\ middle \in 0 .. Middle
  /\ pictures \in 0 .. Pictures
  /\ due \subseteq {"vdec", "alg"}
  /\ hung \in BOOLEAN

\* No Read of FrameSave or Vdec runs into its timeout, whose result they
\* would use as an index (pd.cpp:1813, 2280): whatever stalls, the watchdog
\* kills the process first.  The indices still queued when the camera stalls
\* keep pd_alg_Body, and with it the watchdog, quiet for a while.
NoTimeoutIndex == \A s \in Waiters : wait[s] < ReadRounds

\* A process that does not run the configured model is going to be restarted
\* (pd.cpp:3116-3135, 3271-3274), whatever the requests, the models saved
\* already and the restarts under way, unless the thread for the last one
\* could not be created.
RestartPending ==
  phase = "run" /\ uart = "idle" /\ config # active => scheduled \/ failed

\* The pallet parameters in PALLET_CONFIG cannot be read and flow mode is
\* configured: PD_Init fails at every start (pd.cpp:8054), and the thread
\* that could switch back is never started.
BootLoop == config = "flow" /\ params = "torn"

\* The configured model comes to run, unless the thread that restarts the
\* process cannot be created or the start fails for want of parameters.
ConfiguredModelRuns ==
  (phase = "run" /\ config # active) ~>
    ((phase = "run" /\ config = active) \/ failed \/ BootLoop)

\* After a kill the process gets as far as running again: the watchdog, which
\* counts while the models are being loaded (pd.cpp:7894), leaves it the time.
ComesUp == phase = "down" ~> (phase = "run" \/ BootLoop)

\* A detector that hangs ends with the process (pd.cpp:2471-2476).
HangEnds == hung ~> ~hung

=============================================================================
