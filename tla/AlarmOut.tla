------------------------------ MODULE AlarmOut ------------------------------
(***************************************************************************)
(* The physical alarm output of pd/pd.cpp.  Three threads drive one wire   *)
(* and two unprotected globals, alarm_out_flag and alarm_out_lock:         *)
(*   alg   pd_alg_Body, which calls pd_Alarm_Out_test for every frame;     *)
(*   mon   mpp_vpss_Monitor, which counts alarm_out_flag down every 200 ms *)
(*         and switches the output off when it gets to 0;                  *)
(*   main  PD_Init (pd_Alarm_Out_Init) and, later, the message receiver    *)
(*         that runs PD_ConfigSet.                                         *)
(* The process may be killed at any time (pkill, SIGKILL); check.sh starts *)
(* it again, with the globals initialised and the wire as it was.          *)
(*                                                                         *)
(* A step is one access to a shared variable.  Enable and Reset read       *)
(* enAlgTrigger first and call BOARD_SetAlarmOut with the level afterwards.*)
(* The build may keep alarm_out_flag in a register between the three uses  *)
(* of it in the monitor or load it again: both are allowed.                *)
(***************************************************************************)
EXTENDS Integers

CONSTANTS
  HoldTicks,   \* 5: monitor periods the output stays on after a red frame
  OffFrames,   \* 20: frames without red that switch the output off
  FlagMod,     \* 2^8: alarm_out_flag is a uint8
  CntMod,      \* 2^16: cnt is a uint16_t
  Trigger,     \* enAlgTrigger at the first start
  Updates,     \* the values of enAlgTrigger that configuration updates bring
  FTC          \* BOARD_IsCustomer(BOARD_C_ADA32V2_FTC)

TriggerType == {"up", "down"}

ASSUME HoldAssumption == HoldTicks \in Nat /\ FlagMod \in Nat /\ HoldTicks \in 1 .. FlagMod - 1
ASSUME CntAssumption == OffFrames \in Nat /\ CntMod \in Nat /\ OffFrames \in 1 .. CntMod - 1
ASSUME TriggerAssumption == Trigger \in TriggerType /\ Updates \subseteq TriggerType
ASSUME FTCAssumption == FTC \in BOOLEAN

VARIABLES
  up,       \* the process runs
  trigger,  \* m_stPdInfo.stCfgParam.enAlgTrigger
  level,    \* the wire: 0 or 1
  last,     \* history: the last BOARD_SetAlarmOut was good, failed or late
  flag,     \* alarm_out_flag
  lock,     \* alarm_out_lock
  cnt,      \* the static counter of pd_Alarm_Out_test
  reg,      \* the monitor's register copy of alarm_out_flag
  arg,      \* the level each thread is about to pass to BOARD_SetAlarmOut
  pc        \* where each thread stands

vars == <<up, trigger, level, last, flag, lock, cnt, reg, arg, pc>>

Threads == {"alg", "mon", "main"}

\* The level that means on, or off, under the present trigger.
Level(on) == IF (trigger = "up") = on THEN 1 ELSE 0

On == level = Level(TRUE)

\* The threads of a process that has just been started.
Started == [t \in Threads |->
  IF t = "alg" THEN "off" ELSE IF t = "mon" THEN "idle" ELSE IF FTC THEN "probe" ELSE "reset"]

Init ==
  /\ up = TRUE
  /\ trigger = Trigger
  /\ level \in {0, 1}
  /\ last = "good"
  /\ flag = 0
  /\ lock = 0
  /\ cnt = OffFrames
  /\ reg = 0
  /\ arg = [t \in Threads |-> 0]
  /\ pc = Started

Goto(t, from, to) == pc[t] = from /\ pc' = [pc EXCEPT ![t] = to]

\* pd_Alarm_Out_Enable and pd_Alarm_Out_Reset, first half ...
Evaluate(t, on, from, to) ==
  /\ Goto(t, from, to)
  /\ arg' = [arg EXCEPT ![t] = Level(on)]
  /\ UNCHANGED <<up, trigger, level, last, flag, lock, cnt, reg>>

\* ... and the call of BOARD_SetAlarmOut.  It may fail and leave the wire as
\* it is, or come late, with the level of a trigger that has been replaced
\* meanwhile: the callers go on all the same.
SetAlarmOut(t, on, from, to) ==
  /\ Goto(t, from, to)
  /\ \/ level' = arg[t] /\ last' = (IF arg[t] = Level(on) THEN "good" ELSE "late")
     \/ level' = level /\ last' = "failed"
  /\ UNCHANGED <<up, trigger, flag, lock, cnt, reg, arg>>

SetLock(t, value, from, to) ==
  /\ Goto(t, from, to)
  /\ lock' = value
  /\ UNCHANGED <<up, trigger, level, last, flag, cnt, reg, arg>>

-----------------------------------------------------------------------------
(***************************************************************************)
(* pd_Alarm_Out_test.                                                      *)
(***************************************************************************)

\* A red alarm on a channel whose output is enabled: the output is switched
\* on unless alarm_out_lock says that it is on already.
RedFrame ==
  /\ Goto("alg", "idle", IF lock = 0 THEN "enable" ELSE "hold")
  /\ cnt' = OffFrames
  /\ UNCHANGED <<up, trigger, level, last, flag, lock, reg, arg>>

\* Mutant: alarm_out_flag is not armed.
HoldUnarmed ==
  /\ Goto("alg", "hold", "idle")
  /\ UNCHANGED <<up, trigger, level, last, flag, lock, cnt, reg, arg>>

Hold ==
  /\ Goto("alg", "hold", "idle")
  /\ flag' = HoldTicks
  /\ UNCHANGED <<up, trigger, level, last, lock, cnt, reg, arg>>

\* Mutant: the counter is a signed number.
OtherFrameSigned ==
  /\ cnt' = cnt - 1
  /\ Goto("alg", "idle", IF lock = 1 /\ cnt' = 0 THEN "reset" ELSE "idle")
  /\ UNCHANGED <<up, trigger, level, last, flag, lock, reg, arg>>

\* Any other frame: the OffFrames-th in a row switches the output off.
OtherFrame ==
  /\ cnt' = (cnt - 1) % CntMod
  /\ Goto("alg", "idle", IF lock = 1 /\ cnt' = 0 THEN "reset" ELSE "idle")
  /\ UNCHANGED <<up, trigger, level, last, flag, lock, reg, arg>>

ClearFlag ==
  /\ Goto("alg", "clear", "idle")
  /\ flag' = 0
  /\ UNCHANGED <<up, trigger, level, last, lock, cnt, reg, arg>>

Alg ==
  \/ Evaluate("alg", TRUE, "enable", "enabling")
  \/ SetAlarmOut("alg", TRUE, "enabling", "lock")
  \/ SetLock("alg", 1, "lock", "hold")
  \/ Hold
  \/ Evaluate("alg", FALSE, "reset", "resetting")
  \/ SetAlarmOut("alg", FALSE, "resetting", "unlock")
  \/ SetLock("alg", 0, "unlock", "clear")
  \/ ClearFlag

-----------------------------------------------------------------------------
(***************************************************************************)
(* The countdown in mpp_vpss_Monitor.                                      *)
(***************************************************************************)
Tick ==
  /\ flag > 0
  /\ Goto("mon", "idle", "dec")
  /\ reg' = flag
  /\ UNCHANGED <<up, trigger, level, last, flag, lock, cnt, arg>>

\* Mutant: the countdown stands still.
DecrementNothing ==
  /\ Goto("mon", "dec", "check")
  /\ UNCHANGED <<up, trigger, level, last, flag, lock, cnt, reg, arg>>

Decrement ==
  /\ Goto("mon", "dec", "check")
  /\ \E loaded \in {reg, flag} : flag' = (loaded - 1) % FlagMod
  /\ reg' = flag'
  /\ UNCHANGED <<up, trigger, level, last, lock, cnt, arg>>

Check ==
  /\ \E loaded \in {reg, flag} : Goto("mon", "check", IF loaded = 0 THEN "reset" ELSE "idle")
  /\ UNCHANGED <<up, trigger, level, last, flag, lock, cnt, reg, arg>>

Mon ==
  \/ Tick
  \/ Decrement
  \/ Check
  \/ Evaluate("mon", FALSE, "reset", "resetting")
  \/ SetAlarmOut("mon", FALSE, "resetting", "unlock")
  \/ SetLock("mon", 0, "unlock", "idle")

-----------------------------------------------------------------------------
(***************************************************************************)
(* Start, configuration, kill and restart.                                 *)
(***************************************************************************)

\* pd_Alarm_Out_Init, and the Reset at the end of PD_ConfigSet.
Main ==
  \/ Evaluate("main", TRUE, "probe", "probing")
  \/ SetAlarmOut("main", TRUE, "probing", "reset")
  \/ Evaluate("main", FALSE, "reset", "resetting")
  \/ SetAlarmOut("main", FALSE, "resetting", "idle")

\* PD_Start creates the algorithm thread, after PD_Init.
PD_Start ==
  /\ pc["main"] = "idle"
  /\ Goto("alg", "off", "idle")
  /\ UNCHANGED <<up, trigger, level, last, flag, lock, cnt, reg, arg>>

PD_ConfigSet ==
  /\ Goto("main", "idle", "reset")
  /\ trigger' \in Updates
  /\ UNCHANGED <<up, level, last, flag, lock, cnt, reg, arg>>

Kill ==
  /\ up
  /\ up' = FALSE
  /\ pc' = [t \in Threads |-> "off"]
  /\ UNCHANGED <<trigger, level, last, flag, lock, cnt, reg, arg>>

Restart ==
  /\ ~up
  /\ up' = TRUE
  /\ flag' = 0
  /\ lock' = 0
  /\ cnt' = OffFrames
  /\ reg' = 0
  /\ arg' = [t \in Threads |-> 0]
  /\ pc' = Started
  /\ UNCHANGED <<trigger, level, last>>

Next ==
  \/ RedFrame \/ OtherFrame \/ Alg
  \/ Mon
  \/ Main \/ PD_Start \/ PD_ConfigSet
  \/ Kill \/ Restart

\* The threads run on, and check.sh restarts the process.  Nothing makes
\* frames or configuration updates arrive.
Fairness == WF_vars(Alg) /\ WF_vars(Mon) /\ WF_vars(Main) /\ WF_vars(Restart)

Spec == Init /\ [][Next]_vars /\ Fairness

-----------------------------------------------------------------------------
TypeOK ==
  /\ up \in BOOLEAN
  /\ trigger \in TriggerType
  /\ level \in {0, 1}
  /\ last \in {"good", "failed", "late"}
  /\ flag \in 0 .. FlagMod - 1
  /\ lock \in {0, 1}
  /\ cnt \in 0 .. CntMod - 1
  /\ reg \in 0 .. FlagMod - 1
  /\ arg \in [Threads -> {0, 1}]
  /\ pc \in [Threads -> {"off", "idle", "enable", "enabling", "lock", "hold",
                         "reset", "resetting", "unlock", "clear",
                         "dec", "check", "probe", "probing"}]

\* No thread is inside its part of the code.
Quiet == \A t \in Threads : pc[t] = "idle"

\* An output that is on, or believed to be on, is always going to be switched
\* off: alarm_out_flag is then above 0 and the monitor counts it down
\* (pd.cpp:2503-2511).  No interleaving of the monitor's unprotected decrement
\* with the stores of pd_Alarm_Out_test loses that, not even the wrap of the
\* uint8 from 0 to 255.  When the flag has got to 0 the output is off, as the
\* comment at pd.cpp:354 says.  What can leave it on is the last call alone
\* (pd.cpp:2559, 2584): one that failed, or one that PD_ConfigSet overtook
\* with another enAlgTrigger (8534).  Nobody repeats these calls, and the
\* next one that is neither makes good for all before it.
OffAlwaysPending == Quiet /\ ((On /\ last = "good") \/ lock = 1) => flag > 0

\* An output that is on goes off unless another red frame holds it, the last
\* call failed or came late, or the process is killed; the monitor alone sees
\* to it when frames stop.
OutputEnds == On ~> (~On \/ pc["alg"] = "hold" \/ last # "good" \/ ~up)

=============================================================================
