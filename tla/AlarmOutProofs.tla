--------------------------- MODULE AlarmOutProofs ---------------------------
(***************************************************************************)
(* Proofs about AlarmOut, for every hold time, counter width and trigger.  *)
(* The countdown is never lost, whichever calls of BOARD_SetAlarmOut fail  *)
(* and whatever triggers the configuration updates bring.                  *)
(***************************************************************************)
EXTENDS AlarmOut, TLAPS

-----------------------------------------------------------------------------
(***************************************************************************)
(* The inductive invariant.                                                *)
(***************************************************************************)
Positions ==
  /\ pc["alg"] \in {"off", "idle", "enable", "enabling", "lock", "hold",
                    "reset", "resetting", "unlock", "clear"}
  /\ pc["mon"] \in {"off", "idle", "dec", "check", "reset", "resetting", "unlock"}
  /\ pc["main"] \in {"off", "probe", "probing", "reset", "resetting", "idle"}

\* A killed process has no threads.
Down == ~up => \A t \in Threads : pc[t] = "off"

\* PD_Init and PD_ConfigSet drive the wire to the off level of the trigger
\* they have just set.  The other threads may have evaluated an older one.
Arguments == pc["main"] = "resetting" => arg["main"] = Level(FALSE)

\* A new trigger may turn off into on; the Reset that makes good for it, at
\* the end of PD_ConfigSet, is still to come.
Updating == pc["main"] \in {"reset", "resetting"}

\* Before PD_Start nothing has armed the countdown, and pd_Alarm_Out_Init
\* leaves the output off.
Booting ==
  /\ up /\ pc["alg"] = "off" => pc["mon"] = "idle" /\ flag = 0 /\ lock = 0
  /\ up /\ pc["alg"] = "off" /\ pc["main"] = "idle" => ~On \/ last # "good"
  /\ pc["main"] \in {"probe", "probing"} => pc["alg"] = "off"

\* The algorithm thread is not on its way to store HoldTicks, nor has it
\* just switched the output off.
Uncommitted == pc["alg"] \in {"idle", "reset", "resetting"}

\* The monitor is counting, or bound to reset the output.
Covered == flag > 0 \/ pc["mon"] \in {"reset", "resetting"} \/ (pc["mon"] = "check" /\ reg = 0)

Cover ==
  /\ Uncommitted /\ On /\ last = "good" => Covered \/ Updating
  /\ Uncommitted /\ lock = 1 => Covered \/ pc["mon"] = "unlock"

\* Nobody switches the output on again while pd_Alarm_Out_test closes it.
Closing ==
  /\ pc["alg"] \in {"unlock", "clear"} => ~On \/ last # "good" \/ Updating
  /\ pc["alg"] = "clear" => lock = 0

IInv ==
  /\ TypeOK
  /\ Positions
  /\ Down
  /\ Arguments
  /\ Booting
  /\ Cover
  /\ Closing

-----------------------------------------------------------------------------
\* Unsigned arithmetic stays in range.
LEMMA Wrap == \A x \in Int : (x % FlagMod) \in 0 .. FlagMod - 1 /\ (x % CntMod) \in 0 .. CntMod - 1
  BY HoldAssumption, CntAssumption

\* The two levels differ.
LEMMA Levels == Level(TRUE) \in {0, 1} /\ Level(FALSE) \in {0, 1} /\ Level(TRUE) # Level(FALSE)
  BY DEF Level

\* pd_Alarm_Out_test, the monitor and the start keep every variable in its
\* width, whatever triggers the updates bring.
LEMMA TypeStep == TypeOK /\ [Next]_vars => TypeOK'
<1> SUFFICES ASSUME TypeOK, [Next]_vars PROVE TypeOK'
  OBVIOUS
<1> USE DEF TypeOK, Threads, TriggerType
<1>1. CASE RedFrame
  BY <1>1, CntAssumption DEF RedFrame, Goto
<1>2. CASE OtherFrame
  BY <1>2, Wrap DEF OtherFrame, Goto
<1>3. ASSUME NEW t \in Threads, NEW on \in BOOLEAN,
             NEW from, NEW to \in {"enabling", "resetting", "probing"},
             Evaluate(t, on, from, to)
      PROVE  TypeOK'
  BY <1>3, Levels DEF Evaluate, Goto, Level
<1>4. ASSUME NEW t \in Threads, NEW on, NEW from, NEW to \in {"lock", "unlock", "reset", "idle"},
             SetAlarmOut(t, on, from, to)
      PROVE  TypeOK'
  BY <1>4 DEF SetAlarmOut, Goto
<1>5. ASSUME NEW t \in Threads, NEW value \in {0, 1}, NEW from,
             NEW to \in {"hold", "clear", "idle"},
             SetLock(t, value, from, to)
      PROVE  TypeOK'
  BY <1>5 DEF SetLock, Goto
<1>6. CASE Hold
  BY <1>6, HoldAssumption DEF Hold, Goto
<1>7. CASE ClearFlag
  BY <1>7, HoldAssumption DEF ClearFlag, Goto
<1>8. CASE Alg
  BY <1>3, <1>4, <1>5, <1>6, <1>7, <1>8 DEF Alg
<1>9. CASE Tick
  BY <1>9 DEF Tick, Goto
<1>10. CASE Decrement
  BY <1>10, Wrap DEF Decrement, Goto
<1>11. CASE Check
  BY <1>11 DEF Check, Goto
<1>12. CASE Mon
  BY <1>3, <1>4, <1>5, <1>9, <1>10, <1>11, <1>12 DEF Mon
<1>13. CASE Main
  BY <1>3, <1>4, <1>13 DEF Main
<1>14. CASE PD_Start
  BY <1>14 DEF PD_Start, Goto
<1>15. CASE PD_ConfigSet
  BY <1>15, TriggerAssumption DEF PD_ConfigSet, Goto
<1>16. CASE Kill
  BY <1>16 DEF Kill
<1>17. CASE Restart
  BY <1>17, HoldAssumption, CntAssumption DEF Restart, Started
<1>18. CASE UNCHANGED vars
  BY <1>18 DEF vars
<1> QED
  BY <1>1, <1>2, <1>8, <1>12, <1>13, <1>14, <1>15, <1>16, <1>17, <1>18 DEF Next

LEMMA TypeInit == Init => TypeOK
  BY HoldAssumption, CntAssumption, TriggerAssumption
  DEF Init, TypeOK, Started, Threads, TriggerType

\* Every variable of the output control stays in its width (pd.cpp:351-355,
\* 3386-3430, 2503-2511).
THEOREM TypeCorrect == Spec => []TypeOK
<1>1. Init => TypeOK
  BY TypeInit
<1>2. TypeOK /\ [Next]_vars => TypeOK'
  BY TypeStep
<1> QED
  BY <1>1, <1>2, PTL DEF Spec

-----------------------------------------------------------------------------
LEMMA InvInit == Init => IInv
<1> SUFFICES ASSUME Init PROVE IInv
  OBVIOUS
<1>1. TypeOK
  BY TypeInit
<1> QED
  BY <1>1
  DEF Init, IInv, Positions, Down, Arguments, Booting, Cover, Closing, Uncommitted,
      Started, Threads

\* The wire is on or off by the same levels before and after a step.
LEMMA SameLevels ==
  ASSUME trigger' = trigger
  PROVE  /\ Level(TRUE)' = Level(TRUE)
         /\ Level(FALSE)' = Level(FALSE)
         /\ (On <=> level = Level(TRUE))
         /\ (On' <=> level' = Level(TRUE))
  BY DEF Level, On

\* No step, of any thread, loses the countdown.
LEMMA InvStep == ASSUME IInv, [Next]_vars, trigger' = trigger PROVE IInv'
<1>0. TypeOK'
  BY TypeStep DEF IInv
<1>l. /\ Level(TRUE)' = Level(TRUE)
      /\ Level(FALSE)' = Level(FALSE)
      /\ (On <=> level = Level(TRUE))
      /\ (On' <=> level' = Level(TRUE))
      /\ Level(TRUE) # Level(FALSE)
  BY SameLevels, Levels
<1> USE DEF IInv, TypeOK, Positions, Down, Arguments, Booting, Cover, Covered, Closing,
            Uncommitted, Updating, Threads, Goto
<1>1. CASE RedFrame
  BY <1>0, <1>l, <1>1 DEF RedFrame
<1>2. CASE OtherFrame
  BY <1>0, <1>l, <1>2 DEF OtherFrame
<1>3. CASE Alg
  <2>1. CASE Evaluate("alg", TRUE, "enable", "enabling")
    BY <1>0, <1>l, <2>1 DEF Evaluate
  <2>2. CASE SetAlarmOut("alg", TRUE, "enabling", "lock")
    BY <1>0, <1>l, <2>2 DEF SetAlarmOut
  <2>3. CASE SetLock("alg", 1, "lock", "hold")
    BY <1>0, <1>l, <2>3 DEF SetLock
  <2>4. CASE Hold
    <3>1. Positions'
      BY <1>0, <1>l, <2>4, HoldAssumption DEF Hold
    <3>2. Down'
      BY <1>0, <1>l, <2>4, HoldAssumption DEF Hold
    <3>3. Arguments'
      BY <1>0, <1>l, <2>4, HoldAssumption DEF Hold
    <3>4. Booting'
      BY <1>0, <1>l, <2>4, HoldAssumption DEF Hold
    <3>5. Cover'
      BY <1>0, <1>l, <2>4, HoldAssumption DEF Hold
    <3>6. Closing'
      BY <1>0, <1>l, <2>4, HoldAssumption DEF Hold
    <3> QED
      BY <1>0, <3>1, <3>2, <3>3, <3>4, <3>5, <3>6
  <2>5. CASE Evaluate("alg", FALSE, "reset", "resetting")
    BY <1>0, <1>l, <2>5 DEF Evaluate
  <2>6. CASE SetAlarmOut("alg", FALSE, "resetting", "unlock")
    BY <1>0, <1>l, <2>6 DEF SetAlarmOut
  <2>7. CASE SetLock("alg", 0, "unlock", "clear")
    BY <1>0, <1>l, <2>7 DEF SetLock
  <2>8. CASE ClearFlag
    <3>1. Positions'
      BY <1>0, <1>l, <2>8 DEF ClearFlag
    <3>2. Down'
      BY <1>0, <1>l, <2>8 DEF ClearFlag
    <3>3. Arguments'
      BY <1>0, <1>l, <2>8 DEF ClearFlag
    <3>4. Booting'
      BY <1>0, <1>l, <2>8 DEF ClearFlag
    <3>5. Cover'
      <4>1. (~On \/ last # "good" \/ Updating) /\ lock = 0
        BY <2>8 DEF ClearFlag
      <4>2. (~On' \/ last' # "good" \/ Updating') /\ lock' = 0
        BY <4>1, <1>l, <2>8 DEF ClearFlag
      <4> QED
        BY <4>2
    <3>6. Closing'
      BY <1>0, <1>l, <2>8 DEF ClearFlag
    <3> QED
      BY <1>0, <3>1, <3>2, <3>3, <3>4, <3>5, <3>6
  <2> QED
    BY <1>3, <2>1, <2>2, <2>3, <2>4, <2>5, <2>6, <2>7, <2>8 DEF Alg
<1>4. CASE Mon
  <2>1. CASE Tick
    <3>1. Positions'
      BY <1>0, <1>l, <2>1 DEF Tick
    <3>2. Down'
      BY <1>0, <1>l, <2>1 DEF Tick
    <3>3. Arguments'
      BY <1>0, <1>l, <2>1 DEF Tick
    <3>4. Booting'
      BY <1>0, <1>l, <2>1 DEF Tick
    <3>5. Cover'
      BY <1>0, <1>l, <2>1 DEF Tick
    <3>6. Closing'
      BY <1>0, <1>l, <2>1 DEF Tick
    <3> QED
      BY <1>0, <3>1, <3>2, <3>3, <3>4, <3>5, <3>6
  <2>2. CASE Decrement
    <3>1. Positions'
      BY <1>0, <1>l, <2>2, Wrap DEF Decrement
    <3>2. Down'
      BY <1>0, <1>l, <2>2, Wrap DEF Decrement
    <3>3. Arguments'
      BY <1>0, <1>l, <2>2, Wrap DEF Decrement
    <3>4. Booting'
      BY <1>0, <1>l, <2>2, Wrap DEF Decrement
    <3>5. Cover'
      BY <1>0, <1>l, <2>2, Wrap DEF Decrement
    <3>6. Closing'
      BY <1>0, <1>l, <2>2, Wrap DEF Decrement
    <3> QED
      BY <1>0, <3>1, <3>2, <3>3, <3>4, <3>5, <3>6
  <2>3. CASE Check
    <3>1. Positions'
      BY <1>0, <1>l, <2>3 DEF Check
    <3>2. Down'
      BY <1>0, <1>l, <2>3 DEF Check
    <3>3. Arguments'
      BY <1>0, <1>l, <2>3 DEF Check
    <3>4. Booting'
      BY <1>0, <1>l, <2>3 DEF Check
    <3>5. Cover'
      <4>1. (Uncommitted' <=> Uncommitted) /\ (On' <=> On) /\ last' = last
            /\ (Updating' <=> Updating) /\ lock' = lock /\ flag' = flag
        BY <1>l, <2>3 DEF Check
      <4>2. flag = 0 /\ reg = 0 => pc'["mon"] = "reset"
        BY <2>3 DEF Check
      <4>3. Uncommitted /\ ((On /\ last = "good" /\ ~Updating) \/ lock = 1) => flag > 0 \/ reg = 0
        BY <2>3 DEF Check
      <4>4. flag \in Nat
        BY HoldAssumption
      <4>5. Uncommitted /\ ((On /\ last = "good" /\ ~Updating) \/ lock = 1) => flag > 0 \/ pc'["mon"] = "reset"
        BY <4>2, <4>3, <4>4
      <4> QED
        BY <4>1, <4>5
    <3>6. Closing'
      BY <1>0, <1>l, <2>3 DEF Check
    <3> QED
      BY <1>0, <3>1, <3>2, <3>3, <3>4, <3>5, <3>6
  <2>4. CASE Evaluate("mon", FALSE, "reset", "resetting")
    BY <1>0, <1>l, <2>4 DEF Evaluate
  <2>5. CASE SetAlarmOut("mon", FALSE, "resetting", "unlock")
    BY <1>0, <1>l, <2>5 DEF SetAlarmOut
  <2>6. CASE SetLock("mon", 0, "unlock", "idle")
    <3>1. Positions'
      BY <1>0, <1>l, <2>6 DEF SetLock
    <3>2. Down'
      BY <1>0, <1>l, <2>6 DEF SetLock
    <3>3. Arguments'
      BY <1>0, <1>l, <2>6 DEF SetLock
    <3>4. Booting'
      BY <1>0, <1>l, <2>6 DEF SetLock
    <3>5. Cover'
      <4>1. lock' = 0 /\ (On' <=> On) /\ last' = last /\ flag' = flag /\ (Updating' <=> Updating)
        BY <1>l, <2>6 DEF SetLock
      <4>2. Uncommitted' => Uncommitted
        BY <2>6 DEF SetLock
      <4>3. Uncommitted /\ On /\ last = "good" => flag > 0 \/ Updating
        BY <2>6 DEF SetLock
      <4> QED
        BY <4>1, <4>2, <4>3
    <3>6. Closing'
      BY <1>0, <1>l, <2>6 DEF SetLock
    <3> QED
      BY <1>0, <3>1, <3>2, <3>3, <3>4, <3>5, <3>6
  <2> QED
    BY <1>4, <2>1, <2>2, <2>3, <2>4, <2>5, <2>6 DEF Mon
<1>5. CASE Main
  <2>1. CASE Evaluate("main", TRUE, "probe", "probing")
    BY <1>0, <1>l, <2>1 DEF Evaluate
  <2>2. CASE SetAlarmOut("main", TRUE, "probing", "reset")
    BY <1>0, <1>l, <2>2 DEF SetAlarmOut
  <2>3. CASE Evaluate("main", FALSE, "reset", "resetting")
    BY <1>0, <1>l, <2>3 DEF Evaluate
  <2>4. CASE SetAlarmOut("main", FALSE, "resetting", "idle")
    BY <1>0, <1>l, <2>4 DEF SetAlarmOut
  <2> QED
    BY <1>5, <2>1, <2>2, <2>3, <2>4 DEF Main
<1>6. CASE PD_Start
  <2>1. Positions'
    BY <1>0, <1>l, <1>6 DEF PD_Start
  <2>2. Down'
    BY <1>0, <1>l, <1>6 DEF PD_Start
  <2>3. Arguments'
    BY <1>0, <1>l, <1>6 DEF PD_Start
  <2>4. Booting'
    BY <1>0, <1>l, <1>6 DEF PD_Start
  <2>5. Cover'
    <3>1. up /\ lock = 0 /\ (~On \/ last # "good")
      BY <1>6 DEF PD_Start
    <3>2. lock' = 0 /\ (~On' \/ last' # "good")
      BY <3>1, <1>l, <1>6 DEF PD_Start
    <3> QED
      BY <3>2
  <2>6. Closing'
    BY <1>0, <1>l, <1>6 DEF PD_Start
  <2> QED
    BY <1>0, <2>1, <2>2, <2>3, <2>4, <2>5, <2>6
<1>7. CASE PD_ConfigSet
  BY <1>0, <1>l, <1>7 DEF PD_ConfigSet
<1>8. CASE Kill
  BY <1>0, <1>l, <1>8 DEF Kill
<1>9. CASE Restart
  BY <1>0, <1>l, <1>9 DEF Restart, Started
<1>10. CASE UNCHANGED vars
  BY <1>0, <1>l, <1>10 DEF vars
<1> QED
  BY <1>1, <1>2, <1>3, <1>4, <1>5, <1>6, <1>7, <1>8, <1>9, <1>10 DEF Next

\* PD_ConfigSet brings another trigger, and with it another meaning of the
\* wire: from here on its own Reset is to come.
LEMMA ConfigStep == ASSUME IInv, PD_ConfigSet PROVE IInv'
<1>1. TypeOK'
  BY TypeStep DEF IInv, Next
<1>2. /\ pc["main"] = "idle" /\ pc' = [pc EXCEPT !["main"] = "reset"]
      /\ UNCHANGED <<up, level, last, flag, lock, cnt, reg, arg>>
  BY DEF PD_ConfigSet, Goto
<1>3. /\ pc'["main"] = "reset" /\ Updating'
      /\ pc'["alg"] = pc["alg"] /\ pc'["mon"] = pc["mon"]
  BY <1>2 DEF IInv, TypeOK, Threads, Updating
<1>4. Positions' /\ Arguments' /\ Booting' /\ Closing'
  BY <1>2, <1>3 DEF IInv, Positions, Arguments, Booting, Closing
<1>5. Down'
  BY <1>2, <1>3 DEF IInv, Down, Threads
<1>6. Cover'
  BY <1>2, <1>3 DEF IInv, Cover, Covered, Uncommitted
<1> QED BY <1>1, <1>4, <1>5, <1>6 DEF IInv

\* The invariant gives the promise about the countdown.
LEMMA InvImplies == IInv => OffAlwaysPending
  BY DEF IInv, TypeOK, Cover, Covered, Uncommitted, Updating, OffAlwaysPending, Quiet, Threads

\* Whatever the threads' unprotected accesses do to one another, and whatever
\* triggers are configured meanwhile, an output that is on keeps a running
\* countdown that will switch it off, unless the last call failed or came late
\* (pd.cpp:2503-2511, 3386-3430, 8534).
THEOREM CountdownSafe == Spec => []OffAlwaysPending
<1>1. IInv /\ [Next]_vars => IInv'
  <2>1. [Next]_vars => PD_ConfigSet \/ trigger' = trigger
    BY DEF Next, vars, RedFrame, OtherFrame, Alg, Mon, Main, PD_Start, Kill, Restart,
       Evaluate, SetAlarmOut, SetLock, Hold, ClearFlag, Tick, Decrement, Check
  <2> QED BY <2>1, InvStep, ConfigStep
<1> QED
  BY <1>1, InvInit, InvImplies, PTL DEF Spec

=============================================================================
