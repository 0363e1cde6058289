------------------------------- MODULE DmmRun -------------------------------
(***************************************************************************)
(* The run status of the driver monitoring (dmm/dmm.cpp) and the requests  *)
(* that steer it (alg.cpp).  One algorithm thread, dmm_alg_Body, runs the  *)
(* body that enRunStat names, until enRunStat names another one.  Requests *)
(* set enRunStat and enRunResult and then poll enRunResult: calibration on *)
(* the receiving thread (rx), adding a user and logging in on threads of   *)
(* their own (Msg_registerOpCallback_ThreadExec).                          *)
(*                                                                         *)
(* mutexRunStat protects most of the writes and none of the reads, so a    *)
(* pair of writes under the mutex is two steps here.  Time is left out: a  *)
(* body may run into its time limit, and a caller out of polls, at any     *)
(* time.  Pictures, faces and angles are left to chance.                   *)
(***************************************************************************)
EXTENDS Integers

CONSTANTS
  Workers,      \* threads made for one callbackAddUser or callbackLogin each
  Boot,         \* enDmsLoginMode is E_LOGIN_BOOT
  Creare,       \* the customer that has the driver change checked
  Polls,        \* 20, or 140 for a calibration: polls before giving up
  MaxRequests,  \* bound: number of calibration messages
  rx,           \* the thread that receives messages and calibrates
  none          \* no thread, no user, no request

Callers == Workers \cup {rx}
alg == "alg"

\* The requests that are polled for, and the status each one sets.
Target == [pre |-> "pre", stop |-> "det", cal |-> "cal", add |-> "reg", login |-> "rec"]

ASSUME DmmRunAssumption ==
  /\ Boot \in BOOLEAN /\ Creare \in BOOLEAN
  /\ Polls \in Nat \ {0}
  /\ MaxRequests \in Nat
  /\ rx \notin Workers
  /\ none \notin Callers \cup {alg} \cup DOMAIN Target

VARIABLES
  stat,      \* m_stDmmInfo.enRunStat
  result,    \* m_stDmmInfo.enRunResult
  mutex,     \* the holder of mutexRunStat
  foreign,   \* history: workers for whom another body's result was written
  userDir,   \* szUserDir: the user to register
  user,      \* what is stored of the user each worker adds
  mode,      \* the body that runs
  path,      \* frP.userPath, copied when the register body starts
  ending,    \* the status and the result a body is about to write
  leaked,    \* the algorithm thread has kept g_Mutex
  bpc,       \* where the algorithm thread stands
  pc,        \* where each caller stands
  kind,      \* the request of each caller
  polls,     \* how often it has polled
  answer,    \* what it answered
  requests   \* number of calibration messages so far

shared == <<stat, result, mutex, foreign>>
users == <<userDir, user>>
body == <<mode, path, ending, leaked, bpc>>
callers == <<pc, kind, polls, answer, requests>>
vars == <<shared, users, body, callers>>

Status == {"init", "pre", "cal", "reg", "rec", "det", "chg"}
Result == {"success", "running", "failure", "timeout"}

NoEnding == <<"det", "success">>

\* m_stDmmInfo is zeroed; the callbacks are registered before DMM_Start.
Init ==
  /\ stat = "init"
  /\ result = "success"
  /\ mutex = none
  /\ foreign = {}
  /\ userDir = none
  /\ user = [w \in Workers |-> "none"]
  /\ mode = "init"
  /\ path = none
  /\ ending = NoEnding
  /\ leaked = FALSE
  /\ bpc = "off"
  /\ pc = [c \in Callers |-> "idle"]
  /\ kind = [c \in Callers |-> none]
  /\ polls = [c \in Callers |-> 0]
  /\ answer = [c \in Callers |-> "none"]
  /\ requests = 0

-----------------------------------------------------------------------------
(***************************************************************************)
(* The algorithm thread.                                                   *)
(***************************************************************************)
Move(from, to) == bpc = from /\ bpc' = to

DMM_Start ==
  /\ Move("off", "top")
  /\ stat' = IF Boot THEN "rec" ELSE "det"
  /\ UNCHANGED <<result, mutex, foreign, users, mode, path, ending, leaked, callers>>

\* dmm_alg_Body enters the body of the present status.
Enter ==
  /\ Move("top", "test")
  /\ mode' = stat
  /\ path' = IF stat = "reg" THEN userDir ELSE none
  /\ UNCHANGED <<shared, users, ending, leaked, callers>>

\* The loop of every body: leave when the status has changed.
Test ==
  /\ Move("test", IF stat = mode THEN "work" ELSE "top")
  /\ UNCHANGED <<shared, users, mode, path, ending, leaked, callers>>

\* No face, an error, not enough samples: once more.
Again ==
  /\ ~leaked
  /\ Move("work", "test")
  /\ UNCHANGED <<shared, users, mode, path, ending, leaked, callers>>

\* The register, recognition and change-driver bodies keep g_Mutex when MS_P
\* fails ...
Leak ==
  /\ mode \in {"reg", "rec", "chg"}
  /\ ~leaked
  /\ Move("work", "test")
  /\ leaked' = TRUE
  /\ UNCHANGED <<shared, users, mode, path, ending, callers>>

\* ... and the next ALG_Calculate_Lock, of whichever body, waits for ever.
Block ==
  /\ leaked
  /\ Move("work", "stuck")
  /\ UNCHANGED <<shared, users, mode, path, ending, leaked, callers>>

\* A body ends itself: it is going to write e under the mutex.
End(e) ==
  /\ Move("work", "lock")
  /\ ending' = e
  /\ UNCHANGED <<shared, users, mode, path, leaked, callers>>

\* The time limits: 12 s, 10 s, 10 s and 30 s.
Timeout ==
  \/ mode \in {"cal", "rec", "chg"} /\ End(<<"det", "timeout">>)
  \/ mode = "reg" /\ End(<<"det", "failure">>)

\* Mutant: the pre-calibration has no time limit.
PreUnlimited ==
  /\ mode = "pre"
  /\ Move("work", IF leaked THEN "stuck" ELSE "test")
  /\ UNCHANGED <<shared, users, mode, path, ending, leaked, callers>>

\* The three minutes of the pre-calibration: written without the mutex.
PreTimeout ==
  /\ mode = "pre"
  /\ Move("work", IF leaked THEN "stuck" ELSE "test")
  /\ stat' = "det"
  /\ UNCHANGED <<result, mutex, foreign, users, mode, path, ending, leaked, callers>>

\* Enough samples: calibrated, or the angle is out of range.
Calibrated ==
  /\ ~leaked
  /\ mode = "cal"
  /\ End(<<"det", "success">>) \/ End(<<"pre", "failure">>)

\* The face is complete; WriteInfo stores it in the directory, if that is
\* still there.
Registered ==
  /\ ~leaked
  /\ mode = "reg"
  /\ Move("work", "lock")
  /\ ending' = <<"det", "success">>
  /\ user' = IF path \in Workers /\ user[path] = "dir" THEN [user EXCEPT ![path] = "face"] ELSE user
  /\ UNCHANGED <<shared, userDir, mode, path, leaked, callers>>

\* Whoever waits for a result.
Waiting == {w \in Workers : pc[w] \in {"status", "poll"}}

\* Recognition and change of driver write the result without the mutex and
\* the status later, with it.
Recognised ==
  /\ ~leaked
  /\ mode \in {"rec", "chg"}
  /\ Move("work", "lock")
  /\ result' \in {"success", "failure"}
  /\ foreign' = foreign \cup Waiting
  /\ ending' = <<"det", result'>>
  /\ UNCHANGED <<stat, mutex, users, mode, path, leaked, callers>>

\* Detection sends the thread to the recognition (login, timed check) ...
AutoLogin == ~leaked /\ mode = "det" /\ End(<<"rec", "success">>)

\* ... or, without the mutex, to the check for another driver.
ChangeDriver ==
  /\ ~leaked
  /\ Creare
  /\ mode = "det"
  /\ Move("work", "top")
  /\ stat' = "chg"
  /\ UNCHANGED <<result, mutex, foreign, users, mode, path, ending, leaked, callers>>

\* Mutant: the body ends without the mutex.
EndStatusUnlocked ==
  /\ Move("lock", "result")
  /\ mutex' = alg
  /\ stat' = ending[1]
  /\ UNCHANGED <<result, foreign, users, mode, path, ending, leaked, callers>>

\* Lock and set the status ...
EndStatus ==
  /\ Move("lock", "result")
  /\ mutex = none
  /\ mutex' = alg
  /\ stat' = ending[1]
  /\ UNCHANGED <<result, foreign, users, mode, path, ending, leaked, callers>>

\* ... set the result, after a calibration, a registration or a time limit,
\* and unlock.
EndResult ==
  /\ Move("result", IF mode = "det" THEN "top" ELSE "test")
  /\ IF mode \in {"cal", "reg"} \/ ending[2] = "timeout"
     THEN /\ result' = ending[2]
          /\ foreign' = foreign \cup {w \in Waiting : mode # "reg" \/ path # w}
     ELSE UNCHANGED <<result, foreign>>
  /\ mutex' = none
  /\ ending' = NoEnding
  /\ UNCHANGED <<stat, users, mode, path, leaked, callers>>

BodyStep == Enter \/ Test \/ EndResult

Work ==
  \/ Again \/ Leak \/ Block
  \/ Timeout \/ PreTimeout
  \/ Calibrated \/ Registered \/ Recognised
  \/ AutoLogin \/ ChangeDriver

-----------------------------------------------------------------------------
(***************************************************************************)
(* The callbacks of alg.cpp.                                               *)
(***************************************************************************)
Step(c, from, to) == pc[c] = from /\ pc' = [pc EXCEPT ![c] = to]

\* callbackCalibration reads the status and may have nothing to do;
\* callbackAddUser first makes the user's directory (DMM_RegisterUser).
Request(c, k) ==
  /\ IF c = rx
     THEN /\ k \in {"pre", "stop", "cal"}
          /\ requests < MaxRequests
          /\ requests' = requests + 1
     ELSE /\ k \in {"add", "login"}
          /\ kind[c] = none
          /\ UNCHANGED requests
  /\ kind' = [kind EXCEPT ![c] = k]
  /\ Step(c, "idle", IF \/ k = "stop" /\ stat \notin {"pre", "cal"}
                        \/ k \in {"pre", "cal"} /\ stat = k
                     THEN "idle" ELSE "lock")
  /\ IF k = "add" THEN user' = [user EXCEPT ![c] = "dir"] /\ userDir' = c ELSE UNCHANGED users
  /\ UNCHANGED <<shared, body, polls, answer>>

\* Mutant: the result of the execution before is left.
SetResultLeft(c) ==
  /\ Step(c, "lock", "status")
  /\ mutex = none
  /\ mutex' = c
  /\ foreign' = foreign \ {c}
  /\ UNCHANGED <<stat, result, users, body, kind, polls, answer, requests>>

\* DMM_SetRunStatus: lock and set the result, set the status and unlock.
SetResult(c) ==
  /\ Step(c, "lock", "status")
  /\ mutex = none
  /\ mutex' = c
  /\ result' = IF kind[c] \in {"cal", "add", "login"} THEN "running" ELSE result
  /\ foreign' = foreign \ {c}
  /\ UNCHANGED <<stat, users, body, kind, polls, answer, requests>>

SetStatus(c) ==
  /\ Step(c, "status", IF kind[c] \in {"pre", "stop"} THEN "idle" ELSE "poll")
  /\ stat' = Target[kind[c]]
  /\ mutex' = none
  /\ UNCHANGED <<result, foreign, users, body, kind, polls, answer, requests>>

\* There is a result; the calibration also stops when the status moves on.
Ready(c) == result # "running" \/ (kind[c] = "cal" /\ stat # "cal")

\* Mutant: the caller polls until there is a result.
PollForever(c) ==
  /\ UNCHANGED polls
  /\ answer' = [answer EXCEPT ![c] = IF result = "running" THEN "timeout" ELSE result]
  /\ Step(c, "poll", IF Ready(c) THEN "answer" ELSE "poll")
  /\ UNCHANGED <<shared, users, body, kind, requests>>

\* A poll that is ready, or the last one, ends the waiting; whoever is out
\* of polls does not look at the result any more.
Poll(c) ==
  /\ IF Ready(c) \/ polls[c] = Polls
     THEN Step(c, "poll", "answer") /\ polls' = [polls EXCEPT ![c] = 0]
     ELSE Step(c, "poll", "poll") /\ polls' = [polls EXCEPT ![c] = @ + 1]
  /\ answer' = [answer EXCEPT ![c] = IF result = "running" \/ polls[c] = Polls THEN "timeout" ELSE result]
  /\ UNCHANGED <<shared, users, body, kind, requests>>

\* The calibration passes on the result as it is now; a user that was not
\* registered in time is deleted (DMM_DeleteUser).
Answer(c) ==
  /\ Step(c, "answer", "idle")
  /\ answer' = [answer EXCEPT ![c] = IF c = rx THEN "none" ELSE @]
  /\ user' = IF kind[c] = "add" /\ answer[c] # "success" THEN [user EXCEPT ![c] = "none"] ELSE user
  /\ UNCHANGED <<shared, userDir, body, kind, polls, requests>>

CallerStep(c) == SetStatus(c) \/ Poll(c) \/ Answer(c)

Next ==
  \/ DMM_Start \/ BodyStep \/ Work \/ EndStatus
  \/ \E c \in Callers :
       \/ \E k \in DOMAIN Target : Request(c, k)
       \/ SetResult(c)
       \/ CallerStep(c)

\* Threads run on, the mutex is given to a waiting thread in the end, and
\* the clock that every round of a body looks at gets past the time limit.
Fairness ==
  /\ WF_vars(DMM_Start) /\ WF_vars(BodyStep) /\ WF_vars(Work)
  /\ SF_vars(EndStatus) /\ SF_vars(Timeout \/ PreTimeout)
  /\ \A c \in Callers : SF_vars(SetResult(c)) /\ WF_vars(CallerStep(c))

Spec == Init /\ [][Next]_vars /\ Fairness

-----------------------------------------------------------------------------
TypeOK ==
  /\ stat \in Status
  /\ result \in Result
  /\ mutex \in Callers \cup {alg, none}
  /\ foreign \subseteq Workers
  /\ userDir \in Workers \cup {none}
  /\ user \in [Workers -> {"none", "dir", "face"}]
  /\ mode \in Status
  /\ path \in Workers \cup {none}
  /\ ending \in Status \X Result
  /\ leaked \in BOOLEAN
  /\ bpc \in {"off", "top", "test", "work", "lock", "result", "stuck"}
  /\ pc \in [Callers -> {"idle", "lock", "status", "poll", "answer"}]
  /\ kind \in [Callers -> DOMAIN Target \cup {none}]
  /\ polls \in [Callers -> 0 .. Polls]
  /\ answer \in [Callers -> Result \cup {"none"}]
  /\ requests \in 0 .. MaxRequests

\* The face of a user reported as added is stored, unless a body that is not
\* the registration of this user has written enRunResult while callbackAddUser
\* waited for it: DMM_SetRunStatus takes the result of the execution before
\* away before the register body can be entered, and the body stores the
\* face before it reports (dmm.cpp:1813-1822, alg.cpp:371-385).
OwnSuccessStored ==
  \A w \in Workers \ foreign :
    pc[w] = "idle" /\ kind[w] = "add" /\ answer[w] = "success" => user[w] = "face"

\* What mutexRunStat does keep together.  While a caller stands between the
\* result and the status it sets (DMM_SetRunStatus), neither is changed but
\* by the writes a body makes without the mutex at work, and the status by
\* DMM_Start; and between the two writes that end a body nothing changes.
PairsKept ==
  [][/\ \A c \in Callers :
          pc[c] = "status" /\ pc'[c] = "status" =>
            /\ result' = result \/ bpc = "work"
            /\ stat' = stat \/ bpc \in {"off", "work"}
     /\ bpc = "result" /\ bpc' = "result" => UNCHANGED <<stat, result>>]_vars

\* The detection comes back after every calibration, registration and login,
\* whatever requests overwrite each other: all bodies have a time limit, the
\* pre-calibration too ("at most three minutes", dmm.cpp:1307).  The one way
\* out of it is the MS_P error path that keeps g_Mutex.
DetectionReturns == []<>(stat = "det" \/ bpc = "stuck")

\* Every request is answered, although its status or its result may be
\* overwritten before the algorithm thread has seen it: the number of polls
\* is limited (alg.cpp:258-267, 372-380, 504-512).
RequestAnswered == \A c \in Callers : pc[c] = "lock" ~> pc[c] = "idle"

\* An answer that a user has been added means that the face is stored: the
\* comment at dmm.cpp:99 says that enRunResult is the result of the last
\* execution (calibration, registration, login).
AddedMeansStored ==
  \A w \in Workers :
    pc[w] = "idle" /\ kind[w] = "add" /\ answer[w] = "success" => user[w] = "face"

=============================================================================
