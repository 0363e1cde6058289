------------------------------- MODULE PdAlarm -------------------------------
(***************************************************************************)
(* From the alarm level of a frame to a sound (pd/pd.cpp).  pd_alg_Body    *)
(* takes the worst level of a frame, suppresses it by the interval timers, *)
(* writes the notice into a static variable, field by field, and adds a    *)
(* job to the thread pool (pd_Alarm_Post).  The jobs (pd_Audio_Play) copy  *)
(* the notice when their turn comes, decide by two statics, bPlay and      *)
(* mode, whether to play, and play.  Nothing is protected: a step is one   *)
(* access to a shared variable.                                            *)
(*                                                                         *)
(* The lines that count the interval timers down (6636-6729) lie inside an *)
(* "#if 0", so that a timer that has been set stays above 0.  Of a timer   *)
(* and of an interval only the sign is kept.                               *)
(***************************************************************************)
EXTENDS Integers, Sequences

CONSTANTS
  Top,         \* 3: PD_ALARM_TYPE_RED; 0 is PD_ALARM_TYPE_NULL
  Channels,    \* cameras
  Jobs,        \* threads of the pool (10)
  Intervals,   \* the signs of the configured intervals
  MaxPending,  \* bound: jobs that wait for a thread
  Overwritten  \* history: the notice was written again after the job was added

ASSUME PdAlarmAssumption ==
  /\ Top \in Nat \ {0}
  /\ Channels # {}
  /\ Intervals \subseteq {-1, 0, 1} /\ Intervals # {}
  /\ MaxPending \in Nat \ {0}

Levels == 1 .. Top
Notices == [mode : 0 .. Top, chn : Channels]

ASSUME OverwrittenAssumption == Overwritten \notin Notices

VARIABLES
  interval,  \* sign of s32PdRedInterval, ... per level
  timer,     \* s32RedTimeMs > 0, ... per level
  worst,     \* last_alarm_mode of the present frame
  post,      \* the argument of pd_Alarm_Post
  apc,       \* pd_alg_Body: frame, mode, chn, add
  local,     \* stAlarmNoticeLocal
  pool,      \* thpool_init has been called
  pending,   \* jobs in the pool's queue: the notice of each, or Overwritten
  pc,        \* where each thread of the pool stands
  expect,    \* the notice its job was added for, or Overwritten
  copy,      \* the job's copy of the notice
  reason,    \* history: jobs between their reads of bPlay and of mode that have had a Reason to drop
  bPlay,     \* a sound is being played
  mode       \* its level

alg == <<interval, timer, worst, post, apc>>
player == <<bPlay, mode>>
jobs == <<pc, expect, copy, reason>>
vars == <<alg, local, pool, pending, jobs, player>>

AnyChannel == CHOOSE c \in Channels : TRUE
Nothing == [mode |-> 0, chn |-> AnyChannel]

Init ==
  /\ interval \in [Levels -> Intervals]
  /\ timer = [l \in Levels |-> FALSE]
  /\ worst = 0
  /\ post = Nothing
  /\ apc = "frame"
  /\ local = Nothing
  /\ pool = FALSE
  /\ pending = <<>>
  /\ pc = [j \in Jobs |-> "idle"]
  /\ expect = [j \in Jobs |-> Overwritten]
  /\ copy = [j \in Jobs |-> Nothing]
  /\ reason = {}
  /\ bPlay = 0
  /\ mode = -1

-----------------------------------------------------------------------------
(***************************************************************************)
(* pd_alg_Body and pd_Alarm_Post.                                          *)
(***************************************************************************)

\* The level may not be posted at all: switched off, or posted before.
Held(l) == interval[l] < 0 \/ timer[l]

\* Mutant: s32AlarmMode's first value for no alarm.
PostedMinus(l) == IF l = 0 \/ Held(l) \/ \E h \in l + 1 .. Top : timer[h] THEN -1 ELSE l

\* The level that is posted for a frame whose worst level is l.
Posted(l) == IF l = 0 \/ Held(l) \/ \E h \in l + 1 .. Top : timer[h] THEN 0 ELSE l

\* A frame is evaluated.  A level that is not held starts its timer, even
\* when a higher level suppresses it.
Frame(l, c) ==
  /\ apc = "frame"
  /\ worst' = l
  /\ post' = [mode |-> Posted(l), chn |-> c]
  /\ timer' = IF l = 0 \/ Held(l) THEN timer ELSE [timer EXCEPT ![l] = interval[l] > 0]
  /\ apc' = "mode"
  /\ UNCHANGED <<interval, local, pool, pending, jobs, player>>

\* The first field of the static notice is written, and whoever has not copied
\* it yet will not see its own.
WriteMode ==
  /\ apc = "mode"
  /\ local' = [local EXCEPT !.mode = post.mode]
  /\ pending' = [i \in 1 .. Len(pending) |-> Overwritten]
  /\ expect' = [j \in Jobs |-> IF pc[j] \in {"copy", "copying"} THEN Overwritten ELSE expect[j]]
  /\ apc' = "chn"
  /\ UNCHANGED <<interval, timer, worst, post, pool, pc, copy, reason, player>>

\* Mutant: the field is forgotten.
WriteChnForgotten ==
  /\ apc = "chn"
  /\ apc' = "add"
  /\ UNCHANGED <<interval, timer, worst, post, local, pool, pending, jobs, player>>

WriteChn ==
  /\ apc = "chn"
  /\ local' = [local EXCEPT !.chn = post.chn]
  /\ apc' = "add"
  /\ UNCHANGED <<interval, timer, worst, post, pool, pending, jobs, player>>

\* thpool_add_work.
AddWork ==
  /\ apc = "add"
  /\ pool
  /\ Len(pending) < MaxPending
  /\ pending' = Append(pending, post)
  /\ worst' = 0 /\ post' = Nothing
  /\ apc' = "frame"
  /\ UNCHANGED <<interval, timer, local, pool, jobs, player>>

\* PD_Start makes the pool after it has started pd_alg_Body: a frame that is
\* faster finds no pool, and the process dies and is started again.
AddToNoPool ==
  /\ apc = "add"
  /\ ~pool
  /\ timer' = [l \in Levels |-> FALSE]
  /\ worst' = 0
  /\ post' = Nothing
  /\ apc' = "frame"
  /\ local' = Nothing
  /\ UNCHANGED <<interval, pool, pending, jobs, player>>

PD_Start ==
  /\ ~pool
  /\ pool' = TRUE
  /\ UNCHANGED <<alg, local, pending, jobs, player>>

\* PD_ConfigSet.  Only Frame reads an interval: a change in the middle of a
\* post is one before the next frame.
PD_ConfigSet(l, i) ==
  /\ apc = "frame"
  /\ interval' = [interval EXCEPT ![l] = i]
  /\ UNCHANGED <<timer, worst, post, apc, local, pool, pending, jobs, player>>

-----------------------------------------------------------------------------
(***************************************************************************)
(* pd_Audio_Play.                                                          *)
(***************************************************************************)
Goto(j, from, to) == pc[j] = from /\ pc' = [pc EXCEPT ![j] = to]

\* pd_Audio_Play returns, and its variables are gone.
Return(j, from) ==
  /\ Goto(j, from, "idle")
  /\ expect' = [expect EXCEPT ![j] = Overwritten]
  /\ copy' = [copy EXCEPT ![j] = Nothing]

\* A thread of the pool takes the next job.
Take(j) ==
  /\ Goto(j, "idle", "copy")
  /\ pending # <<>>
  /\ expect' = [expect EXCEPT ![j] = Head(pending)]
  /\ pending' = Tail(pending)
  /\ UNCHANGED <<alg, local, pool, copy, player>>

\* The notice is copied, one field after the other.
CopyMode(j) ==
  /\ Goto(j, "copy", "copying")
  /\ copy' = [copy EXCEPT ![j].mode = local.mode]
  /\ UNCHANGED <<alg, local, pool, pending, expect, player>>

CopyRest(j) ==
  /\ Goto(j, "copying", "test")
  /\ copy' = [copy EXCEPT ![j].chn = local.chn]
  /\ UNCHANGED <<alg, local, pool, pending, expect, player>>

Level(j) == copy[j].mode

\* PD_ALARM_TYPE_NULL: there is nothing to play.
Silent(j) ==
  /\ Return(j, "test")
  /\ Level(j) = 0
  /\ UNCHANGED <<alg, local, pool, pending, player>>

\* if(bPlay && mode >= stAlarmNotice.enMode): bPlay is read first ...
ReadBusy(j) ==
  /\ Level(j) # 0
  /\ Goto(j, "test", IF bPlay = 1 THEN "compare" ELSE "busy")
  /\ UNCHANGED <<alg, local, pool, pending, expect, copy, player>>

\* Mutant: a lower level is not heard.
RefusesLower(j) == mode <= Level(j)

\* ... and then mode, by when it may be that of another sound.
Refuses(j) == mode >= Level(j)

Drop(j) ==
  /\ Refuses(j)
  /\ Return(j, "compare")
  /\ UNCHANGED <<alg, local, pool, pending, player>>

Accept(j) ==
  /\ ~Refuses(j)
  /\ Goto(j, "compare", "busy")
  /\ UNCHANGED <<alg, local, pool, pending, expect, copy, player>>

SetBusy(j) ==
  /\ Goto(j, "busy", "level")
  /\ bPlay' = 1
  /\ UNCHANGED <<alg, local, pool, pending, expect, copy, mode>>

SetLevel(j) ==
  /\ Goto(j, "level", "play")
  /\ mode' = Level(j)
  /\ UNCHANGED <<alg, local, pool, pending, expect, copy, bPlay>>

\* Mutant: < for ==.
PlayedLower(j) == mode < Level(j)

\* mode == stAlarmNotice.enMode
PlayedOwn(j) == mode = Level(j)

\* ALARM_PlayAlarm has returned; who finds another level leaves bPlay alone.
Played(j) ==
  /\ PlayedOwn(j)
  /\ Goto(j, "play", "free")
  /\ UNCHANGED <<alg, local, pool, pending, expect, copy, player>>

Overtaken(j) ==
  /\ ~PlayedOwn(j)
  /\ Return(j, "play")
  /\ UNCHANGED <<alg, local, pool, pending, player>>

Free(j) ==
  /\ Return(j, "free")
  /\ bPlay' = 0
  /\ UNCHANGED <<alg, local, pool, pending, mode>>

\* Job j is between setting bPlay and clearing it, or leaving that to another.
Sounding(j) == pc[j] \in {"level", "play", "free"}

\* A sound of at least j's level, or a job between its two stores, when mode is
\* still that of an earlier sound.
Reason(j) == \E k \in Jobs : Sounding(k) /\ (Level(k) >= Level(j) \/ pc[k] = "level")

Job(j) ==
  /\ \/ Take(j) \/ CopyMode(j) \/ CopyRest(j)
     \/ Silent(j) \/ ReadBusy(j) \/ Drop(j) \/ Accept(j)
     \/ SetBusy(j) \/ SetLevel(j) \/ Played(j) \/ Overtaken(j) \/ Free(j)
  /\ reason' = {i \in Jobs : pc'[i] = "compare" /\ (i \in reason \/ Reason(i)')}

Post == WriteMode \/ WriteChn \/ AddWork \/ AddToNoPool

Next ==
  \/ \E l \in 0 .. Top, c \in Channels : Frame(l, c)
  \/ Post
  \/ PD_Start
  \/ \E l \in Levels, i \in Intervals : PD_ConfigSet(l, i)
  \/ \E j \in Jobs : Job(j)

\* The camera sends frames, and every thread runs on.
Fairness ==
  /\ WF_vars(\E l \in 0 .. Top, c \in Channels : Frame(l, c))
  /\ WF_vars(Post) /\ WF_vars(PD_Start)
  /\ \A j \in Jobs : WF_vars(Job(j))

Spec == Init /\ [][Next]_vars /\ Fairness

-----------------------------------------------------------------------------
TypeOK ==
  /\ interval \in [Levels -> Intervals]
  /\ timer \in [Levels -> BOOLEAN]
  /\ worst \in 0 .. Top
  /\ post \in Notices
  /\ apc \in {"frame", "mode", "chn", "add"}
  /\ local \in Notices
  /\ pool \in BOOLEAN
  /\ pending \in Seq(Notices \cup {Overwritten}) /\ Len(pending) <= MaxPending
  /\ pc \in [Jobs -> {"idle", "copy", "copying", "test", "compare", "busy", "level", "play", "free"}]
  /\ expect \in [Jobs -> Notices \cup {Overwritten}]
  /\ copy \in [Jobs -> Notices]
  /\ reason \subseteq Jobs
  /\ bPlay \in {0, 1}
  /\ mode \in -1 .. Top

\* bPlay does not stay set when nobody plays: it would silence every level up
\* to mode for ever.  The last job to write mode finds it unchanged
\* (pd.cpp:2740) and clears bPlay, although jobs overlap at will and bPlay may
\* be cleared under a job that plays.
PlayerFreed == bPlay = 1 => \E j \in Jobs : Sounding(j)

\* A sound is dropped only for a reason: at some instant from the read of bPlay
\* to the read of mode (pd.cpp:2678) a job was playing one of at least its
\* level, or stood between its two stores.  By the time of the drop that job
\* may be done, and then a sound is dropped while nobody plays.
DroppedForReason ==
  [][\A j \in Jobs : pc[j] = "compare" /\ pc'[j] = "idle" => j \in reason]_vars

\* A job whose notice has not been overwritten since it was added plays that
\* notice, level and channel: it is complete when the job is added
\* (pd.cpp:3698-3706).
OwnNotice ==
  \A j \in Jobs : pc[j] \notin {"idle", "copy", "copying"} /\ expect[j] # Overwritten
    => copy[j] = expect[j]

\* A level that is the worst in view again and again, with nothing worse and
\* no level switched off, is posted again and again: its timer is a countdown,
\* as the comment at pd.cpp:6388 says, after which it is posted once more.
PostedAgain ==
  \A l \in Levels :
    /\ <>[](worst <= l /\ \A m \in Levels : interval[m] >= 0)
    /\ []<>(worst = l)
    => []<>(post.mode = l)

=============================================================================
