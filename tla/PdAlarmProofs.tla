--------------------------- MODULE PdAlarmProofs ---------------------------
(***************************************************************************)
(* Proofs about PdAlarm, for any number of levels, of channels and of      *)
(* threads of the pool: the player is not left busy, a sound is dropped    *)
(* only for one that was as bad while it was decided, and a notice that    *)
(* nobody has overwritten is played as it was posted.  At the end:         *)
(* CalcLock, whose pd thread is the one that posts these notices.          *)
(***************************************************************************)
EXTENDS PdAlarm, SequenceTheorems, TLAPS

\* Who is going to clear bPlay: a job that has yet to write mode, or one that
\* will find mode as it has written it.
PlayerOwned ==
  bPlay = 1 => \E j \in Jobs :
    \/ pc[j] = "level"
    \/ pc[j] \in {"play", "free"} /\ Level(j) = mode

\* Nothing is queued and nobody runs before there is a pool.
PoolFirst == ~pool => pending = <<>> /\ \A j \in Jobs : pc[j] = "idle"

\* What pd_Alarm_Post has written of the static notice.
Written ==
  /\ apc \in {"chn", "add"} => local.mode = post.mode
  /\ apc = "add" => local.chn = post.chn

\* A job that waits, or copies, and has not been overtaken by the next post
\* was added for the notice as it stands.
NoticeStands ==
  /\ \A i \in 1 .. Len(pending) :
       pending[i] = Overwritten \/ (apc \in {"frame", "mode"} /\ pending[i] = local)
  /\ \A j \in Jobs : pc[j] \in {"copy", "copying"} =>
       expect[j] = Overwritten \/ (apc \in {"frame", "mode"} /\ expect[j] = local)
  /\ \A j \in Jobs : pc[j] = "copying" =>
       expect[j] = Overwritten \/ copy[j].mode = expect[j].mode

\* A job between its reads of bPlay and of mode knows of a reason to drop, if
\* there is one now, or mode is still below its level.
ReasonKnown ==
  \A j \in Jobs : pc[j] = "compare" =>
    /\ Reason(j) => j \in reason
    /\ j \in reason \/ mode < Level(j)

IInv == TypeOK /\ PlayerOwned /\ PoolFirst /\ Written /\ NoticeStands /\ OwnNotice

-----------------------------------------------------------------------------
LEMMA NothingType == Nothing \in Notices /\ AnyChannel \in Channels
BY PdAlarmAssumption DEF Nothing, Notices, AnyChannel

LEMMA PostedType == ASSUME NEW l \in 0 .. Top PROVE Posted(l) \in 0 .. Top
BY PdAlarmAssumption DEF Posted

LEMMA InitIInv == Init => IInv
<1> SUFFICES ASSUME Init PROVE IInv
  OBVIOUS
<1>1. TypeOK
  <2>1. pending \in Seq(Notices \cup {Overwritten}) /\ Len(pending) <= MaxPending
    BY PdAlarmAssumption DEF Init
  <2>2. expect \in [Jobs -> Notices \cup {Overwritten}] /\ copy \in [Jobs -> Notices]
    BY NothingType DEF Init
  <2>3. worst \in 0 .. Top /\ mode \in -1 .. Top
    BY PdAlarmAssumption DEF Init
  <2>4. QED
    BY <2>1, <2>2, <2>3, NothingType DEF Init, TypeOK
<1>2. PlayerOwned /\ PoolFirst /\ Written /\ OwnNotice
  BY DEF Init, PlayerOwned, PoolFirst, Written, OwnNotice
<1>3. NoticeStands
  BY DEF Init, NoticeStands
<1>4. QED
  BY <1>1, <1>2, <1>3 DEF IInv

-----------------------------------------------------------------------------
(***************************************************************************)
(* pd_alg_Body and pd_Alarm_Post.  They touch neither bPlay and mode nor   *)
(* what a job has copied.                                                  *)
(***************************************************************************)
LEMMA FrameIInv == ASSUME IInv, NEW l \in 0 .. Top, NEW c \in Channels, Frame(l, c) PROVE IInv'
<1>1. TypeOK'
  <2>1. post' \in Notices
    BY PostedType DEF Frame, Notices
  <2>2. timer' \in [Levels -> BOOLEAN]
    BY DEF IInv, TypeOK, Frame, Levels
  <2>3. QED
    BY <2>1, <2>2 DEF IInv, TypeOK, Frame, jobs, player
<1>2. PlayerOwned' /\ PoolFirst' /\ Written' /\ OwnNotice'
  BY DEF IInv, Frame, jobs, player, PlayerOwned, PoolFirst, Written, OwnNotice, Level
<1>3. NoticeStands'
  BY DEF IInv, Frame, jobs, NoticeStands
<1>4. QED
  BY <1>1, <1>2, <1>3 DEF IInv

LEMMA WriteModeIInv == ASSUME IInv, WriteMode PROVE IInv'
<1>1. TypeOK
  BY DEF IInv
<1>2. Len(pending) \in Nat /\ pending \in Seq(Notices \cup {Overwritten})
  BY <1>1 DEF TypeOK
<1>3. /\ pending' \in Seq(Notices \cup {Overwritten})
      /\ Len(pending') = Len(pending)
      /\ \A i \in 1 .. Len(pending') : pending'[i] = Overwritten
  BY <1>2 DEF WriteMode
<1>4. local' \in Notices /\ local'.mode = post.mode /\ local'.chn = local.chn
  BY <1>1 DEF WriteMode, TypeOK, Notices
<1>5. TypeOK'
  BY <1>1, <1>3, <1>4 DEF WriteMode, TypeOK, player
<1>6. PlayerOwned' /\ Written'
  BY <1>4 DEF IInv, WriteMode, player, PlayerOwned, Written, Level
<1>7. PoolFirst'
  BY <1>2, <1>3 DEF IInv, PoolFirst, WriteMode
<1>8. NoticeStands'
  BY <1>1, <1>3 DEF NoticeStands, WriteMode, TypeOK
<1>9. OwnNotice'
  BY <1>1 DEF IInv, OwnNotice, WriteMode, TypeOK
<1>10. QED
  BY <1>5, <1>6, <1>7, <1>8, <1>9 DEF IInv

LEMMA WriteChnIInv == ASSUME IInv, WriteChn PROVE IInv'
<1>1. local' \in Notices /\ local'.mode = local.mode /\ local'.chn = post.chn
  BY DEF IInv, WriteChn, TypeOK, Notices
<1>2. TypeOK'
  BY <1>1 DEF IInv, WriteChn, TypeOK, jobs, player
<1>3. PlayerOwned' /\ PoolFirst' /\ Written' /\ OwnNotice'
  BY <1>1 DEF IInv, WriteChn, jobs, player, PlayerOwned, PoolFirst, Written, OwnNotice, Level
<1>4. NoticeStands'
  BY DEF IInv, WriteChn, jobs, NoticeStands
<1>5. QED
  BY <1>2, <1>3, <1>4 DEF IInv

LEMMA AddWorkIInv == ASSUME IInv, AddWork PROVE IInv'
<1>1. TypeOK /\ Nothing \in Notices
  BY NothingType DEF IInv
<1>2. /\ post = local
      /\ post \in Notices
  <2>1. post \in Notices /\ local \in Notices
    BY <1>1 DEF TypeOK
  <2>2. local.mode = post.mode /\ local.chn = post.chn
    BY DEF IInv, Written, AddWork
  <2>3. QED
    BY <2>1, <2>2 DEF Notices
<1>3. /\ pending' \in Seq(Notices \cup {Overwritten})
      /\ Len(pending') = Len(pending) + 1
      /\ \A i \in 1 .. Len(pending) : pending'[i] = pending[i]
      /\ pending'[Len(pending) + 1] = post
  BY <1>1, <1>2, AppendProperties DEF AddWork, TypeOK
<1>4. TypeOK'
  <2>1. Len(pending) \in Nat /\ Len(pending') <= MaxPending /\ 0 \in 0 .. Top
    BY <1>1, <1>3, PdAlarmAssumption DEF AddWork, TypeOK
  <2>2. QED
    BY <1>1, <1>3, <2>1 DEF AddWork, TypeOK, jobs, player
<1>5. PlayerOwned' /\ PoolFirst' /\ Written' /\ OwnNotice'
  BY DEF IInv, AddWork, jobs, player, PlayerOwned, PoolFirst, Written, OwnNotice, Level
<1>6. NoticeStands'
  <2>1. ASSUME NEW i \in 1 .. Len(pending')
        PROVE  pending'[i] = Overwritten \/ (apc' \in {"frame", "mode"} /\ pending'[i] = local')
    <3>1. Len(pending) \in Nat
      BY <1>1 DEF TypeOK
    <3>2. CASE i = Len(pending) + 1
      BY <1>2, <1>3, <3>2 DEF AddWork
    <3>3. CASE i \in 1 .. Len(pending)
      BY <1>3, <3>3 DEF IInv, NoticeStands, AddWork
    <3>4. QED
      BY <1>3, <3>1, <3>2, <3>3
  <2>2. QED
    BY <2>1 DEF IInv, NoticeStands, AddWork, jobs
<1>7. QED
  BY <1>4, <1>5, <1>6 DEF IInv

LEMMA AddToNoPoolIInv == ASSUME IInv, AddToNoPool PROVE IInv'
<1>1. TypeOK'
  BY NothingType, PdAlarmAssumption DEF IInv, AddToNoPool, TypeOK, jobs, player
<1>2. PlayerOwned' /\ PoolFirst' /\ Written' /\ OwnNotice'
  BY DEF IInv, AddToNoPool, jobs, player, PlayerOwned, PoolFirst, Written, OwnNotice, Level
<1>3. NoticeStands'
  BY DEF IInv, AddToNoPool, jobs, NoticeStands, PoolFirst
<1>4. QED
  BY <1>1, <1>2, <1>3 DEF IInv

LEMMA MainIInv ==
  ASSUME IInv, PD_Start \/ \E l \in Levels, i \in Intervals : PD_ConfigSet(l, i)
  PROVE  IInv'
<1>1. CASE PD_Start
  BY <1>1 DEF PD_Start, IInv, TypeOK, PlayerOwned, PoolFirst, Written, NoticeStands, OwnNotice,
     Level, alg, jobs, player
<1>2. ASSUME NEW l \in Levels, NEW i \in Intervals, PD_ConfigSet(l, i) PROVE IInv'
  <2>1. interval' \in [Levels -> Intervals]
    BY <1>2 DEF PD_ConfigSet, IInv, TypeOK
  <2>2. QED
    BY <1>2, <2>1 DEF PD_ConfigSet, IInv, TypeOK, PlayerOwned, PoolFirst, Written, NoticeStands,
       OwnNotice, Level, jobs, player
<1>3. QED
  BY <1>1, <1>2

-----------------------------------------------------------------------------
(***************************************************************************)
(* pd_Audio_Play.                                                          *)
(***************************************************************************)
LEMMA TakeIInv == ASSUME IInv, NEW j \in Jobs, Take(j), reason' \subseteq Jobs PROVE IInv'
<1>1. TypeOK /\ NoticeStands /\ pending \in Seq(Notices \cup {Overwritten}) /\ pending # <<>>
  BY DEF IInv, TypeOK, Take
<1>2. /\ Head(pending) = pending[1]
      /\ 1 \in 1 .. Len(pending)
      /\ pending[1] \in Notices \cup {Overwritten}
      /\ pending' \in Seq(Notices \cup {Overwritten})
      /\ Len(pending') = Len(pending) - 1
      /\ \A i \in 1 .. Len(pending') : i + 1 \in 1 .. Len(pending) /\ pending'[i] = pending[i + 1]
  BY <1>1, HeadTailProperties, ElementOfSeq DEF Take
<1>3. pc' = [pc EXCEPT ![j] = "copy"] /\ expect' = [expect EXCEPT ![j] = pending[1]]
  BY <1>2 DEF Take, Goto
<1>4. TypeOK'
  <2>1. Len(pending) \in Nat /\ Len(pending') <= MaxPending
    BY <1>1, <1>2, PdAlarmAssumption DEF TypeOK
  <2>2. QED
    BY <1>1, <1>2, <1>3, <2>1 DEF Take, TypeOK, alg, player
<1>5. PlayerOwned'
  BY <1>1, <1>3 DEF IInv, TypeOK, Take, Goto, player, PlayerOwned, Level
<1>6. PoolFirst' /\ Written' /\ OwnNotice'
  BY <1>1, <1>3 DEF IInv, TypeOK, Take, alg, PoolFirst, Written, OwnNotice
<1>7. NoticeStands'
  <2>1. ASSUME NEW i \in 1 .. Len(pending')
        PROVE  pending'[i] = Overwritten \/ (apc' \in {"frame", "mode"} /\ pending'[i] = local')
    BY <1>1, <1>2 DEF NoticeStands, Take, alg
  <2>2. ASSUME NEW k \in Jobs, pc'[k] \in {"copy", "copying"}
        PROVE  expect'[k] = Overwritten \/ (apc' \in {"frame", "mode"} /\ expect'[k] = local')
    BY <1>1, <1>2, <1>3, <2>2 DEF NoticeStands, Take, alg, TypeOK
  <2>3. ASSUME NEW k \in Jobs, pc'[k] = "copying"
        PROVE  expect'[k] = Overwritten \/ copy'[k].mode = expect'[k].mode
    BY <1>1, <1>3, <2>3 DEF NoticeStands, Take, TypeOK
  <2>4. QED
    BY <2>1, <2>2, <2>3 DEF NoticeStands
<1>8. QED
  BY <1>4, <1>5, <1>6, <1>7 DEF IInv

LEMMA CopyIInv ==
  ASSUME IInv, NEW j \in Jobs, CopyMode(j) \/ CopyRest(j), reason' \subseteq Jobs
  PROVE  IInv'
<1>1. TypeOK
  BY DEF IInv
<1>2. CASE CopyMode(j)
  <2>1. /\ pc' = [pc EXCEPT ![j] = "copying"] /\ pc[j] = "copy"
        /\ copy' \in [Jobs -> Notices]
        /\ copy'[j].mode = local.mode
        /\ \A k \in Jobs \ {j} : copy'[k] = copy[k]
    BY <1>1, <1>2 DEF CopyMode, Goto, TypeOK, Notices
  <2>2. TypeOK'
    BY <1>1, <1>2, <2>1 DEF CopyMode, TypeOK, alg, player
  <2>3. PlayerOwned'
    BY <1>1, <1>2, <2>1 DEF IInv, TypeOK, CopyMode, player, PlayerOwned, Level
  <2>4. PoolFirst' /\ Written' /\ OwnNotice'
    BY <1>1, <1>2, <2>1 DEF IInv, TypeOK, CopyMode, alg, PoolFirst, Written, OwnNotice
  <2>5. NoticeStands'
    BY <1>1, <1>2, <2>1 DEF IInv, TypeOK, CopyMode, alg, NoticeStands
  <2>6. QED
    BY <2>2, <2>3, <2>4, <2>5 DEF IInv
<1>3. CASE CopyRest(j)
  <2>1. /\ pc' = [pc EXCEPT ![j] = "test"] /\ pc[j] = "copying"
        /\ copy' \in [Jobs -> Notices]
        /\ copy'[j].mode = copy[j].mode /\ copy'[j].chn = local.chn
        /\ \A k \in Jobs \ {j} : copy'[k] = copy[k]
    BY <1>1, <1>3 DEF CopyRest, Goto, TypeOK, Notices
  <2>2. TypeOK'
    BY <1>1, <1>3, <2>1 DEF CopyRest, TypeOK, alg, player
  <2>3. PlayerOwned'
    BY <1>1, <1>3, <2>1 DEF IInv, TypeOK, CopyRest, player, PlayerOwned, Level
  <2>4. PoolFirst' /\ Written' /\ NoticeStands'
    BY <1>1, <1>3, <2>1 DEF IInv, TypeOK, CopyRest, alg, PoolFirst, Written, NoticeStands
  <2>5. expect[j] # Overwritten => copy'[j] = expect[j]
    <3>1. expect[j] # Overwritten => expect[j] = local /\ copy[j].mode = expect[j].mode
      BY <2>1 DEF IInv, NoticeStands
    <3>2. copy'[j] \in Notices /\ local \in Notices
      BY <1>1, <2>1 DEF TypeOK
    <3>3. QED
      BY <2>1, <3>1, <3>2 DEF Notices
  <2>6. OwnNotice'
    BY <1>1, <1>3, <2>1, <2>5 DEF IInv, TypeOK, CopyRest, OwnNotice
  <2>7. QED
    BY <2>2, <2>3, <2>4, <2>6 DEF IInv
<1>4. QED
  BY <1>2, <1>3

\* Steps of a job that only move it on: the copy is complete and stays.
LEMMA MoveIInv ==
  ASSUME IInv, NEW j \in Jobs, reason' \subseteq Jobs,
         ReadBusy(j) \/ Accept(j) \/ SetBusy(j) \/ SetLevel(j) \/ Played(j)
  PROVE  IInv'
<1>1. TypeOK
  BY DEF IInv
<1>2. PICK to \in {"compare", "busy", "level", "play", "free"} : pc' = [pc EXCEPT ![j] = to]
  BY DEF ReadBusy, Accept, SetBusy, SetLevel, Played, Goto
<1>3. /\ pc[j] \in {"test", "compare", "busy", "level", "play"}
      /\ UNCHANGED <<alg, local, pool, pending, expect, copy>>
  BY DEF ReadBusy, Accept, SetBusy, SetLevel, Played, Goto, player
<1>4. bPlay' \in {0, 1} /\ mode' \in -1 .. Top
  BY <1>1 DEF ReadBusy, Accept, SetBusy, SetLevel, Played, player, TypeOK, Level, Notices
<1>5. TypeOK'
  BY <1>1, <1>2, <1>3, <1>4 DEF TypeOK, alg
<1>6. PlayerOwned'
  <2>1. CASE ReadBusy(j) \/ Accept(j)
    BY <1>1, <2>1 DEF IInv, TypeOK, ReadBusy, Accept, Goto, player, PlayerOwned, Level
  <2>2. CASE SetBusy(j)
    BY <1>1, <2>2 DEF IInv, TypeOK, SetBusy, Goto, PlayerOwned
  <2>3. CASE SetLevel(j)
    BY <1>1, <2>3 DEF IInv, TypeOK, SetLevel, Goto, PlayerOwned, Level
  <2>4. CASE Played(j)
    BY <1>1, <2>4 DEF IInv, TypeOK, Played, PlayedOwn, Goto, player, PlayerOwned, Level
  <2>5. QED
    BY <2>1, <2>2, <2>3, <2>4
<1>7. PoolFirst' /\ Written' /\ OwnNotice' /\ NoticeStands'
  BY <1>1, <1>2, <1>3 DEF IInv, TypeOK, alg, PoolFirst, Written, OwnNotice, NoticeStands
<1>8. QED
  BY <1>5, <1>6, <1>7 DEF IInv

\* Steps that end a job.  Who gives up after playing has found another level
\* in mode, and is not the one who is going to clear bPlay.
LEMMA ReturnIInv ==
  ASSUME IInv, NEW j \in Jobs, reason' \subseteq Jobs,
         Silent(j) \/ Drop(j) \/ Overtaken(j) \/ Free(j)
  PROVE  IInv'
<1>1. TypeOK
  BY DEF IInv
<1>2. /\ pc' = [pc EXCEPT ![j] = "idle"]
      /\ expect' = [expect EXCEPT ![j] = Overwritten]
      /\ copy' = [copy EXCEPT ![j] = Nothing]
      /\ pc[j] \in {"test", "compare", "play", "free"}
      /\ UNCHANGED <<alg, local, pool, pending, mode>>
      /\ bPlay' \in {0, bPlay}
  BY <1>1 DEF Silent, Drop, Overtaken, Free, Return, Goto, player
<1>3. TypeOK'
  BY <1>1, <1>2, NothingType DEF TypeOK, alg
<1>4. PlayerOwned'
  <2>1. CASE Silent(j) \/ Drop(j) \/ Overtaken(j)
    <3>1. pc[j] = "play" => Level(j) # mode
      BY <2>1 DEF Silent, Drop, Overtaken, PlayedOwn, Return, Goto
    <3>2. pc[j] \in {"test", "compare", "play"} /\ bPlay' = bPlay
      BY <2>1 DEF Silent, Drop, Overtaken, Return, Goto, player
    <3>3. QED
      BY <1>1, <1>2, <3>1, <3>2 DEF IInv, TypeOK, PlayerOwned, Level
  <2>2. CASE Free(j)
    BY <2>2 DEF Free, PlayerOwned
  <2>3. QED
    BY <2>1, <2>2
<1>5. PoolFirst' /\ Written' /\ OwnNotice' /\ NoticeStands'
  BY <1>1, <1>2 DEF IInv, TypeOK, alg, PoolFirst, Written, OwnNotice, NoticeStands
<1>6. QED
  BY <1>3, <1>4, <1>5 DEF IInv

LEMMA NextIInv == IInv /\ [Next]_vars => IInv'
<1> SUFFICES ASSUME IInv, [Next]_vars PROVE IInv'
  OBVIOUS
<1>1. CASE UNCHANGED vars
  BY <1>1 DEF vars, alg, jobs, player, IInv, TypeOK, PlayerOwned, PoolFirst, Written, NoticeStands,
     OwnNotice, Level
<1>2. CASE \E l \in 0 .. Top, c \in Channels : Frame(l, c)
  BY <1>2, FrameIInv
<1>3. CASE Post
  BY <1>3, WriteModeIInv, WriteChnIInv, AddWorkIInv, AddToNoPoolIInv DEF Post
<1>4. CASE PD_Start \/ \E l \in Levels, i \in Intervals : PD_ConfigSet(l, i)
  BY <1>4, MainIInv
<1>5. ASSUME NEW j \in Jobs, Job(j) PROVE IInv'
  <2>1. reason' \subseteq Jobs
    BY <1>5 DEF Job
  <2>2. QED
    BY <1>5, <2>1, TakeIInv, CopyIInv, MoveIInv, ReturnIInv DEF Job
<1>6. QED
  BY <1>1, <1>2, <1>3, <1>4, <1>5 DEF Next

LEMMA SpecIInv == Spec => []IInv
BY InitIInv, NextIInv, PTL DEF Spec

-----------------------------------------------------------------------------
\* Type correctness of the alarm's way from a frame to a sound.
THEOREM TypeCorrect == Spec => []TypeOK
<1>1. IInv => TypeOK
  BY DEF IInv
<1>2. QED
  BY <1>1, SpecIInv, PTL

\* bPlay is never set without a job that is going to clear it, or to leave
\* that to another: pd_Audio_Play needs no lock for this, with any number of
\* jobs and levels.
THEOREM PlayerFreedSafe == Spec => []PlayerFreed
<1>1. IInv => PlayerFreed
  BY DEF IInv, PlayerOwned, PlayerFreed, Sounding
<1>2. QED
  BY <1>1, SpecIInv, PTL

\* A job whose notice has not been overwritten plays the notice it was added
\* for: pd_Alarm_Post completes it before it adds the job.
THEOREM OwnNoticeSafe == Spec => []OwnNotice
<1>1. IInv => OwnNotice
  BY DEF IInv
<1>2. QED
  BY <1>1, SpecIInv, PTL

\* What a step of a job may do to the level, the position and the knowledge of
\* another that is between its two reads, or is about to be.
LEMMA ReasonNext == ASSUME IInv, ReasonKnown, [Next]_vars PROVE ReasonKnown'
<1>1. TypeOK /\ \A k \in Jobs : Level(k) \in 0 .. Top
  BY DEF IInv, TypeOK, Notices, Level
<1>2. CASE UNCHANGED <<pc, copy, reason, mode>>
  BY <1>2 DEF ReasonKnown, Reason, Sounding, Level
<1>3. ASSUME NEW k \in Jobs, Job(k) PROVE ReasonKnown'
  <2> SUFFICES ASSUME NEW j \in Jobs, pc'[j] = "compare"
               PROVE  /\ Reason(j)' => j \in reason'
                      /\ j \in reason' \/ mode' < Level(j)'
    BY DEF ReasonKnown
  <2>1. reason' = {i \in Jobs : pc'[i] = "compare" /\ (i \in reason \/ Reason(i)')}
    BY <1>3 DEF Job
  <2>2. Reason(j)' => j \in reason'
    BY <2>1
  <2>3. j \in reason => j \in reason'
    BY <2>1
  <2>4. CASE j = k
    <3>1. ReadBusy(j)
      BY <1>1, <1>3, <2>4 DEF Job, Take, CopyMode, CopyRest, Silent, Drop, Accept, SetBusy, SetLevel,
         Played, Overtaken, Free, Return, Goto, TypeOK
    <3>2. bPlay = 1 /\ mode' = mode /\ copy' = copy /\ pc' = [pc EXCEPT ![j] = "compare"] /\ pc[j] = "test"
      BY <1>1, <3>1 DEF ReadBusy, Goto, player, TypeOK
    <3>3. PICK l \in Jobs : pc[l] = "level" \/ (pc[l] \in {"play", "free"} /\ Level(l) = mode)
      BY <3>2 DEF IInv, PlayerOwned
    <3>4. pc'[l] = pc[l] /\ Level(l)' = Level(l) /\ Level(j)' = Level(j)
      BY <1>1, <3>2, <3>3 DEF TypeOK, Level
    <3>5. mode \in Int /\ Level(j) \in Int
      BY <1>1 DEF TypeOK
    <3>6. CASE mode < Level(j)
      BY <2>2, <3>2, <3>4, <3>6
    <3>7. CASE ~(mode < Level(j))
      <4>1. Reason(j)'
        BY <3>3, <3>4, <3>5, <3>7 DEF Reason, Sounding
      <4>2. QED
        BY <2>2, <4>1
    <3>8. QED
      BY <3>6, <3>7
  <2>5. CASE j # k
    <3>1. pc'[j] = pc[j] /\ copy'[j] = copy[j]
      BY <1>1, <1>3, <2>5 DEF Job, Take, CopyMode, CopyRest, Silent, ReadBusy, Drop, Accept, SetBusy,
         SetLevel, Played, Overtaken, Free, Return, Goto, TypeOK
    <3>2. Level(j)' = Level(j) /\ (Reason(j) => j \in reason) /\ (j \in reason \/ mode < Level(j))
      BY <3>1 DEF ReasonKnown, Level
    <3>3. CASE mode' = mode
      BY <2>2, <2>3, <3>2, <3>3
    <3>4. CASE mode' # mode
      <4>1. pc[k] = "level"
        BY <1>3, <3>4 DEF Job, Take, CopyMode, CopyRest, Silent, ReadBusy, Drop, Accept, SetBusy,
           SetLevel, Played, Overtaken, Free, Goto, player
      <4>2. Reason(j)
        BY <4>1 DEF Reason, Sounding
      <4>3. QED
        BY <2>2, <2>3, <3>2, <4>2
    <3>5. QED
      BY <3>3, <3>4
  <2>6. QED
    BY <2>4, <2>5
<1>4. QED
  BY <1>2, <1>3 DEF Next, Frame, Post, WriteMode, WriteChn, AddWork, AddToNoPool, PD_Start, PD_ConfigSet,
     vars, jobs, player

\* pd_Audio_Play reads bPlay and mode one after the other, and both change
\* meanwhile.  For any number of jobs and levels it drops a sound only if, at
\* some instant from the one read to the other, a job played one of at least
\* its level or stood between its two stores.
THEOREM DroppedForReasonSafe == Spec => DroppedForReason
<1> DEFINE Explained == \A j \in Jobs : pc[j] = "compare" /\ pc'[j] = "idle" => j \in reason
<1>1. Init => ReasonKnown
  BY DEF Init, ReasonKnown
<1>2. IInv /\ ReasonKnown /\ [Next]_vars => ReasonKnown'
  BY ReasonNext
<1>3. IInv /\ ReasonKnown /\ [Next]_vars => [Explained]_vars
  <2> SUFFICES ASSUME IInv, ReasonKnown, Next, NEW j \in Jobs, pc[j] = "compare", pc'[j] = "idle"
               PROVE  j \in reason
    OBVIOUS
  <2>1. TypeOK /\ Level(j) \in 0 .. Top
    BY DEF IInv, TypeOK, Notices, Level
  <2>2. \E k \in Jobs : Job(k)
    BY <2>1 DEF Next, Frame, Post, WriteMode, WriteChn, AddWork, AddToNoPool, PD_Start, PD_ConfigSet, jobs
  <2>3. Drop(j)
    BY <2>1, <2>2 DEF Job, Take, CopyMode, CopyRest, Silent, ReadBusy, Accept, SetBusy, SetLevel, Played,
       Overtaken, Free, Return, Goto, TypeOK, Drop
  <2>4. mode >= Level(j) /\ mode \in Int
    BY <2>1, <2>3 DEF Drop, Refuses, TypeOK
  <2>5. QED
    BY <2>1, <2>4 DEF ReasonKnown
<1>4. QED
  BY <1>1, <1>2, <1>3, SpecIInv, PTL DEF Spec, DroppedForReason

-----------------------------------------------------------------------------
(***************************************************************************)
(* The computing lock, which pd_alg_Body releases without taking it:       *)
(* proofs about CalcLock.  Where every algorithm thread locks (Pd = {}),   *)
(* g_Mutex keeps its promise for any number of threads and any choice of   *)
(* error paths.                                                            *)
(***************************************************************************)
CONSTANTS Algs, Pd, Leaky, Quitters
VARIABLES locked, sem, lockPc

Lock == INSTANCE CalcLock WITH pc <- lockPc

\* A thread between lock and unlock has the mutex, and there is one of them.
LockHolder ==
  /\ \A t \in Lock!Threads : Lock!Inside(t) => locked
  /\ \A t, u \in Lock!Threads : Lock!Inside(t) /\ Lock!Inside(u) => t = u

LockIInv == Lock!TypeOK /\ LockHolder

LEMMA LockInit == Lock!Init => LockIInv
  BY DEF Lock!Init, LockIInv, Lock!TypeOK, LockHolder, Lock!Inside, Lock!Threads

\* One step per action of a thread that locks; ipsys touches neither the
\* mutex nor a program counter.
LEMMA LockNext ==
  ASSUME Lock!CalcLockAssumption, Pd = {}, LockIInv, [Lock!Next]_(Lock!vars)
  PROVE  LockIInv'
<1> USE DEF Lock!CalcLockAssumption, LockIInv, Lock!TypeOK, LockHolder, Lock!Inside, Lock!Threads, Lock!Goto
<1>1. CASE UNCHANGED Lock!vars
  BY <1>1 DEF Lock!vars
<1>2. ASSUME NEW a \in Algs, Lock!ALG_Calculate_Lock(a) PROVE LockIInv'
  BY <1>2 DEF Lock!ALG_Calculate_Lock
<1>3. ASSUME NEW a \in Algs, Lock!MS_P(a) PROVE LockIInv'
  BY <1>3 DEF Lock!MS_P
<1>4. ASSUME NEW a \in Algs, Lock!MS_P_Fails(a) PROVE LockIInv'
  <2>1. CASE a \in Leaky
    BY <1>4, <2>1 DEF Lock!MS_P_Fails
  <2>2. CASE a \notin Leaky
    BY <1>4, <2>2 DEF Lock!MS_P_Fails
  <2>3. QED
    BY <2>1, <2>2
<1>5. ASSUME NEW a \in Algs, Lock!Forward(a) PROVE LockIInv'
  BY <1>5 DEF Lock!Forward
<1>6. ASSUME NEW a \in Algs, Lock!Quit(a) PROVE LockIInv'
  BY <1>6 DEF Lock!Quit
<1>7. ASSUME NEW a \in Algs, Lock!MS_V(a) PROVE LockIInv'
  BY <1>7 DEF Lock!MS_V
<1>8. ASSUME NEW a \in Algs, Lock!WriteBegin(a) \/ Lock!WriteEnd(a) PROVE LockIInv'
  BY <1>8 DEF Lock!WriteBegin, Lock!WriteEnd
<1>9. ASSUME NEW t \in Lock!Threads, Lock!ALG_Calculate_unLock(t) PROVE LockIInv'
  BY <1>9 DEF Lock!ALG_Calculate_unLock
<1>10. QED
  BY <1>1, <1>2, <1>3, <1>4, <1>5, <1>6, <1>7, <1>8, <1>9 DEF Lock!Next

\* Without pd_alg_Body, only one algorithm runs at the same time.
THEOREM Exclusion ==
  ASSUME Lock!CalcLockAssumption, Pd = {}
  PROVE  Lock!Spec => []Lock!OneAlgorithm
<1>1. LockIInv /\ [Lock!Next]_(Lock!vars) => LockIInv'
  BY LockNext
<1>2. LockIInv => Lock!OneAlgorithm
  BY DEF LockIInv, LockHolder, Lock!Inside, Lock!OneAlgorithm
<1> QED BY <1>1, <1>2, LockInit, PTL DEF Lock!Spec

-----------------------------------------------------------------------------
LEMMA LockTypeNext ==
  ASSUME Lock!CalcLockAssumption, Lock!TypeOK, [Lock!Next]_(Lock!vars)
  PROVE  Lock!TypeOK'
<1> USE DEF Lock!CalcLockAssumption, Lock!TypeOK, Lock!Threads, Lock!Goto
<1>1. CASE UNCHANGED Lock!vars
  BY <1>1 DEF Lock!vars
<1>2. ASSUME NEW a \in Algs, Lock!ALG_Calculate_Lock(a) PROVE Lock!TypeOK'
  BY <1>2 DEF Lock!ALG_Calculate_Lock
<1>3. ASSUME NEW a \in Algs, Lock!MS_P(a) \/ Lock!MS_V(a) PROVE Lock!TypeOK'
  BY <1>3 DEF Lock!MS_P, Lock!MS_V
<1>4. ASSUME NEW a \in Algs, Lock!MS_P_Fails(a) PROVE Lock!TypeOK'
  BY <1>4 DEF Lock!MS_P_Fails
<1>5. ASSUME NEW a \in Algs, Lock!Forward(a) \/ Lock!Quit(a) PROVE Lock!TypeOK'
  BY <1>5 DEF Lock!Forward, Lock!Quit
<1>6. ASSUME NEW a \in Algs, Lock!WriteBegin(a) \/ Lock!WriteEnd(a) PROVE Lock!TypeOK'
  BY <1>6 DEF Lock!WriteBegin, Lock!WriteEnd
<1>7. ASSUME NEW p \in Pd, Lock!Analyse(p) \/ Lock!AnalyseDone(p) PROVE Lock!TypeOK'
  BY <1>7 DEF Lock!Analyse, Lock!AnalyseDone
<1>8. ASSUME NEW t \in Lock!Threads, Lock!ALG_Calculate_unLock(t) PROVE Lock!TypeOK'
  BY <1>8 DEF Lock!ALG_Calculate_unLock
<1>9. QED
  BY <1>1, <1>2, <1>3, <1>4, <1>5, <1>6, <1>7, <1>8 DEF Lock!Next

\* Type correctness of g_Mutex and the semaphores, with pd_alg_Body too: only
\* apc and track return, and a thread that has returned stays where it is.
THEOREM LockTypeCorrect ==
  ASSUME Lock!CalcLockAssumption
  PROVE  Lock!Spec => []Lock!TypeOK
<1>1. Lock!Init => Lock!TypeOK
  BY DEF Lock!Init, Lock!TypeOK, Lock!Threads
<1>2. Lock!TypeOK /\ [Lock!Next]_(Lock!vars) => Lock!TypeOK'
  BY LockTypeNext
<1> QED BY <1>1, <1>2, PTL DEF Lock!Spec

\* With pd_alg_Body, for any number of threads: an algorithm that computes has
\* the semaphore of its picture, whoever has unlocked g_Mutex (pd.cpp:6883) and
\* whichever calls of MS_P have failed.
THEOREM PictureSafe ==
  ASSUME Lock!CalcLockAssumption
  PROVE  Lock!Spec => []Lock!PictureKept
<1>1. Lock!Init => Lock!PictureKept
  BY DEF Lock!CalcLockAssumption, Lock!Init, Lock!PictureKept, Lock!Threads
<1>2. ASSUME Lock!TypeOK, Lock!PictureKept, [Lock!Next]_(Lock!vars) PROVE Lock!PictureKept'
  <2> USE <1>2 DEF Lock!CalcLockAssumption, Lock!TypeOK, Lock!PictureKept, Lock!Threads, Lock!Goto
  <2>1. CASE UNCHANGED Lock!vars
    BY <2>1 DEF Lock!vars
  <2>2. ASSUME NEW a \in Algs, Lock!ALG_Calculate_Lock(a) \/ Lock!Forward(a) \/ Lock!Quit(a)
        PROVE  Lock!PictureKept'
    BY <2>2 DEF Lock!ALG_Calculate_Lock, Lock!Forward, Lock!Quit
  <2>3. ASSUME NEW a \in Algs, Lock!MS_P(a) \/ Lock!MS_V(a) PROVE Lock!PictureKept'
    BY <2>3 DEF Lock!MS_P, Lock!MS_V
  <2>4. ASSUME NEW a \in Algs, Lock!MS_P_Fails(a) PROVE Lock!PictureKept'
    BY <2>4 DEF Lock!MS_P_Fails
  <2>5. ASSUME NEW a \in Algs, Lock!WriteBegin(a) \/ Lock!WriteEnd(a) PROVE Lock!PictureKept'
    BY <2>5 DEF Lock!WriteBegin, Lock!WriteEnd
  <2>6. ASSUME NEW p \in Pd, Lock!Analyse(p) \/ Lock!AnalyseDone(p) PROVE Lock!PictureKept'
    BY <2>6 DEF Lock!Analyse, Lock!AnalyseDone
  <2>7. ASSUME NEW t \in Lock!Threads, Lock!ALG_Calculate_unLock(t) PROVE Lock!PictureKept'
    BY <2>7 DEF Lock!ALG_Calculate_unLock
  <2>8. QED
    BY <2>1, <2>2, <2>3, <2>4, <2>5, <2>6, <2>7 DEF Lock!Next
<1>3. QED
  BY <1>1, <1>2, LockTypeCorrect, PTL DEF Lock!Spec

=============================================================================
