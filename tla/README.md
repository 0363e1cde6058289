# A TLA+ model of the HD900 `alg` process

`alg` runs on a camera board. It takes H.264 frames from a UVC camera board, decodes them, runs
detectors on them (pedestrians and vehicles, drivers, lanes, people counting) and drives alarms:
sounds, on-screen drawings, a physical alarm wire and messages. One process holds all of this in a
handful of threads that share globals, most of them without a lock; a shell script, `check.sh`,
starts the process again whenever it dies, and the process kills itself on several occasions.

The detectors are closed libraries. What can be modelled, and what is hard to test, is the machinery
around them: queues and buffer rings between threads, flags that several threads write, the lock that
is to keep detectors apart, the state machine of the driver monitoring, and kills and restarts.

Paths in this file and in the modules are relative to the root of the repository (`src/` in
`PROJECT.json`).

## The system's parts

| Part | State it keeps | Operations | Talks to |
|---|---|---|---|
| Ring queue, `include/itc.h` | deque, one read position per reader, mutex, condition | `Write`, `Read` with or without timeout, `Clear` | the three video threads |
| Capture, `mpp_vpss_InitAlgChn`, `mpp_vpss_GetAlgFrame` | V4L2 buffers | give to the driver, dequeue, announce the index, queue again | `ringque_V4L2`, driver |
| Frame filter, `mpp_vpss_FrameSave` | ring `MiddleData` (40 slots), `H264_RESOL`, `Reset_Frame_done[4]` | copy, follow the resolution, wait for I frames, announce | `ringque_MIDDLE`, camera board (UART) |
| Decoder, `mpp_vpss_Vdec` | ring `dstData` (12 slots) | choose decoder and length, decode, copy, announce; kills the process after 10 s without a picture | `ringque` |
| Pedestrian algorithm, `pd_alg_Body` | alarm timers, regions | take a frame, detect, decide on alarms | alarm output, audio, GUI |
| Monitor, `mpp_vpss_Monitor` | `s32time_out`, countdown `alarm_out_flag` | every 200 ms: watchdog, video node, area information, countdown | kills the process |
| Alarm output, `pd_Alarm_Out_*` | the wire, `alarm_out_flag`, `alarm_out_lock`, `cnt`, `enAlgTrigger` | enable, reset, one call per frame, configuration | driven by three threads |
| Computing lock, `alg.cpp` | `g_Mutex`, media semaphores | lock, `MS_P`, compute, `MS_V`, unlock | all algorithm threads, `ipsys` |
| Alarm sounds, `pd_Alarm_Post`, `pd_Audio_Play` | interval timers, static notice, thread pool, `bPlay`, `mode` | level of a frame to notice, notice to job, play or drop | pool of 10 threads, player |
| Driver monitoring, `dmm/dmm.cpp` | `enRunStat`, `enRunResult`, `szUserDir` | six bodies, requests from messages | callbacks of `alg.cpp` |
| Users, `DMM_RegisterUser`, `DMM_DeleteUser`, ... | one directory per user, with a file `username` | list, add, delete, rename, withdraw | a thread per request, the message receiver |
| UART link, `pd_HandlePalletFrame` | `PALLET_CONFIG`, `enPdsModel` of the configuration, `g_bRestartScheduled` | save parameters and model, answer, restart | camera board, `check.sh` |
| Message loop, `alg.cpp` | configuration | start of all modules, callbacks | everything |
| adas, apc, track, zoom | results | one loop each | computing lock |
| Upgrade, `upgrade/upgrade.cpp` | a file that arrives in blocks | a program of its own | camera board |

What makes these parts hard, in short (the full list, each item at its line, is under `hazards` in
`PROJECT.json`): indices that are used after the lock of their queue has been released; counters and
flags written by two threads; a value read, and the wire written later; a global resolution that
changes while frames queued under the other one are in flight; a mutex that is unlocked by a thread
that does not hold it, or not unlocked on an error path; results that answer the wrong request;
a buffer that the driver may fill while it is copied; commands of the shell that fail, or a kill,
between two changes of the file system; a notice that is overwritten before it has been played; processes
killed with the alarm wire on.

## Modules

| Module | Models | Lines |
|---|---|---|
| `RingQueue` | `TRWRingQueue<T>` | `include/itc.h` |
| `LossyFifo` | what the queue promises: one FIFO per reader that loses only its oldest element | abstract |
| `SlotRing` | `dstData` and `MiddleData`, their writer and their reader | `pd/pd.cpp` 1031-1044, 1811-1910, 2425-2451, 6766-6884 |
| `FrameGate` | resolution, I-frame gate, choice of decoder | `pd/pd.cpp` 1787-2016, 2221-2456 |
| `AlarmOut` | the alarm wire and its flags | `pd/pd.cpp` 354-355, 2459-2617, 3386-3430, 8490-8536, `check.sh` |
| `CalcLock` | `g_Mutex` and the media semaphores | `alg.cpp` 75-124, loops of dmm, adas, apc, track, zoom, pd |
| `DmmRun` | `enRunStat`, `enRunResult` and the requests | `dmm/dmm.cpp` 1258-3331, 3568-3850, `alg.cpp` 229-538 |
| `Capture` | the V4L2 buffers between driver, capture thread and FrameSave | `pd/pd.cpp` 376-391, 1042, 1546-1629, 1713-1824 |
| `Restart` | start, watchdog, model switch over the UART, kills | `pd/pd.cpp` 1811-2516, 3094-3276, 6761-6781, 7860-8064, `check.sh` |
| `PdAlarm` | from the level of a frame to a sound | `pd/pd.cpp` 2652-2746, 3679-3714, 7359-7441, 8419-8500 |
| `UserStore` | the directories of the users | `dmm/dmm.cpp` 3779-4045, `alg.cpp` 350-446 |
| `MCUserStore`, `MCPdAlarm` | symmetry for TLC | |
| `*Proofs` | theorems about the module they extend; `PdAlarmProofs` also about `CalcLock`, `UserStoreProofs` also about `DmmRun`, by `INSTANCE` | |

### RingQueue and LossyFifo

`queue` is `queue_` (front first), `rpos` is `rpos_`, `count` is `count_`. Every operation holds
`lock_`, so it is one step, except that `Read` gives the lock up while it waits: the reader's `pc`
goes from `test` to `wait` and back, or to `expired` when `wait_for` has timed out and the lock has
still to be taken again. The code then returns the timeout although a `Write` may have come in
between. Elements are numbered in the order of the `Write`s. `count_ = 0`, the default argument of the
constructor, is excluded by an assumption: no queue of the program has it.
`LossyFifo` keeps one sequence per reader; the refinement mapping reads the deque from the reader's
position to the front.

### SlotRing

The writer copies into slot `counter % Slots` without a lock and writes the index to a queue of
`Slots - 1` entries; the reader takes an index and uses the slot, in two reads (metadata, image),
without a lock. A slot holds the number of the frame it was filled with, `Torn` during a copy, or
`Stale` after a frame that FrameSave copied and dropped. The queue is used in the form that
`RingQueue` is proved to have. `FramesInOrder` says what ring and queue are together: read through the unread
indices (`UnreadFrames`), the slots are a `LossyFifo` with one reader whose elements are the frames themselves.

### FrameGate

One step per frame for FrameSave, because only FrameSave writes what it reads there; Vdec is four
steps, because it reads `H264_RESOL` twice while FrameSave may change it. The board is external: it
shows the split view (all channels, 480p) or one channel (720p), and marks every frame. `keys` counts
the I frames that arrived in the present view; it is what the property speaks of, and the code does
not have it. The board may change from any view to any other. `direct` is history: the present view is a single
view that was entered from another one, the only change that no gate is closed for; each forwarded frame carries it.

### AlarmOut

A step is one access to a shared variable. The Makefile gives no optimisation level of its own, so the
three uses of the unprotected `alarm_out_flag` in the monitor may or may not share a register:
`Decrement` and `Check` choose between the register and a new load. `alarm_out_flag` is a number modulo
`FlagMod` (256 in the code) and `cnt` one modulo `CntMod` (65536). `Init` leaves the wire at any level: that is
what a process finds that is started again after a kill. Every call of `BOARD_SetAlarmOut` may fail: the
wire stays as it is and the code goes on as if it had not, since it only prints the result. The level
is computed from `enAlgTrigger` in one step and written in a later one, and `PD_ConfigSet` may change the trigger in between.
`last` records of the last call that it was `good`, has `failed`, or was `late`: made with the level of a trigger that
had been replaced. Nothing repeats such a call, so the properties speak of an output whose last call was good. The shelter output is not in the model: it is the program with `bshelterEnable` off.

### CalcLock

One round of each thread is lock, `MS_P`, compute, `MS_V`, unlock. `Leaky` threads (dmm: registration,
recognition, change of driver) keep the lock when `MS_P` fails. `Quitters` (apc, track) may return in
the middle. `Pd` is the pedestrian thread, which does not lock (the call at `pd.cpp:6701` is compiled
out) and does unlock. No board runs all threads at once (`alg.cpp` 1452-1526); the runs have one thread of
each kind: leaky, plain, returning, and pd. `g_Mutex` has the default type, for which glibc lets any thread unlock.
With pd several threads compute at a time (`OneAlgorithm` does not hold, see below); the run asks what else
the broken lock does harm to: not to the pictures, which have semaphores of their own (`PictureKept`).

### DmmRun

The algorithm thread enters the body that `enRunStat` names and looks at `enRunStat` at the start of
every round. A pair of writes under `mutexRunStat` is two steps, since no reader takes the mutex;
taking the mutex is one step with the first write. Time is not counted: a body may run into its limit
in any round, a caller out of polls at any poll. A worker is a thread made for one request
(`Msg_registerOpCallback_ThreadExec`); calibration runs on the receiving thread. Bodies also return at once
on a null argument or when `mmap` fails (`dmm.cpp` 1285, 1468, 1722, 1871, 3112): before any effect, with the status as it
is, so that the thread enters the same body again after its pause. In the model that is no step at all, and the fairness of the
algorithm thread (`BodyStep`) assumes that it does not go on for ever. `foreign` is history: the workers for
whom, since they set `enRunResult` to running, a body that is not the registration of their user has written it.

### UserStore

A user is a directory with a file `username`; there is no lock and no other record. A request lists the
directories once, in one step (`scandir` is taken as one instant), and acts on what it saw; each change of
the file system is a step of its own, since each is a command of the shell that can fail and after which
the process can be killed. `dir` says of each directory that it is absent, `bare` (no `username`), has
an `empty` one, or which name is in it. `Key` is the order of `alphasort` with the `user%02d` directories
of an earlier version among the `user%03d` ones; `Position` and `FreeAt` are the search for a free number,
which compares the i-th listed directory with number i. An empty `username` file is listed under the
name of the directory before it, or, when it is the first, under whatever the stack held (`residue`);
Nothing keeps requests for the same name apart (one thread is made per AddUser, `alg.cpp:1392`), and the model does not either.
`astray` is history: a request under way has listed while another one for the same name was under way, or has used a name from the
stack; it is reset when all requests that overlap with it are over. Such a request may remove or rename a directory that is no longer the one
it listed, and that is what `Durable` excepts. That the list is one instant remains an assumption: `DMM_GetUserList` opens the files one
by one (`dmm.cpp` 4012-4045), and a list taken while others change them may mix two instants. Faces are in `DmmRun`.

What the model shows besides its properties: a kill, or a failing `echo`, between `mkdir` and `username`
leaves a bare directory that is never listed and whose number is taken for free from then on, so that
every later registration that gets to it fails; a rename does not look whether the new name exists.

### Capture

The driver (external) fills the buffers it holds in order. The capture thread takes a filled one
out, announces its index and gives it back before FrameSave has copied it. The queue is one shorter than
the ring of buffers, as in `SlotRing`, but the writer is the driver, which is ahead of the announcements
by every frame that has not been taken out yet. `Init` gives the driver any set of buffers: the result of
`QBUF` is kept in a `uint32` and compared with `< 0`, so a failing one goes unnoticed. The copy is two steps.

### Restart

Time is counted in rounds of the monitor (200 ms and a shell command). `due` makes every stage of the
pipeline that has work do a piece of it in a round; of the frames only the lengths of the queues are
left, and a stage may always drop its frame. A process that dies loses everything but `config`, the saved model, and
`params`, the parameter file, which is torn while it is written. `failed` records that `pthread_create`
for the restart failed. `Limit` is 100, `ReadRounds` stands for the 500 s of `Read`; that it is larger than `LoadRounds`,
`Limit` and both queues together is an assumption that the code's numbers (2500 rounds at most; 100, 100, 39, 11) meet
as long as a round takes less than about 2 s. The rounds of loading come on top: the video threads wait from
the start, and the first frame that `pd_alg_Body` takes sets the watchdog back but not their waits. Without them
the assumption was too weak; the attempt to prove `NoTimeoutIndex` showed it, and TLC then found a behaviour with `Limit` 3,
`LoadRounds` 2, queues of 1 and 2 and `ReadRounds` 7. `LoadRounds <= Limit` says that loading the models takes less than the watchdog's limit.

What the model shows besides its properties: comments at the watchdog speak of 60 s and of 6 s, the constant of 100 gives 20 s and
more; a parameter file torn by a kill while flow mode is configured makes `PD_Init` fail at every start,
and the thread that could switch the model back is started after it (`BootLoop`).

### PdAlarm

`Frame` is the evaluation of a frame by the algorithm thread: worst level, suppression, and the interval
timers. `pd_Alarm_Post` writes the static notice field by field and adds a job; the jobs copy it field by
field and share `bPlay` and `mode`. Each access is a step: the test at `pd.cpp:2678` reads `bPlay` (`ReadBusy`) and then
`mode` (`Drop`, `Accept`). `reason` is history: the jobs between these two reads that have, at some instant, had a sound
at least as bad beside them, or a job between its own two stores. `s32CurChn` is always 0 in this code, so there is one timer per
level; the channel of the notice is the source of the frame. `expect` is the notice a job was added for,
until it is overwritten, which the code does not prevent. `AddToNoPool`: the algorithm thread is
started before the pool is made. The timers never count down: the lines that do are inside an `#if 0`
that reaches further than its indentation suggests. `pd_Audio_Shelter_Play` has statics of its own with the same
order of accesses.

## Runs

| Run | Instance | Shows |
|---|---|---|
| `ring_queue` | 2 readers, one timed, `count` 2, 5 writes, 2 spurious wake-ups | positions stay inside the deque; no lost wake-up; a timed read returns; refinement of `LossyFifo` |
| `slot_ring` | 3 slots, 9 frames, rejected frames | the frames behind the announced indices are a `LossyFifo`; a reader that is not lapped sees one frame |
| `capture` | 3 buffers, any of them given, 8 frames | with all buffers and nothing left to take out, announced buffers are intact; a copy is of one frame unless the driver has come round |
| `frame_gate` | 2 channels, queue of 2, any change of views, kills | only whole frames, and only after the second I frame unless a single view follows another one; mismatches end; the gate opens |
| `alarm_out` | hold 2, off after 2, wrap at 4, updates to either trigger, FTC probe, failing calls, kills | an output that is on, or locked, has a countdown, and goes off, unless the last call failed or wrote the level of a replaced trigger |
| `restart` | limit 2, load 2, queues of 1 and 2, reads of 8 rounds, 2 faults | no read times out; a model that is configured and does not run has a restart under way, and comes to run; the process comes up; a hanging detector ends |
| `calc_lock` | dmm (leaky), adas, apc (may return), and pd, which unlocks | whoever computes beside whom, each keeps its picture; the lock is released unless somebody left with it; the pictures go back to `ipsys` |
| `dmm_run` | one worker, 2 calibration messages, 1 poll, login at boot, change of driver | detection comes back; every request is answered; "added" means a face unless another body wrote the result; the pairs of writes under the mutex stay together |
| `dmm_run_add` | one worker, detection at boot | **violation**: "added" without a face (`include/dmm.h:129-133`) |
| `user_store` | 3 names, 2 adding threads and the receiver, 2 numbers, one old directory, requests for the same name, kills and failures | the free number is no user's; a user is changed only by a request that names it, while no requests for one name overlap |
| `pd_alarm` | 2 levels, 2 channels, 2 jobs, one waiting, intervals 0 and positive | the player is not left busy; a sound is dropped for one as bad that was there between the two reads of the test; a notice is played as posted unless overwritten |
| `pd_alarm_interval` | 1 channel, 1 job | **violation**: a level with an interval is posted once (`pd.cpp:6388`) |

Bounds. Two readers and a capacity of two already give every relation of two positions (equal, apart,
empty, full, evicted past); five writes wrap the queue twice. Three slots or buffers are the least with one
that is neither written nor the oldest announced; nine frames go round three times, eight nearly so. In `AlarmOut` a
modulus of 4 above a hold time of 2 keeps the wrapped value apart from every value the code stores.
Two channels suffice since FrameSave treats channels alike; a queue of two holds frames of both
resolutions. In `DmmRun` two calibration messages are what it takes to start and stop one, and one
worker and the receiving thread to have two requests overwrite each other, with the detection's own
changes of status as a third. In `UserStore` two adding threads can choose one number, three names leave one
that no request is about, and two numbers with a radix of 1 let the old directory sort between the new ones and shift
their positions. In `Restart` two faults allow a kill during the recovery from another. Two jobs in `PdAlarm`
overlap in every order, and a third notice can wait and be overwritten. What the theorems below cover
holds for all values.

Fairness. `RingQueue`: a thread inside `Read` runs on. `AlarmOut`: started threads run on and
`check.sh` restarts the process; nothing makes frames or configuration updates arrive. `FrameGate`:
the board keeps sending frames of the channels it shows and answers a request for an I frame;
it never has to send one unasked. `CalcLock`: the holder of the lock runs on, `ipsys` gives a
semaphore back, and a semaphore that becomes free again and again is given to the one who waits;
taking `g_Mutex` itself is not assumed to be fair. `DmmRun`: threads run on, `mutexRunStat` is given to
whoever waits in the end, and the clock gets past a body's limit. `Restart`: `check.sh`, the threads and
the monitor run on, and a lost camera comes back; neither the camera nor the board has to send
anything. `PdAlarm` (for `pd_alarm_interval`): frames arrive and threads run on; `UserStore` and `Capture`
have safety properties only. `dmm_run`, `dmm_run_add`, `slot_ring` and `capture` do not check for deadlock:
there the number of messages or frames is bounded, the capture thread may have returned, and the algorithm
thread of `DmmRun` may really wait for itself for ever.

## Proofs

Every invariant and every action property of the passing runs is proved for all values of the constants,
from the named `ASSUME`s of the modules and nothing else unless it is said here. `CalcLock` and `DmmRun` are
instantiated under the names `Lock` and `Run` in the proofs of a neighbouring module; there the `ASSUME` is a
hypothesis of each theorem. Each inductive invariant
was first checked by TLC on the run's instance. Almost none of the properties is inductive by itself;
what had to be added says why the code works.

`RingQueueProofs`. The invariant `IInv` is the types, `rpos[r] < Len(queue)`, `Consecutive` and, for
sleepers, `RdEmpty`. The position conjunct alone is not inductive: a `Write` on a full queue needs that no
position is above `count - 1`, which is in the types. Theorems: `TypeCorrect`, `PositionSafe`,
`ConsecutiveSafe`, `WakeupSafe`. `Refinement` proves `Spec => ImplementsLossyFifo`: initial states agree, and
each step is a `LossyFifo` step or leaves the readers' sequences alone; the lemmas say what `Take` and
`Write` do to the sequence read from the deque.

`SlotRingProofs`. The invariant relates every unread index to the frame number it stands for
(`counter - Len(unread) + k`) and the reader's data to the frame it took, unless it has been lapped.
The core is a fact about `%`: frames less than `Slots` apart have different slots (`IndexDiffers`).
Theorems: `TypeCorrect`, `AnnouncedFramesSafe`, `OneFrameSafe`, for every ring of at least two slots. `Refinement` proves
`Spec => FramesInOrder`. By the invariant the frames behind the unread indices are the last `Len(unread)` numbers up to
`counter` (`FramesAreLatest`), so `Publish` is a `Write` (with or without a loss) and `Take` a `Read` of the abstract
queue; every other step of either thread, a copy into a slot among them, leaves these frames alone (`OtherIsStutter`).

`FrameGateProofs`. `WholeFrameSafe` holds for every board: it follows from the types and the
step of FrameSave, because a frame that differs from `H264_RESOL` is dropped in the step that follows it.
`SecondIFrameSafe` needs `Counts`: unless the view is `direct`, the gate of a channel shown has not
counted an I frame that did not arrive in this view, and a view seen with another resolution finds
all counters at 0. In a `direct` view the first part is false (see below), which is why the property has its exception;
the theorem says that every other order of views, with kills in between, is covered by the two ways the code closes gates. `TypeCorrect` is the types.

`AlarmOutProofs`, for any hold time, moduli and updates. The invariant of `CountdownSafe` says, for every position of the
three threads, who is still going to switch the output off or to arm the countdown, and it weakens each such
promise by `last`; that is what `OffAlwaysPending`, which speaks of quiet states only, needs to be
inductive. A change of the trigger can turn the output on with no thread near the wire. It is harmless because `PD_ConfigSet` goes on
to a Reset: `Updating` says that while the main thread is on its way there nothing has to be promised, and the
Reset that follows works or fails. It is never late itself, since it is the main thread that changes the trigger (`Arguments`).
`TypeCorrect` as well.

`CaptureProofs`, for at least two buffers. The buffers take turns: read in the order queued, in hand, filled, each
stands in the list once (`Turn`), and until its turn comes it holds the frame of its last turn (`Ring`). A frame
that has been completed is rotated to the end (`EndFillTurns`). An announced or copied buffer is the one whose
turn its frame was (`UnreadKnown`, `SourceKnown`), so `BufferHolds` gives its content. Neither property is
inductive: both need to know what is in the buffers nobody has announced yet. `AnnouncedIntactSafe`
has the hypotheses of the property (all buffers given, none waiting to be taken out), `CopyOfOneFrameSafe` holds for any
set of buffers given. `TypeCorrect` as well.

`RestartProofs`. `RestartPendingSafe` needs what is true inside `uart_receive`, between saving a model and
scheduling the restart (`RestartOwned`). `NoTimeoutIndexSafe` needs a measure: `Ahead` bounds a wait by the watchdog's
count plus loading plus both queues, and `SaveDrains` and `VdecDrains` say that every round a stage waits
while the stages behind it still have indices has taken one of these out, with a stage that is still due in
this round counted as one. `Loading` is the case before the first frame.

`PdAlarmProofs`, on `PdAlarm`, for any numbers of levels, channels and pool threads. `PlayerFreedSafe`: `bPlay` set means that some
job has yet to write `mode`, or that one with the level `mode` is about to clear it (`PlayerOwned`); "somebody is
sounding" alone is not inductive, since a job that finds another level in `mode` leaves `bPlay` set.
`DroppedForReasonSafe` is an action property: by `PlayerOwned` a job that reads `bPlay` as set has a sound beside it, and
`ReasonKnown` says of a job between the two reads that it has had a reason, or else that `mode` is below its level, so that it will
not drop. `OwnNoticeSafe` needs
`Written` (what `pd_Alarm_Post` has stored so far) and `NoticeStands` (a job that waits or copies and is not
marked as overwritten was added for the notice as it stands).

`PdAlarmProofs`, on `CalcLock`. `LockTypeCorrect`, with or without pd. `Exclusion`: without pd, at most one thread
is between lock and unlock, and then `g_Mutex` is held (`LockHolder`). The theorem covers leaks and returns: both
leave the lock held for ever. `PictureSafe`: with or without pd, a thread that computes has the semaphore of its picture. It is
inductive with the types: only the thread itself and `ipsys` touch its semaphore, and `ipsys` takes a free one only.

`UserStoreProofs`, on `UserStore`, for any names, numbers and adding threads. `Owned` is the heart: a directory
that a request has made or has found in its list belongs to that request alone and holds one of its names or none. It
is what stands in for a lock. It holds together with `Apart`, that requests under way concern different names, as long as nothing has
gone astray, and `ConcernsAlone` says how both come back: `astray` is reset by a request that starts when no other is under way.
With what each request is going to write (`Writes`) it gives `DurableSafe`, an action property. `FreeNumberSafe` is about the search: when only
`user%03d` directories are listed, their order is that of the numbers (`KeyInjective`), so the first place
where position and number differ (`PickFree`) is a gap; that positions below it count the numbers
below it is a bijection argument on cardinalities (`PickIsFree`).

`UserStoreProofs`, on `DmmRun`, for any number of workers. `RunTypeCorrect`: the types, with the fact that whoever is past its
first step has a request (`RunRequested`). `RunOwnSuccess` proves `OwnSuccessStored`: a user reported as added has a face
unless the worker is in `foreign`. What a worker answers it has read some steps before from a result that was written before that,
so `RunOwn` follows a success through polling and answering, and `RunStored` says that the
register body has stored the face when it is about to report and that the directory is there until the answer.
`RunPairsKept` proves the action property `PairsKept` from `RunOwner`: whoever stands between two writes holds
`mutexRunStat`, and there is one such thread. The writes that the bodies make without the mutex are the
exceptions that the property names; one of them is behind the violation of `dmm_run_add`.

Some invariants are proved and not part of a run: `Consecutive` and `UnreadIntact`, which the two refinements
contain as far as a reader of the queue can see, `OneAlgorithm` without pd (`Exclusion`), and the types of `DmmRun`.

Only model-checked: everything that is eventually to happen (`TimedReadReturns`, `OutputEnds`,
`MismatchEnds`, `GateOpens`, `LockReleased`, `MediaReleased`, `DetectionReturns`, `RequestAnswered`,
`ConfiguredModelRuns`, `ComesUp`, `HangEnds`), since liveness under fairness is beyond the prover; and the two
violations, which are counterexamples.

## What the violations mean

They are disagreements between a comment and what the code does, found with the values the modules
allow. `dmm_run_add` answers a request with another one's result. `pd_alarm_interval` has a level with a
positive interval posted once in the life of the process, and the levels below it suppressed ever
after: the countdown at `pd.cpp:6684-6697` lies inside the `#if 0` that begins at 6635.

Five more are reproduced by a change of a constant or by one more invariant:

- `AlarmOut` with the invariant `Quiet /\ lock = 1 => On`: false after `PD_ConfigSet`
  (`pd.cpp:8534`), against the comment at 355, and with `Updates = {}` by the monitor's Reset and the algorithm
  thread's Enable alone. It costs an alarm its output until the lock is cleared (at most the countdown after
  the last red frame).
- `AlarmOut` with the invariant `Quiet /\ On /\ last # "failed" => flag > 0`: violated (`pd.cpp:2584`,
  against 354). It needs the trigger to change while a thread is between computing the level and writing it, and leaves the output on
  until the next alarm ends.
- `FrameGate` with the invariant `\A f \in ToSet(queue) : f.keys = 2`, which is `SecondIFrame` without its exception: violated by a
  board that goes from one single view to another (`pd.cpp:1845`, against the comment at 1888). The change to 720p closed the gate of
  one channel; that of the other is still open from the split view, and its frames go to a decoder whose reference pictures are old.
- `CalcLock` with pd and the invariant `OneAlgorithm`: violated (`pd.cpp:6883`, against `alg.cpp:75`). It is the
  normal case on a board that runs pd with another algorithm.
- `UserStore` with `Durable` without `~astray`: violated, by a name from the stack (`dmm.cpp:4029`) and, without any, by requests for one
  name: AddUser withdraws a user (`alg.cpp:383`) and has listed it, a rename of the same user gets in between, and the
  directory that `rm` then empties is that of the renamed one. No comment promises otherwise.

## Plan

Done: all modules of the table above, and a theorem for every invariant and every action property of the passing
runs. What is left:

1. Models that have not been begun: the shelter output together with `AlarmOut`, the sounds of dmm and
   apc, and the upgrade.
2. `OwnSuccessStored` for a login: which driver a successful `callbackLogin` stands for would need the recognised user in
   the state of `DmmRun`.

## Not modelled

- The shelter output `pd_Alarm_Out` (`pd.cpp` 3433-3581). Its loop ends only when a later event finds
  the shelter alarm switched off and sets `st_bStop`; until then it keeps a thread of the pool. A model
  would have little to check beyond that.
- The driver alarms (`dmm.cpp` 2086-3082): one thread, counters over the results of closed libraries. Only the
  run status interleaves with it, and that is in `DmmRun`.
- `dmm_Alarm_PlayAudio` (`dmm.cpp` 406-524) and the sound and alarm threads of `apc.cpp` (322-640);
  `pd_avAlarmer_Play`, which nobody calls.
- The upgrade (`upgrade/upgrade.cpp`), a program with four threads: one copies blocks into a ring of 12
  slots and queues their indices, one writes the blocks to the file, one closes the file when no block
  has come for 150 ms, one polls a status and runs the update. What a model would look at:
  `file_count` is incremented by one thread and set by another without a lock; the file is closed on a
  pause, however many bytes are missing and whatever is still queued; a full queue drops a block; the
  writer's `transfer` may overwrite `filecompleted`. Nothing checks that the file is complete before the update begins
  other than `tar` itself.
- Area information over the UART and the regions (`pd.cpp` 3191-3225 and the geometry of `pd_alg_Body`):
  floating point over points that one thread writes field by field while another reads them (3212). The loop over
  the detections stops after 20 rectangles (7149).
- Bytes of the UART and JSON (data), drawing, logging, GPS, LED and events (plain calls).
- The detectors, rkmedia and cJSON (closed, vendored or generated). bsd and DynamicTrace, and the copies in
  `pd/pd_bak` and like directories, which the build of the mapped boards does not start. These copies and the vendored
  headers and sources are by far the largest part of the repository's lines; a model of them would be one of
  older versions of the same code.
