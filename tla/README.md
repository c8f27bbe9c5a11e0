# AT6010 SDK: specifications, model checks and proofs

`src/at6010sdk` is the firmware of a radar sensor: a 32-bit microcontroller that samples a
radar front end, detects motion and presence, switches a light and talks to a host over a
serial command interface. It is built with FreeRTOS (`CFG_OS`) or without an RTOS, on a
cooperative loop. The detection itself is a closed library; what is open, and specified here, is
everything around it: messages, timers, the kernel's scheduling, the command receiver, the
download, the settings in flash and of the detection, and the light.

All line numbers in this file are lines of files under `src/at6010sdk`. `PROJECT.json` lists
for every definition the lines it stands for (`map`), every run, the hazards of the code and
the results.

- [1. The system](#1-the-system)
- [2. The modules](#2-the-modules)
- [3. The runs](#3-the-runs)
- [4. What is proved](#4-what-is-proved)
- [5. Disagreements between the code and its texts](#5-disagreements-between-the-code-and-its-texts)
- [6. What is not modelled](#6-what-is-not-modelled)
- [7. What could follow](#7-what-could-follow)

## 1. The system

Contexts of execution. Interrupt handlers (1 ms tick, UART/I2C receive, radar DMA) run to
completion and may fall between any two instructions outside a critical section. With FreeRTOS
there are the tasks APP, SYS, RAD (higher priority), the light task, the default task (which
runs `k_msg_loop` and the periodic schedule) and the timer task of the kernel (highest). Without
an RTOS there is one main context: `k_msg_loop` and `task_schedule_proc` in a loop.

| component | state | operations | interacts with |
| --- | --- | --- | --- |
| message queues, `kernel/senos/core/k_msg.c` | one list of message objects per id, a handler per id; the loop's `msg_id`, `msg` | `k_msg_post`, `k_msg_reg_hdl`, `k_msg_loop` | everything posts; handlers are callbacks |
| message pool, `kernel/baremetal/osal_task.c` | `g_msg_pool`: used flag and a copy of the message per slot | `osal_task_send_msg`, `osal_task_invalid_msg` | posts slots to k_msg; the loop calls `invalid` after each handler |
| soft timers, `platform/system/time/sys_timer.c`, `kernel/baremetal/osal_timer.c` | per timer: list, state, mode, ticks left, interval | create, start, stop, delete, change mode and period; tick interrupt; expiry message | post themselves to k_msg; callbacks run in the loop |
| command receiver, `utils/ci/src/ci_port.c`, `ci_main.c` | `m_ci_ctxt`: receiver state, index, length, ready flag, one buffer | receive and idle interrupt, timeout callback, frame parser, reset | osal timer, osal/k_msg message to SYS, FIFO of the download |
| ring buffer, `utils/fifo/fifo.c` | memory, read and write index, count | enqueue, enqueue 16-bit batch, dequeue, used, clear, init | download bytes (CI), radar samples |
| Ymodem, `utils/ymodem/ymodem.c` | packet number, errors, session and file flags, flash address; the sender's block and error counters | `Ymodem_Receive`, `Ymodem_Transmit` | flash, byte stream |
| radar manager, `framework/radar/src/radar_mgr.c`, `radar_task.c`, `framework/mdetmgr/src/mdet_mgr.c` | cached settings, one mutex; queues of RAD and APP | setters, RAD's message handler, results to APP | tasks APP and SYS, the detection |
| light control, `apps/common/src/light_ctrl.c` | light state, event group, one-shot/periodic timer with a callback that changes | on, off, blink; three expiries; the light task | timer task, detection on/off |
| kernel, `kernel/freertos/tasks.c`, `queue.c`, `list.c` under `kernel/osal/freertos` | ready, delayed, pending and event lists, bitmap of priorities, tick count, mutex holders, notifications | send, receive, take, give, delay, notify, create, delete; tick, PendSV, calls from interrupts | every task and interrupt |
| download command, `utils/ci/src/ci_dld.c` | `m_ymodem_run`, the task's handle and notification | start command; the download task; the diversion of received bytes | SYS task, receive interrupt, FIFO, Ymodem |
| settings in flash, `apps/common/src/user_setting.c`, `ci_cmd.c` | a table of named items in RAM and in a sector, the configuration, what the modules work with | load at start, set, save, read back, clear | APP task at start, SYS task, flash |
| calibration in flash, `apps/common/src/sys_data.c`, `ci_eol.c` | one item and its check code | get, set | production test, flash |
| heaps, periodic schedule, low power, inputs, drivers | see section 6 | | |

What is hard in it, and what would make each part correct:

- **Queues and loop.** Interrupts post between the emptiness test, the pop and the handler call
  of `k_msg_loop` (173-199). Lists are intrusive: linking an object twice destroys two lists.
  Correct: no list corruption, no handler run on a message not taken out, every post handled
  once, nothing starves unless a drain never ends.
- **Pool.** A slot is searched, taken and filled outside any critical section, freed after its
  handler. Correct: what was accepted is handled, once, in order, unchanged; slots come back.
- **Timers.** `start_timer` writes before its critical section, expiry is handled some time
  after it was posted, a stale message of a stopped timer stays queued. Correct: a timer rings
  exactly when it should, and never after it was stopped.
- **Command receiver.** An interrupt writes the buffer main code reads, `ci_port_reset` is
  three unprotected stores, timer commands and messages may be refused. Correct: the receiver
  never writes past the buffer, never stays deaf, never stays inside a frame.
- **Download.** Lost and damaged packets, late answers, 8-bit packet numbers, a flash error in
  the middle. Correct: success reported means the file is there, in order, in its partition,
  and both ends come to an end.
- **Kernel.** An interrupt falls between the look at a full queue and the task's place in the
  event list; a wait is resumed across the wrap of the tick count; a waiter that times out had
  lent its priority. Correct: the ready task of the highest priority runs, no wake-up is lost,
  waits last as long as asked, priorities are lent and given back.
- **Download start.** The FIFO is emptied store by store while a task and an interrupt use it;
  a second start may come while the first is served. Correct: a download reads its own bytes,
  and the command interface gets its bytes back.
- **Settings.** One copy in flash, erased and then programmed piece by piece, with a reset or
  an error anywhere; commands run while the settings are still being loaded. Correct: a
  completed save is what the next start uses, no start mixes two saves, no calibration is used
  that was not written.
- **Radar manager.** Setters in two tasks keep a cache that must agree with what is sent, and
  RAD and APP each wait for room in the other's queue. Correct: the cache is true, the setters
  return.
- **Light.** One timer serves three periods; its expiry may be under way while it is restarted
  for another. Correct: no order leaves the light on or the detection paused for good.

## 2. The modules

```
Mailbox  <--implements--  KMsg  <--extends--  MsgPool
                            ^
                            +----extends----  SysTimer  --implements-->  AlarmClock
BoundedQueue <--implements--  Download  --extends-->  Fifo
FlashStore   --extends-->  UserSetting, SysData
Detection    --extends-->  RadarMgr, LightCtrl
CiPort      Ymodem      Kernel
X_proofs extends X:  MsgPool (with the theorems of KMsg), SysTimer, CiPort, Download,
                     Ymodem, FlashStore, Kernel
Detection_proofs     extends RadarMgr and LightCtrl, the modules around the detection
MC_X     extends X and gives its constants values
```

A critical section is one step. Elsewhere the points at which another context can change
something the code looks at are separate steps. Definitions named after a function model it;
definitions `X_Y` preceded by "Mutant" are the function `X` with the plausible defect `Y`, used
to show that a property depends on the code.

**KMsg** (`k_msg.c`). `queue[id]` is the list of an id, `hdl[id]` whether it has a handler,
`pc`, `msgid`, `msg` the loop. `LoopEnter`, `LoopPop`, `LoopDispatch`, `HandlerReturn`,
`LoopTest` are the steps of `k_msg_loop`. `msg` is cleared once per id and not once per turn,
as in the code: `NoStaleMessage` is why this is harmless. Clients are abstracted to the way the
repository posts: each embedded message object has one id (`Home`). **Mailbox** is what the
module promises: a set of pending messages, one taken at a time.

**MsgPool** composes KMsg with `osal_task_send_msg` (four steps `SendScan`, `SendTake`,
`SendCopy`, `SendPost` in main code; one step `IsrSend` in an interrupt, which may come between
any two steps of main) and `osal_task_invalid_msg` (`Return`). `accepted`, `served` and `hit` are
history variables; `hit` says that an interrupt has sent between main's test of a slot and its mark.

**SysTimer** composes KMsg with the timers: the message object of a timer is the timer.
`sys_timer_period` is the tick, `start_timer` is two steps (`StartCommit` is its critical
section) with ticks in between, `OnExpired`, `OneShotStops`, `Return` the steps of
`process_timer_expired_msg`. **AlarmClock** is what a timer promises, without lists, messages
or a loop; the ticks left of a running timer, 0 for an expired one and -1 for a stopped one are
its refinement mapping.

**CiPort**. `ctx` is `m_ci_ctxt` with, of the bytes, only the head and the length byte.
`RxHead` ... `RxCheckCode` are the cases of the receiver's switch, `Receive` the interrupt
handler with everything it calls, `RxIdleIntr` and `RxIdleEmpty` the idle interrupt with bytes
left and without, `Expire`, `TimeoutMsg`,
`TimeoutStop`, `TimeoutReset` the timeout in both builds, `TakeFrame`, `Parse`, `RunCmd`,
`FrameReset` the handler. `ResetStore` is one store of `ci_port_reset`.

**Fifo** is `fifo.c`, its indices modulo `IndexMod`; **BoundedQueue** is the queue it
implements. **Download** composes it with `ci_dld_start` in the SYS task (`TakeStart`,
`InitStores` -- one step for each store of `fifo_init` --, `TestRun`, `CreateTask`, `Notify`),
the download task (`TakeNotify`, `ReadByte`, `Ymodem_Receive_Returns`, `ClearRun`) and the
receive interrupt (`RxByte`). `run` is `m_ymodem_run`. What `Ymodem_Receive` makes of its bytes
is Ymodem's matter. `conf.use = "samples"` is the ring buffer alone, called in any order.

**Kernel**. `k` holds what `tasks.c` keeps, and each of its functions is an operator on it;
`loc[t]` is where a task is in its call. A critical section is one step, and an interrupt or
PendSV may come between any two. A blocking call is `TrySend` (or another first look),
`vTaskSuspendAll`, `LockAndCheck`, `Place`, `UnlockTx`, `UnlockRx`, `Resume`, and round again.
`vTaskDelay` of no ticks only yields. A configuration (`conf`) says which calls each task and
interrupt makes, in any order. `due` (of `loc[t]`) is no variable of the code: the time by which
the call that is under way should end, for `NeverLate` and `NeverEarly`.

**UserSetting**. `load` is the table in RAM, `flash` the sector, `cfg` is `m_setting_cfg`,
`applied` what the modules work with. `user_setting_init`, `LoadCheck`, `ci_setting_get`,
`Apply` are the load at start (which takes the light's time for 1 if it is 0, `AsLoaded`); `SetApply`, `SetConfig`, `ci_cfg_save_set`, `StoreErase`,
`StoreWrite`, `StoreFails`, `ClearRam`, `ClearFlash`, `user_setting_erase` the commands, which
may run while the load is under way. `StoreWrite` programs one piece (valid flag, name or value of
a slot); bits go from 1 to 0 only. **SysData** is the calibration item: `byte_diff_check`
decides whether to erase, then value and code are programmed bit by bit. `Reset` and
`SysReset` may come at every step. **FlashStore** composes the two: they share the reset and
the SYS task, but no sector.

**Ymodem** is both ends at packet level. `RxStep` is one `ReceivePacket` with the switch that
follows, `TxSend`, `TxReply`, `TxCancel`, `TxTimeout` the sender's loops. Both run the code of
this repository; `Ymodem_Transmit` is called by nothing in it and stands for the host.

**RadarMgr**. `radar_mgr_mdet_user_cfg_set`, `radar_mgr_mdet_para_set` compare the cache,
`Lock` takes the mutex and changes it (`Change`), `Send` sends one message, `Unlock`; `RadTake`,
`RadSend` are RAD, `AppTake` is APP. `Expire`, `RadExpire`: a wait of "for ever" ends after
71 minutes (`OSAL_MS2TICK(0xFFFFFFFF)` overflows, `osal_common.h:91`), which can only happen
where all that are waited for wait themselves. After it a task may go on without the mutex;
releasing another's ends in `configASSERT` (`mode = "halted"`).

**LightCtrl**. `group` is the event group, `events` what the light task has taken, `rest` the
handler it is in the middle of. A handler is split where it has changed the callback of the
timer and not yet its period. `Pass` ends a period: only when the light task has had nothing to
do, because periods are seconds and handlers microseconds. **Detection** puts RadarMgr and LightCtrl
side by side: what surrounds the detection. They share no state, so a behaviour is one of them.

## 3. The runs

Every run covers all the interleavings of its instance. Actions of the passing runs are all
taken.

| run | instance | what it shows |
| --- | --- | --- |
| `kmsg` | 4 messages of 3 ids, 5 ids, 2 of them below the loop's first | lists stay intact, no stale handling, refinement of Mailbox with liveness, nothing starves |
| `pool` | 2 modules, 2 slots, 4 sends of main and interrupt, the CI message | what was accepted is queued, in hand or served, in order and unchanged, until an interrupt takes the slot main has found |
| `pool_race` | the same, 2 sends | violated: a slot is reused before `osal_task_invalid_msg` has freed it |
| `timer` | 2 timers, delays 2 and 3, one of the timers owned by an interrupt, a tick in each `start_timer` | the timers implement AlarmClock, with its liveness |
| `ci` | buffer of 7 bytes, 4 byte values, SYS queue of 2; 5 configurations | no overrun, frames watched, ready receivers owned, frames well formed and stable, the receiver listens and resynchronises |
| `fifo` | 3 items of 2 values, batches to 4, indices that wrap after 6; the ring alone, and the download with a host that retries and one that does not | a bounded queue, exactly; a download reads its own bytes; it gives the bytes back |
| `ymodem` | 5 configurations, see below | written in order, delivered if success is reported, ends, succeeds |
| `detection` | settings: 2 setting tasks, 2 parameters, 2 levels, queues of 2 and 1 | the cache is true, settings reach the detection, calls return |
| | light: 4 configurations, with and without dimming, requests for ever, blinking | attended, timer matches the state, detection paused only in the silence; the light goes dark, the detection resumes |
| `rtos` | 3 tasks of 3 priorities and the idle task, one queue, one mutex, 5 configurations | lists and bitmap agree, the highest runs, no lost wake-up, priorities inherited and taken back with no empty list left, waits neither late nor early |
| `rtos_assert` | 3 tasks and a mutex | violated: an assertion of `xQueueSemaphoreTake` can fail |
| `flash` | 4 items of 2 bits, two of them handed to their modules; a calibration of 2 bits | a completed save is recovered, saves are never mixed, there is room for all items, the calibration is true |
| `flash_saved` | the same | violated: "saved to flash" is answered although nothing is there |

Bounds and why they are enough:

- `kmsg`: two messages of one id show order and merging, two ids order between lists, an id
  below the first what the loop leaves out. No counter is bounded; the state space is finite.
- `pool`: two slots fill with two sends, and two more are refused or find the pool as a race has
  left it. The ids are as in the code: the modules' are below the loop's first (0 and 1 below 2), so their messages stay queued
  and no slot comes back (section 5); the CI message has an id the loop serves. An interrupt may send anywhere. `Lossless`
  leaves out one window: once an interrupt has taken the slot that main has tested and
  not yet marked (`hit`), both use it, and `pool_race` shows what comes of that. It says that there
  is no other: between mark and copy, copy and post, and in every step of the loop an interrupt
  that sends does no harm.
- `timer`: delays 2 and 3 with ticks at every step reach: ringing while queued, restart while
  queued, restart while ringing, expiry inside `start_timer`. `MaxCalls` bounds the calls of one
  callback, `WindowTicks` the ticks in one `start_timer`; with a delay not above `WindowTicks` a
  running timer could reach 0 in the window and wrap, which is why delays start at 2 (no caller
  passes less). `W = 8` is 2^32. `IsrInExpiry = FALSE` leaves out one window of the code, between
  the test of the state and the critical section of the expiry handling: a restart from the
  interrupt there is stopped again and the callback runs early. It is listed as a hazard. CiPort
  has that window in its own model (`TimeoutStop`).
- `ci`: `RxBufMax = 7` admits a frame with two parameters, length byte 7 overruns it and is
  also the head, so noise can look like a frame. The configurations, which never change in a behaviour
  (`conf`): RTOS and not; a host that waits for answers (`patient`); one that never pauses
  (neither `slow` nor idle interrupts); I2C. `FrameWellFormed` is about patient hosts that do not
  pause: for others a byte that arrives between two stores of `ci_port_reset`, made by main
  code or by the timeout, is kept in front of the next frame, and what holds is that the receiver recovers. `FrameStable` is about hosts that
  do not pause: after a pause the idle interrupt overwrites a frame that is being handled.
  `Listens` is about the UART: on I2C a frame without an answer stops reading for good, which
  is also why that run does not check for deadlock.
- `fifo`: indices wrap several times in a run. `IndexMod` is a multiple of the length as 2^32 is
  of the download's 1024. It is not one of the sample FIFO's 48, and with 3 and 8 the refinement
  fails; that FIFO's producer is disabled (`if_sample.c`, `#if 0`). Two values tell any two bytes
  apart. At most one start command is queued: with `m_ymodem_run` set no command can arrive, and
  before it the receiver has one buffer. `ReadsItsOwn` is about hosts that wait for answers: a
  second start has its stores interleaved with bytes, which leaves `read` and `write` apart until
  the next start. `CreateMayFail = FALSE` for `GivesBack`: if `xTaskCreate` fails nobody clears
  `m_ymodem_run`, and the command interface is deaf until a reset.
- `ymodem`: `MAX_ERRORS = 2` and `RETRY_TIMES_MAX = 3` stand for 10 and 20: large enough
  that retries succeed and small enough to be exhausted. *Losses*: 3 faults, early timeouts,
  flash errors, numbers that wrap within the file. *Noise*: start bytes damaged. *Refused*: the file
  before was too large for the partition, and `recv_size`, which outlives a download (`ci_dld.c:87`),
  has this one refused. *Late*: early timeouts without losses, and an erase that fails. *Clean*: 12
  blocks, two wraps of the number, after a file that filled the partition. Where `flash_if_erase`
  fails its result is ignored (`ymodem.c:326`): `WritesInOrder` and `Delivered` then allow blocks
  that are spoilt by what was there (`Mixed`). `Succeeds` asks that the file before was not too large. `Delivered` leaves out
  noise: an EOT value where a packet's start is expected makes both ends report success.
  `Terminates` leaves out losses: after one lost ACK of the header both ends repeat header and
  NAK for ever, neither counts them. Both ends stop at the end: no deadlock check.
- `detection`, settings: two of three parameters and two levels are enough for messages of two setters to be
  confused; `Single = {"delta"}` is set alone as well. A queue of 1 for APP and 2 for RAD fill at once,
  frame data (`MaxData = 1`) competes for RAD's. After a wait has expired no new call is made
  (a bound): those under way end. `CacheIsTrue` and `SettingsReach` are about the time before:
  an expired send loses a message, and the cache stays wrong.
- `detection`, light: the state is finite, nothing is bounded. Times are "finite" or "forever"
  (`0xffffffff`). `GoesDark` and `DetectionResumes` leave out blinking (`light_ctrl_blink` is not
  called in the repository, and its end leaves a periodic timer on one path) and `GoesDark` and
  `Attended` also requests for ever.
- `rtos`: three priorities are a task that is preempted, the one that preempts it and the one
  that must not come between. *Readers* and *Writers* have an interrupt fill or empty a queue of
  one; *Locks* and *Timed* a mutex with waits for ever and with waits that end; *Tasks*
  notifications, deletion and creation; *Timed* has a delay of no ticks too. The count starts at
  `InitialTick = 2` and wraps at `TickMod = 4`; the run ends at `MaxTime = 7`, one tick before a
  second wrap (with a second one `NeverLate` is false, section 5); `MaxNotes = 1` bounds
  notifications not taken. When time is up all may sleep: no deadlock check. A mutex that a low task waits for while a higher one times out is
  left out: there `HighestRuns` is false (section 5).
- `flash`: item 1 is the flag, item 2 a setting that is saved and not handed to its module (see section
  5), items 3 and 4 two that are: parts of two saves can be told apart, and the last item's value is
  the one a cut may leave erased. Two bits give values of which neither, either or both directions
  of change need an erase. Item 3 is the light's time: 0 by default and loaded as 1. `EraseMayFail = FALSE`: the result of `spi_flash_erase` is ignored
  (lines 185, 195), and with `TRUE` the items are programmed over the old ones and `Recovered` and
  `NeverMixed` are false: a save that was answered with no error is not what the next start finds,
  and the next start uses a mixture of two. An erase and the programming of one value are atomic;
  that a CRC may fit by chance is left out. `Recovered` and `NeverMixed` are about starts during which no command comes.

Fairness and why the code justifies it. *KMsg, SysTimer*: main code runs whenever no
interrupt does, and handlers return (`WF` of the loop's steps as one action, so no fairness
between them); ticks keep coming. That the loop returns to main is a hypothesis (`LoopReturns`)
of the properties that need it: posts that never stop can keep it in one list. *CiPort*: SYS
task, timer task and time proceed; bytes need never come. *Ymodem*: each end runs. *RadarMgr*:
tasks that can run do (`WF`), the kernel gives a mutex to the waiting tasks in turn (`SF` of
`Lock`), and time passes (`Expire`). *LightCtrl*: the light task runs; a running timer runs out if the
light task is idle again and again (`SF(Pass)`: a period is over after its seconds although
requests keep the task busy now and then). *Download*: SYS and the download task run, and
`Ymodem_Receive` returns, which is the run `ymodem`'s `Terminates` on its conditions; bytes and
commands need not come. *MsgPool*, *Kernel* and *FlashStore* have no liveness: what becomes of a message is the run `kmsg`'s matter, that tasks get to run is a
matter of what others do, and a save that is always cut off never ends.

## 4. What is proved

For every value of the constants that meets the module's assumption (messages, ids, lengths,
byte sets, configurations), checked by the proof system.

`MsgPool_proofs`, about the queues and the loop (`KMsg`, `Spec`):

- `TypeCorrect == Spec => []KMsgTypeOK`; inductive as it stands.
- `IntegrityHolds == Spec => []ListIntegrity`. With the types it is inductive. The heart is
  the post: only the list posted to is searched, and because every object has one home id the
  other lists cannot hold it. The sequence lemmas `TailIndex` and `AppendIndex` carry it.
- `NoStaleHandling == Spec => []NoStaleMessage`. At `pop` either `msg` is NULL or the list is
  not empty: only `LoopTest` goes back to `pop` in the same id, having seen the list non-empty,
  and interrupts only append.
- `RefinesMailbox == Spec => ImplementsMailbox`. Every step is a step or a stutter of the
  mailbox; `LoopPop` is `Take` (this needs both invariants: integrity, so that what is popped
  is no longer pending, and no stale message, so that something is taken), `HandlerReturn` and a
  dispatch without a handler are `Done`.

and about the pool (`PoolSpec`), for any number of ids, slots and sends, any place the loop starts
at, and interrupts that send between any two steps of main:

- `NothingLost == PoolSpec => []Lossless`. `Lossless` says that, until an interrupt takes the slot main has
  found (`hit`), the tokens accepted for a module are those served, then the one in hand, then those
  queued. The invariant is `hit \/ PoolInv`. `PoolInv` adds that a slot is linked once, in the list of one
  module (`SlotsLinked`), and that every slot that is linked, in the loop's hand or filled by the send
  under way is marked used and that these three are different slots, while the one that is only found
  is not (`SlotsTaken`); so neither a copy nor a free touches a token that is still to be served.
  `LinkTokens` and `UnlinkTokens` say what a post and a pop do to the tokens of a list.

`SysTimer_proofs`:

- `RefinesAlarmClock`: `TimerSpec => Clock!Spec` (the safety part of `KeepsTime`) for any finite set of timers,
  where `osal_task_invalid_msg` does not write into a timer (`Noos = FALSE`), no interrupt comes
  into the unprotected window of the expiry handling (`IsrInExpiry = FALSE`), and every delay
  is longer than the ticks that fit into one `start_timer`. These are the conditions of the run, and
  each is needed (section 5 and the hazards). `TimerInv` says that a timer which is not stopped is in the running
  list with ticks left (`Active`), what the loop's message is while an expiry is handled
  (`Handling`), and that the delay `start_timer` has stored before its critical section
  survives the ticks in between (`Starting`). The step simulation goes through the tick, where the timers
  that count and those that ring are the clock's, and through the calls, one by one.

`CiPort_proofs`:

- `BufferBounded == Spec => []CiTypeOK` contains `rx_idx \in 0 .. RxBufMax`: no byte is stored
  past the buffer, whatever falls between the stores of a reset. Not inductive: the counter of
  check-code bytes shares `para_len` with the length, so `IInv` adds `CountsBytes(ctx)`
  (`para_len` is at most 1 in `CHECK_CODE`) and `Watched`.
- `FramesWatched == Spec => []Watched`: a frame under way has a timeout that runs, has
  expired, or is about to reset the state.
- `ReadyOwned == Spec => []ReadyIsOwned`: from `OInv`, which adds ownership to `IInv`. A frame
  completes only when the receiver was not ready, and each taker leaves `pending` or is itself
  the owner until its second store.
- `FramesStable == Spec => FrameStable`, from `HInv`: where neither idle interrupts nor pauses give
  a frame up, one frame is under way at most, and the receiver is ready as long as it is
  (`OneFrame`); a ready receiver stores nothing (`ReadyRefuses`).
- `FramesWhole == Spec => FrameWellFormed`, from `PInv`: `InFrame` is the receiver's progress
  through a frame, how `rx_idx`, `para_len` and the length byte go together in each state, and
  `AtStart` that it waits for a head with an empty buffer. `ByteStateInFrame` is the lemma that one
  byte takes it one place further. The property has the condition `~Slow`: the invariant showed
  that waiting for answers is not enough, since the timeout's reset of a host that pauses has
  the same window as the reset of main code.

`Detection_proofs`, about the light (`LightCtrl`):

- `LightTyped == LightSpec => []LightTypeOK`, `AlwaysAttended == LightSpec => []Attended` and
  `TimerAlwaysMatches == LightSpec => []TimerMatches`, from one invariant, `LInv`. `Attended` alone
  is not inductive: it says that some expiry is pending, and a request may take a pending
  expiry away (light on clears `LOT_EXPIRED`), or the state may ignore it. `LInv` names the expiry
  each state waits for (`TimerKept`), says that the timer's callback reports that one, and that a
  handler that is half done has set the callback for the state it enters (`CallbackSet`). Its step
  is one lemma for the other tasks and the timer (`OutsideStep`), one for the handlers
  (`HandlerStep`) and one for the light task (`LightStep`).

- `AlwaysDetects == LightSpec => []DetectsWhenLit` from `DInv`, which adds to `LInv` whether the
  detection runs while a handler is half done (`Detects`), and that at most one expiry is on its
  way, none of the light's own time in the silence (`OneExpiry`): a period ends only when the
  expiry before it was served.

and about the radar manager (`RadarMgr`):

- `RadarTyped == Spec => []RadarTypeOK` and `CacheAlwaysTrue == Spec => []CacheIsTrue`. The
  messages of a change are partly in RAD's queue and partly still with the setter. `CacheInv`
  states the property of the two parts one after the other, so that sending moves a message from
  the head of one to the end of the other; `Owner` says that the mutex's holder is the only one
  that has messages left. The lemmas `AppendCarries`, `TailCarries` and their like say what
  "the last message for f carries v" becomes when a queue grows or shrinks.

`Download_proofs`, under `Sized` (items of one unit, a batch not longer than the ring and one,
`IndexMod` a multiple of the length, as 2^32 is of 1024):

- `RingIsQueue == DldSpec => ImplementsQueue`. `RingInv` says where `write` is: `used` items after
  `read`, modulo `IndexMod`. As at most `item_cnt` items are in the ring, their places are
  different (`ModDistinct`), and what is enqueued overwrites none of them. The arithmetic of
  remainders is in lemmas of its own.
- `DownloadReadsItsOwn == DldSpec => []ReadsItsOwn`. `DldInv` adds where the SYS task is between
  the stores of `fifo_init` and that, for a host that waits, no download runs meanwhile.

`Ymodem_proofs`, for every length of file, every modulus of the packet numbers from two on,
every limit of errors and any number of faults:

- `AlwaysInOrder == Spec => [](GarbledBytes = 0 => WritesInOrder)` and `SuccessIsDelivery ==
  Spec => []Delivered`. The invariant relates both ends and both streams. `Sending`: the
  receiver has accepted as many packets as the sender, or one more, and at most one ACK is under
  way, only in the second case. `Line`: whole packets under way are the one the receiver waits
  for or copies of the one before it, in this order. Two neighbours have different numbers, so the
  receiver tells them apart. `Blank` says that the flash from the receiver's place on is erased, unless
  an erase may fail, so no block is spoilt. This is why 8 bits are enough and why stop-and-wait with the
  spurious 'C' of the header stays correct.

`FlashStore_proofs`, for any set of items and any values:

- `SettingsHaveRoom == Spec => []RoomForAll`. The invariant `Shape` says that the table in RAM
  holds the first items of the enumeration in order (`Prefix`), or the name a reset has cut off (`Torn`), and
  that the sector is the table of a save cut off somewhere (`Cut`). `ci_setting_set` is a recursive function
  over the items: `SetRow` makes it a row of tables, and `SetAll` goes along that row, by
  `SetInduction`, induction with a set for the predicate. That a torn table never has all items
  is the pigeonhole principle (`TornNotAllThere`).
- `SavesRecovered == EraseMayFail = FALSE => (Spec => []Recovered)` and `SavesNeverMixed`, the same for
  `NeverMixed`. `StoreInv` adds to `Shape` what the sector holds in terms of the save under way
  and the one before (`Stored`), and what a load of it gives (`Restarted`). Both are false if an
  erase may fail.
- `NoWrongCalibration == Spec => []CalibrationTrue`. `SysInv` says of every step of
  `sys_data_item_set` what is in the sector: a code that fits is never there together with a
  value that is being changed, since the erase takes the code and the code is programmed last.

`Kernel_proofs`, for any finite set of tasks, any priorities, mutexes, calls, length of the
queue and modulus of the tick count:

- `ListsAlwaysAgree == Spec /\ []HolderNotAlone => []ListsAgree`. The invariant has three parts.
  `LInv` is about the lists: nothing twice in any, each task in exactly one of six (`InOne`), a ready task
  in the list of its own priority (`OwnList`), the bitmap exact (`TopExact`), tasks in event lists blocked
  (`Events`). It is not inductive: a task that is woken is added to a ready list, and that it is in no
  other depends on where it is in its call. `Ctx` says who holds the scheduler suspended, that the
  idle task and whoever is inside a call's steps are ready, and that only a task
  blocked in a call waits for an event or a notification; `Steady` which locals are set at which
  place. Each function of `tasks.c` has a lemma that it keeps `LInv` and is `Calm`: it disturbs no
  other task; the folds (a tick that wakes many, `xTaskResumeAll`) have theirs by induction with a
  set for the predicate; then each of the 25 steps has one.
  The hypothesis is needed at one line. `vTaskPriorityDisinheritAfterTimeout` resets the wrong bit
  when it empties a ready list (section 5), so the bitmap is exact only while it never does:
  `HolderNotAlone`. It is a part of `Inherited` and holds in the run `rtos`, with one mutex, where
  the waiter itself is in that list; with two mutexes nested it is false, and so is `ListsAgree`.
- `PatientListsAgree == ASSUME PatientCalls PROVE Spec => []ListsAgree`: the hypothesis is not needed
  if no wait for a mutex ends. `PatientCalls` says that tasks take a mutex at once or wait for ever, as all
  callers of `osal_mutex_lock` ask for (`radar_mgr.c:216,232,253`; the 71 minutes of
  `osal_common.h:91` aside), and any number of mutexes may be nested.
- `NeverAnyEarly == Spec /\ []HolderNotAlone => NeverEarly` and `PatientNeverEarly`, under
  `PatientCalls`: no call ends before its time unless it has got what it waits for. Time is counted
  without wrap, `Now(k) = over * TickMod + tick`. `TimeInv` has two parts. `Clock` is about the
  delayed lists: each is sorted, every wake time in the current one lies in this turn of the count and
  in the overflow list in the next, both are later than now. `Punctual` is about a call: what
  it last read of the clock plus the ticks it has left is not before `due`; in a delay, or a wait for a
  notification that has not come, the wake time in the delayed list is not before `due` either;
  and when a call has given up `due` has passed. Each function of `tasks.c` keeps `Clock` and is a `Passes`: it moves the clock
  forward only, and no wake time of another task. Wrapped and unwrapped subtraction meet in one lemma
  (`CheckTime`): what `xTaskCheckForTimeOut` reads from tick and overflow count never
  makes a wait shorter than it is, however often the count has wrapped.
- `NeverAnyLate == Spec /\ []HolderNotAlone /\ []WrapsOnce => []NeverLate` and `PatientNeverLate`,
  under `PatientCalls` instead of the first hypothesis. `LateInv` (`Prompt`) is the other half: the wake time of
  a sleeping task is not after `due`, and a call that runs has not been given more ticks than remain.
  Tasks whose time has come are at the head of the current list, and the tick wakes them all.
  `WrapsOnce` says that between two looks of one call at the clock the count wraps at most once:
  `xTaskCheckForTimeOut` cannot tell two wraps from one. It holds in the run `rtos`, and on the hardware,
  where a wrap takes 49 days, unless a task of low priority is kept from running for that
  long. Without it `NeverLate` is false (section 5). `NeverEarly` does not need it.

Only model-checked:

- all liveness, since fairness and ENABLED are out of the prover's reach, and with it the liveness
  part of `ServesMailbox` and `KeepsTime`;
- of Kernel `HighestRuns`, `NoLostWakeup` and `Inherited` (with `HolderNotAlone`). The first is false
  in a configuration outside the run, and the third with two mutexes (section 5), so a theorem
  would need hypotheses that say which tasks wait for which mutexes and for how long, and with them why a task
  has the priority it has. `NoLostWakeup` relates the number of items in a queue to the number of tasks
  that are awake on its account, over every fold that wakes tasks: nothing known speaks against it, but the
  proof is not done;
- `WritesInOrder` with damaged start bytes.

## 5. Disagreements between the code and its texts

Three are runs whose one property TLC violates; `PROJECT.json` quotes the text.

- `rtos_assert`: a task whose wait for a mutex has ended finds it free and looks once more; if
  another takes it in between, `configASSERT(xInheritanceOccurred == pdFALSE)`
  (`queue.c:1586`) fails and the system stops with interrupts off. The comment above says that this
  cannot happen.
- `flash_saved`: `ci_cfg_save_get` (`ci_cmd.c:1251`) answers "saved to flash" from a flag in RAM,
  which is set before the save is tried and survives its failure and the erase of the flash.

- `pool_race`: `osal_task_send_msg` tests a slot (`osal_task.c:150`) and marks it (151) outside any
  critical section. An interrupt that sends in between takes the same slot, and main's copy
  overwrites a message that is already linked; the comment (line 164) says that a slot becomes
  reusable by `osal_task_invalid_msg`. In this revision the senders of `if_sample.c` that are written for
  interrupts are compiled out, and those of the closed library have no source.

Others met while modelling. Those the code's texts speak of too:

- `k_msg_loop` starts at id 10 and modules post under 0 to 9 (`k_msg.c:177`). In builds without an
  RTOS messages to modules are accepted, never handled, and keep their slots, so that sends return
  `OSAL_NOMEM` once the pool is full, though the comment (lines 169-170) promises that the loop
  calls the message handler and `osal_common.h:155-157` gives the modules the first ten ids on
  purpose. The run `pool` has the ids as they are: its messages to modules stay queued.
- `osal_task_invalid_msg` (`osal_task.c:175`) is called for every message and writes in front of it;
  in front of a timer's message lies the timer's `delay`. `Noos = TRUE` has it in SysTimer.
- The result of posting a frame is not handled (`ci_port.c:355`, with a TODO): when other
  messages fill the SYS queue the receiver is deaf for good.
- The test of the file's size looks at the previous file's (`ymodem.c:320`): a file larger than the
  partition is programmed beyond it.

And behaviour that surprises:

- Timers: the restart inside the expiry handling.
- Radar manager: the 71-minute "for ever", and the mutex that is then released by another task.
- Light: switched on anew in the moment its time runs out it goes off; switched off in that
  moment it is dimmed or silent first; a late expiry of the dimming can lead from ON to the silence.
- Kernel: giving a mutex back asks for a yield only if no task waits for it
  (`queue.c:899-927`). If the highest task times out of waiting while the holder still has its
  priority, and a task below the holder waits too, the holder gives the mutex back, falls to its
  own priority and runs on although the highest is ready, until the next tick or switch. With the
  configuration `hi: Take(1)`, `mid: Take(0), Give`, `lo: Take(MAX_DELAY)` TLC finds `HighestRuns`
  violated; the five configurations of the run `rtos` have no such third waiter. The comment
  there (lines 913-916) names mutexes returned out of order as the only case in which that yield
  matters.
- Kernel, two wraps: `xTaskCheckForTimeOut` (`tasks.c:3316`) finds a wait over if the overflow count has
  changed *and* the tick count is not before the one it noted, and otherwise subtracts modulo the
  width. A task that is resumed and then kept from running through more than one wrap, with the count
  just short of where it was, counts the wait as hardly begun and sleeps again: TLC finds
  `NeverLate` violated with `MaxTime = 14`. A wrap takes 49 days, so in the firmware this is
  of no consequence; it is why `NeverAnyLate` assumes `WrapsOnce`.
- Kernel, two mutexes: `vTaskPriorityDisinheritAfterTimeout` (`tasks.c:4319`) takes the holder out of
  a ready list and, if that is empty now, resets the bit of the holder's *new* priority. *lo* holds m.
  *mid* holds n and waits for m with a timeout: *lo* inherits 2. *hi* waits for n: *mid* gets 3, *lo*
  keeps 2, as inheritance does not pass on. *mid* times out and gives *lo* its priority back: list 2
  is empty and its bit stays set. When the tasks above sleep, the switch finds nothing in list 2 and
  `configASSERT( listCURRENT_LIST_LENGTH( ... ) > 0 )` (`tasks.c:178`) stops the system. TLC finds
  it with `hi: Take n (1), Delay(2)`, `mid: Take n (0), Take m (2), Delay(1)`, `lo: Take m (0), Delay(1)`
  in 10 ticks. In the firmware only the console nests two mutexes (`UARTCommandConsole.c:137` around a
  command of the radar manager); its inner wait lasts 71 minutes and nobody waits for its outer one.
- Settings: the distance levels are saved and loaded but never handed to their modules
  (`ci_cmd.c:1153`); a name cut off by a reset takes a slot for good, and as the table has as many slots
  as items, saves fail from then on until the settings are cleared; a load that stops at a missing
  item leaves a mixture in `m_setting_cfg`, which the next save stores; "not changed" compares with the table in RAM.
- Calibration: whether to erase is decided from the caller's uninitialised check code; without an
  erase the new code is ANDed into the old one, and the item reads as the built-in value although
  the command succeeded.
- Download: a start in the moment between the end of `Ymodem_Receive` and `m_ymodem_run = 0` is
  answered and starts nothing.

## 6. What is not modelled

- *Closed or vendored*: the detection library, boot ROM, libc, CmBacktrace, the CMSIS headers.
  Of FreeRTOS what the firmware's calls run through is in Kernel; the rest of it (suspension,
  semaphores, queue sets, streams, the timer task, event groups, the other ports) is not. Most
  lines of the tree are of this kind -- register headers, HAL, vendored kernel sources and their
  documentation in comments --, so the lines the modules map are a small share of all.
- *No protocol of their own*: drivers, HAL, board files, shell, logging, examples; the CI
  commands that read or write one parameter; DIP switch, keys, light sensor. They read and write
  registers or format text, in one context.
- *Sequential code over addresses*: the heap (`mem_heap.c`) and `at_malloc.c`; what others see of
  them, that an allocation may fail, is in the models of the callers (`CreateMayFail`,
  `xTaskCreate`).
- *Hardware decides*: the low-power builds, the self diagnosis and the power, start and stop of the
  radar are orders of register accesses around hardware and a closed library that the tree does
  not describe; a model would state assumptions about them and not the code.
- *Disabled in this tree*: the radar sample path (`if_sample.c`).
- *Thin callers*: `app_light.c` passes results and reports to LightCtrl, which takes its requests in
  any order already; `task_schedule.c` counts four periods in one task.
- In the modelled parts: the list order of timers, the pool of timers, breath parameters of the
  radar manager (the same code again), the second light and the gradual change of the first,
  failing timer commands in the light, the text of Ymodem headers, byte-level packets, the
  contents of kernel queues, `user_setting_delete` (no caller).

Two hazards have no property: an I2C receiver stops reading after a frame without an answer
(`ci_port.c:371`), and after one lost ACK of a header both ends of a transfer repeat themselves
for ever (`ymodem.c:297`). The models show both; a liveness property would be false, and no text
of the repository promises it.

## 7. What could follow

- Kernel: `NoLostWakeup` as a theorem, by counting the tasks that are awake and have not looked
  again against the items and free places of the queue; then `HolderNotAlone` for one mutex, which has to say
  which tasks have which priority while a wait for it ends.
- LightCtrl: failing timer commands and the second light.
