# A TLA+ verification of the libogc2 kernel and its request engines

libogc2 is the runtime of GameCube and Wii homebrew: a static library linked
into one application.  Its core is a small preemptive multithreading kernel for
one PowerPC CPU (derived from RTEMS, the `lwp_*` files of `libogc/`), with
semaphores, mutexes, condition variables, message queues, joinable threads and
timers on top.  The rest of the library runs as threads and interrupt handlers
on that kernel.  This project models the kernel with all its synchronization
objects, the timers and alarms, and three of the engines that are driven by
interrupts: the ARAM request queue, the IPC with IOS, and the file system of
the memory cards.

Contents: 1 inventory, 2 plan, 3 the modules and the code, 4 the runs, 5 the
proofs, 6 what the checks found, 7 what is not modelled.

## 1. Inventory

### 1.1 How the system runs

* **Threads** run application code at dispatch level 0.  A kernel call raises
  `_thread_dispatch_disable_level`, so that no other *thread* runs until the
  matching `__lwp_thread_dispatchenable`, which calls `__thread_dispatch`.
* **Interrupt handlers** run on top of whatever is executing as soon as
  interrupts are enabled, also in the middle of a kernel call.  They run with
  interrupts off, raise the dispatch level for their duration, and on exit to
  level 0 call `__thread_dispatch` when a switch is wanted (`irq_handler.S`,
  `decrementer_handler.S`).
* **Critical sections** disable interrupts (`_CPU_ISR_Disable/Restore`).  Long
  ones open a window in the middle (`_CPU_ISR_Flash`), where a handler sees, and
  may change, half-updated kernel state.  These windows, and the gaps between
  two critical sections of one kernel call, are where the hard behaviour is.

So the atomic step of every model is one stretch of code with interrupts off
(or code that touches nothing a handler touches), and between any two steps a
handler may run.

### 1.2 The components

| component | state | operations | used by |
|---|---|---|---|
| scheduler (`lwp_threads.c`) | state bits, priority, suspend count and slice of each thread; one ready queue per priority and a bitmap; heir, executing, switch-wanted | set/clear state, suspend, resume, change priority, ready, yield, rotate, dispatch, tick | everything |
| thread API (`lwp.c`) | thread objects, join lists, sleep queues | create, suspend, resume, set priority, yield, exit, join, detach, sleep, signal, broadcast | application, drivers |
| thread queues (`lwp_threadq.c`) | the waiting threads (FIFO, or four priority headers), `sync_state` | announce, enqueue, dequeue, timeout, extract, flush | semaphores, mutexes, message queues, conditions, sleep queues |
| watchdog timers (`lwp_watchdog.c`) | list ordered by due time, state of each timer, the decrementer | insert, remove, reset, tickle | timed waits, time slices, alarms |
| alarms (`system_alarm.c`) | a timer, a callback and a period each | create, set, set periodic, cancel, remove | application, drivers |
| semaphores | count, queue | init, wait, timed wait, try, post, destroy | application, network, C library |
| message queues | pending list, counter, free buffers, queue | init, send, jam, receive, close | application, network |
| mutexes | holder, nesting, queue, inherited priority | init, lock, try, timed lock, unlock, destroy | application, C library |
| condition variables | queue, bound mutex | init, wait, timed wait, signal, broadcast, destroy | application, C library |
| ARAM request queue (`arqueue.c`) | two queues, pending pointers, chunk size, the DMA engine | post, post and wait, flush, remove, set chunk size, completion | audio, application |
| IPC with IOS (`ipc.c`) | request queue, credits of the mailbox, relaunch | synchronous and asynchronous request, reply, acknowledge, reload | every Wii service |
| memory cards (`card.c`) | two copies of directory and FAT on the card, their copy in memory, the chain of commands under way; in a `card_file` the place of the last write | mount, create, open, delete, set status, write, format, unmount | application |
| object manager, workspace heap | handle table, list of free objects; first-fit blocks | allocate, open, close, free | every object |
| other drivers | EXI locks, SI transfers, disc commands, GX FIFO | requests with completion interrupts and callbacks | application |

`PROJECT.json` lists all 29 parts with their sources and status, the ones left
out too.

They interact in three ways: *calls* (object operation → thread queue →
scheduler → dispatch; mutexes change priorities; conditions unlock and lock
mutexes), *interrupts* (the decrementer runs timers, which time out waits, end
time slices and ring alarms; drivers post semaphores, send messages, wake sleep
queues and start their next command from callbacks; the GX handlers suspend and
resume the drawing thread), and *shared per-thread fields* (`cur_state`,
`wait.ret_code`, `wait.ret_arg`, `timer.state`, `cur_prio`), which several
components write at different times.

### 1.3 What is hard, and what makes each part correct

* **Scheduler.**  A handler in a flash window changes queues and heir between
  the halves of a primitive.  Correct: queues, bitmap, states and priorities
  agree; application code runs only in a ready thread of the best priority; no
  wanted switch is forgotten; suspends nest; equal priorities take turns.
* **Thread queue.**  A thread is announced, blocked, given a timer and queued in
  separate critical sections; a post or its own timeout may come in every gap.
  In priority mode the search for the place opens a window at every thread it
  passes.  Correct: exactly one of post and timeout wins; blocked threads are
  exactly the queued ones when threads can run, in the order of priority; no
  timer outlives its wait; interrupts are enabled again.
* **Semaphore.**  Correct: it is a FIFO counting semaphore; no permit lies idle
  while a thread waits; destroying it releases everybody.
* **Message queue.**  Senders and receivers share one thread queue; a buffer
  changes hands across several critical sections.  Correct: it is a bounded
  mailbox; no buffer leaks; nobody waits for what is there.
* **Mutex.**  Inherited priorities come and go with waits that time out, with
  several mutexes and with `LWP_SetThreadPriority`.  Correct: one owner at a
  time, never free while somebody asks; the owner runs at least at the priority
  of its waiters; no priority is kept after the last mutex.
* **Condition variable.**  The mutex is given up before the wait is announced.
  Correct: both are one step for everybody else; signals wake in the order of
  sleeping; who is told that it was woken holds the mutex.
* **Timers and alarms.**  Handlers insert, fire and cancel timers in the windows
  of an insertion; the decrementer counts 31 bits.  Correct: the list is in
  order, the decrementer is armed for the first, callbacks run when they are
  wanted, not early, and in the end.
* **ARAM requests.**  Low requests go in chunks, high ones in between; callbacks
  post from the completion interrupt.  Correct: requests are served in order and
  whole, the engine is never idle over work and never started twice; the callers
  that wait return.
* **IPC.**  Acknowledges and replies come in any order, a relaunch takes two
  acknowledges, a failed one only one.  Correct: the mailbox is never
  overwritten, everybody gets the answer to its own request, every request ends.
* **Memory card.**  Directory and FAT are written one after the other while the
  card may be pulled out or lose power at any command.  Correct: what a mount
  finds is what was there before or after the call, directory and FAT fit, a
  file is written only in its own blocks, and each call returns.
* **Joining, object manager, heap**: see sections 2 and 7.

`PROJECT.json` "hazards" has the list with the lines where each one bites.

## 2. Plan

Done, in this order: 1 `LwpSched` and its proofs, 2 `LwpThreadQ`, 3 `LwpSema`
with `CountingSema`, 4 `LwpMessages` with `Mailbox`, 5 `LwpMutex` and `LwpCond`
with `Monitor`, 6 `Watchdog` and `Alarm`, 7 `Arq` with `RequestServer`, 8 `Ipc`,
9 `Card` with `FileStore`.

Next:

10. **Proofs**.  Done: the inductive invariants of `LwpSched`, `LwpSema`,
    `LwpMessages`, `LwpMutex` with `LwpCond`, `Alarm`, `Arq` and `Ipc`, the
    safety properties that follow from them, and the refinements of
    `CountingSema`, `Mailbox`, `Monitor` and `RequestServer` (section 5).  Still
    to do: `ChainsFit` and `WritesOwnBlocks` of `Card`, and the step simulation
    of `FileStore`.
11. **Join, detach, exit and the sleep queues** of `lwp.c`; a sleep queue is a
    thread queue without a condition, as in `LwpThreadQ`.
12. **EXI locks** composed with `Card`; the transfer queue of `si.c`.
13. **Workspace heap**: first fit against a reference definition of the list of
    blocks.

There is one run for each question.  A type invariant is the first conjunct of
the structural invariant of its module and has no run of its own.

## 3. The modules and the code

| module | models | extends |
|---|---|---|
| `LwpSched` | scheduler, the scheduling part of `lwp.c`, interrupt exit, GX handlers | |
| `LwpThreadQ` | FIFO thread queue, per-thread timer, abstract dispatcher | |
| `LwpSema` / `CountingSema` | semaphores / what they promise | `LwpThreadQ` |
| `LwpMessages` / `Mailbox` | message queues / what they promise | `LwpThreadQ` |
| `LwpMutex` | mutexes, priority mode of thread queues, priority inheritance | `LwpThreadQ` |
| `LwpCond` / `Monitor` | condition variables with mutexes / what both promise | `LwpMutex` |
| `Watchdog` | the timer list and the decrementer, as operators on a record | |
| `Alarm` | alarms | `Watchdog` |
| `Arq` / `RequestServer` | ARAM request queue / what it promises | |
| `Ipc` | requests to IOS | |
| `Card` / `FileStore` | memory-card file system / what it promises | |
| `NodeQueue` | removing nodes from the linked lists of `lwp_queue.inl`, for the modules with queues of threads or requests | |
| `NodeQueueProofs` | lemmas about queues of nodes, for the next five | `NodeQueue`, `TLAPS` |
| `LwpSemaProofs`, `LwpMessagesProofs`, `ArqProofs`, `IpcProofs` | theorems about the module of the name | it and `NodeQueueProofs` |
| `LwpCondProofs` | theorems about `LwpMutex` and `LwpCond` | `LwpCond`, `NodeQueueProofs` |
| `LwpSchedProofs`, `AlarmProofs` | theorems about the module of the name | it and `TLAPS` |
| `MC...` | constants for TLC | the module of the name |

### 3.1 LwpSched

State: `state`, `prio`, `susp`, `slice` are fields of `lwp_cntrl`; `ready`,
`priomap`, `heir`, `exec`, `want` the globals; `gxsuspend` is
`_gxoverflowsuspend`.  `stage`, `op` and `isr` are the program counters of the
executing thread and of the handler on top of it.

A kernel call is *armed* (`Block`, `Unblock`, `SuspendThread`,
`SetThreadPriority`, ...: the tests made before the primitive), then runs its
first half (`FirstHalf`: states and queues), then its second half
(`SecondHalf`: heir and switch), then either another primitive of the same
section or `DispatchEnable`, `DispatchSwitch`, `DispatchDone`.
`changepriority` has its two further windows (`ChangeTransient`,
`ChangeSetPriority`, `ChangeReady`).  A handler runs its two halves without a
gap (`IsrUnblock`, `IsrTimeslice`, `GXOverflow`, `GXUnderflow`, then
`IsrSecond`, which includes the exit of `irq_handler.S`).

Abstractions:

* `BLOCKED` is one bit for all `LWP_STATES_WAITING_...` bits, the wait of an
  exiting thread for its joiner included.  Who may clear it, and when, is left
  open, so that the model has more behaviours than the code.
* Which mutexes a thread holds is left open: priority inheritance
  (`InheritPriority`) and the delayed change of a holder's priority
  (`SetThreadPriorityHeld`) may happen at any time.  `LwpMutex` has the details.
* One handler at a time; which sources are masked does not matter, since any
  handler may come wherever interrupts are enabled.
* Not modelled: registers, stacks, the lazy FPU context, `is_preemptible`
  (always TRUE).

With `GxThreads` not empty the GX handlers suspend and resume a thread in every
window.  The run `sched_gx` has all operations next to them but two
(`MCLwpSched!UnderGx`): yield (`LWP_YieldThread`, and `LWP_Reschedule` of the
caller's own priority), under which `ReadyQueuesAgree` is false, and `changepriority`, under which `ReadyQueuesAgree` holds (TLC checked
it once, 3 214 356 states) and `RoundRobin` does not; section 6 has both.

### 3.2 LwpThreadQ

State: `waitq`, `sync` (`sync_state`), and per thread `blocked` (the state bit),
`timer`, `ret` (`wait.ret_code`), `call`.  `exec`, `step` and `who` are the
executing thread, its next critical section, and the thread it has dequeued.

`CsEnter` is the announcement; `SetState`, `SetTimer`, `EnqueueFifo` are the
sections of `__lwp_threadqueue_enqueue`, `DequeueFifo`, `RemoveTimer`,
`Unblock` those of `dequeue`; `IsrDequeueFifo` is the same dequeue in a handler,
atomic; `TimerFires` is the timer's handler with `__lwp_threadqueue_timeout` and
`extract`.

Abstractions:

* `LwpSched` is abstracted to: at level 0, any thread that is not blocked may
  get the CPU (`Switch`).  That covers every assignment of priorities.
* An active timer is due at any time; its insertion into the timer list is
  atomic (`Alarm` has the list).  Timeouts are shorter than 0x7fffffff ticks,
  beyond which `__lwp_wd_tickle` re-arms a timer it finds too early.
* Where the code would go on with interrupts off (`"isroff"`) or in memory it
  gave back (`"wild"`), the model stops.

### 3.3 LwpSema and CountingSema

`Seize` is `__lwp_sema_seize` behind the three wait calls; `Post` and `Count`
the two halves of `__lwp_sema_surrender`; `Destroy`, `FlushNext`, `FlushStatus`,
`Free` are `LWP_SemDestroy`, whose `Free` comes after dispatching was enabled;
`IsrPost` is a post in a handler.  Calls that return `EINVAL` at once, and
`LWP_SemGetValue`, change nothing and are left out.  `SemInit` takes only a slot
on which no thread was left behind (section 6).

`CountingSema` has permits, an ordered line of waiting threads and an outcome
per thread.  The refinement mapping puts a thread at the end of the line when it
*announces* its wait, and keeps it there until a post, its timeout or a
destroyer has decided its outcome: `IsCountingSema` therefore says that the
many critical sections of a wait look like one atomic step.

### 3.4 LwpMessages and Mailbox

State: `pending`, `num` (`num_pendingmsgs`), `inactive` (free buffers), `pool`
and `open` (memory and object are allocated), `arg` (the message of a call),
`status` (return value of `__lwpmq_submit`), `tmp` (the register of
`++num_pendingmsgs`, which is not atomic), and `sent`, a history variable that
records whose message was taken.

`Receive`, `Take`, `Release` are `__lwpmq_seize`; `Send`, `Hand`, `Deliver`,
`Room`, `Alloc` are `__lwpmq_submit`; `Load`, `Store`, `Link` are
`__lwpmq_msg_insert`, for a sender or for a receiver that moves the message of
a waiting sender into the buffer it emptied; `Close`, `FlushNext`,
`FlushStatus`, `Drain`, `Free` are `MQ_Close`; `IsrSend` is a send in a handler,
atomic.  A message is named after its sender.  Handlers only send: a receive in
a handler is not protected against blocking and is not a supported use.
`__lwpmq_broadcast`, `__lwpmq_flush` and the notify handler have no caller.

`Mailbox` has one queue of messages and two lines of threads.  A message handed
directly from a sender to a receiver, and a buffer handed from a receiver to a
waiting sender, are single abstract steps.

### 3.5 LwpMutex, LwpCond and Monitor

State of a mutex: `lock`, `holder`, `nest`, its queue `mq` and `msync`; of a
thread: `cur`, `real`, `resCnt` (the priority fields of `lwp_cntrl`) and `mtx`,
the mutex of its call.  The priority queue is kept as in the code: in each
header a list of groups, a thread and the threads of its priority on its
`block2n`; `cursor` is `search_thread`, which a timer may remove in any window
of the search (`NextGroup`, `CursorGone`).

`Lock`, `Seize`, `Inherit` are `__lwp_mutex_locksupp` down to the wait;
`EnqueuePriority` the search with its windows; `Unlock`, `Surrender`,
`Disinherit`, `DequeuePriority`, `Grant` the way of a mutex to its next owner;
`SetThreadPriority`, `Destroy`, `MutexInit` the other calls; `MutexTimerFires`
is a timeout, `LateTimerFires` one whose timer has just been deactivated.
Handlers do not lock or unlock mutexes.  `Next` is about mutexes that last;
`LwpCond` composes `MutexLife` (destroy and init) with the other calls.

The code does not move a queued thread whose priority changes, nor pass a
priority on along a chain of owners.  The history variable `moved` records that
this has happened; `NoInversion` and `QueuedByPriority` promise nothing after
it, `PriorityRestored`, `IsMonitor` and `BlockedAreInQueues` do.

`LwpCond` adds one condition variable, whose queue is the FIFO queue of
`LwpThreadQ`: `CondWait` (up to the unlock), `Announce`, the sleep, `Relock`,
`CondReturn`; `Signal` and `SignalNext` for signal and broadcast, `Unbind`;
`CondDestroy`, `CondInit`.  Calls that return `EINVAL` change nothing and are
left out.

`Monitor` has for each mutex an owner, a depth and the set of threads that ask
for it, one line of sleeping threads, and the phase of each thread in its call
on the condition variable.  An owner that begins to wait leaves the mutex in the
step in which it falls asleep: there is no phase between, so that an unlock
followed by a sleep in a later step is no behaviour of the monitor.  (The code
ignores the result of the unlock, `cond.c:125`, so that a thread that does not
own the mutex may wait too.)  A thread leaves the line in three ways: it is the
first and a signal or broadcast wakes it (`WakeFirst`), or it sleeps with a time
limit, which ends (`WakeLate`); the phase remembers which, and the result of the
wait must agree.  A signal wakes one thread or finds nobody asleep, a broadcast
ends only when nobody sleeps, and nobody joins the line meanwhile.  That the
code, with its many critical sections, implements this is the absence of lost
wake-ups.

### 3.6 Watchdog and Alarm

`Watchdog` has the globals of `lwp_watchdog.c` as a record `W`, on which the
functions are operators (`SetTimer`, `Linked`, `Removed`, `WdReset`, ...).
Time is relative: `fire[w]` counts the ticks until `w` is due, `Tick` lets one
pass; a timer overdue by `MaxLate` or more stays there, which makes the state
space finite.  `Far` stands for 0x7fffffff, the longest time the decrementer
counts.  The value 0 that `__lwp_wd_settimer` stores in a timer that is already
due is `Due`, less than every time.

`Alarm` adds the calls (`CreateAlarm`, `SetAlarm`, `CancelAlarm`,
`RemoveAlarm`), the insertion of a thread at its search positions (`Search`,
`Flashed`), handlers that set and cancel alarms in each of its windows
(`Handler`), and the decrementer exception (`Tickle`, `Fire`), whose callbacks
may set and cancel alarms too.  `wanted`, `early` and `rang` are history
variables: whose callback the client expects, how long until it should run, and
which one the last step ran.

Client rules: an alarm is set again only when it has rung or was cancelled (the
code would link its timer a second time); no handler sets the alarm that a
thread is setting, cancelling or removing at that moment; and with `EarlyCancel
= FALSE` no handler cancels an alarm between the moment `insert` marks it and
its first critical section, nor between the restore and the disable of a restart
of its search (section 6).

`AlarmsRing` says that an alarm its client expects, and on which no call is
under way, has its callback run or is cancelled; a periodic alarm stays expected
after it has rung, so that one that is not set again violates it.

### 3.7 Arq and RequestServer

State: `queue`, `pending`, `armed` (the two callback pointers), `chunk`, the
fields of each request, the transfer in the engine (`dma`, external) and its
interrupt; `size` and `moved` record how much of a request was asked for and
transferred.  `PostRequestAsync`, `PostRequest` with `Check` (the test and the
sleep), `SetChunkSize`, `FlushQueue`, `RemoveRequest`, `RemoveOwnerRequest` are
the calls; `IsrPart`, `IsrEnd`, `IsrEndPosts` the completion interrupt without
and with a callback, and with a callback that posts a request.

Client rules: a request in use is not posted again, only a request that still
waits is removed, and with `CarefulFlush` nobody flushes while a part of a low
request moves (section 6).

`RequestServer` has two lines of requests, of which the first of a line is
served and leaves, and a set of served requests.

### 3.8 Ipc

The library's globals are one record `ipc`: the queue of requests, the credit of
the mailbox (`_ipc_mailboxack`), the relaunch under way, the register `box`,
and per request its status, kind and result.  The handlers are operators on it,
because one interrupt may run the reply handler and the acknowledge handler
after another with nothing in between (`IsrReplyAck`).  `SyncRequest` and
`SyncReturn`, `AsyncQueue` and `AsyncSend` (two critical sections) are the
calls, `Reinitialize` the end of a background reload.  `MayRequest` lets
callbacks make requests.

IOS is external: `Take`, `Answer`, `Reboot` do what `ipc.c` expects of it:
acknowledge each request, answer those it took in any order, answer a relaunch
only when it fails, and acknowledge once more when it has been relaunched.  The
launch of a background reload is never answered: its interrupt is masked from
its acknowledge on (`ios.c:283`); a background launch that fails is not
modelled.
Client rules, as `ios.c:273-316` keeps them: a relaunch begins when nothing is
under way, and nobody else calls during a background reload.

The field `held` is a history variable: a failed relaunch has given the credit
back with requests in the queue and sent none of them, and nothing was sent
since.  `EveryRequestEnds` excepts a request only if it stays in the queue for
ever in this situation.

### 3.9 Card and FileStore

`disk` holds the two copies of the directory and the two of the FAT, each with
its update counter and whether its checksums are right; `card` is
`cardmap[chn]` with the copies in memory, which of them is to be written next,
and the call under way; one step is the end of one command with the callbacks
it runs, up to the next command.  A sector is erased and then written; one not
written to its end has wrong checksums.

`Claim` and `Start` begin a call (`StartCreate`, `StartDelete`, `StartSet`,
`StartFormat`), `Open` is `CARD_Open`, `Write` is `CARD_WriteAsync` with
`__card_seek` (`Seek`) and `StartWrite` its first command,
`CommandDone` and `CommandFails` end a command, `Timeout`, `Eject`, `Insert` and
`PowerLoss` do what they say, `Mount` and `MountEnd` choose and repair copies
(`Mounted`, from `__card_checkdir` and `__card_checkfat`), `Unmount` is
`CARD_Unmount`, also in the middle of a command.

Data is abstracted: a directory entry is a name, a length, a first block and a
stamp (a bit that every change of the entry flips); contents of files, comments
and icons are left out.  The EXI bus is free when a command starts.

The program has one `card_file` (field `file`): the number of the entry, the
offset and the block at which the last write stopped.  It is kept from call to
call, while files are deleted and created and the card is formatted, and the
next write goes on from it; `of` is a history field that notes whose handle it
is, or that this file has gone.

Client rules: one thread makes calls; sizes and offsets are multiples of the
sector size; files are opened again after a mount; the `card_file` given to a
create is another one; an entry that is addressed by its number is in use.

Three history variables mark what the code does not promise: `whole` is FALSE
from the start of a format to its end; `doubt` is set when a create went on
although its FAT could not be written, or when an update is written whose
counter has wrapped to 0, and for no other reason: a mount that believes the
wrong copies violates `IsFileStore`; `cut` when `CARD_Unmount` ended a call under way.  The properties of the
run `card` are about cards that are whole and not in doubt (`WorthUsing`);
section 6 says what happens otherwise.

`FileStore` has the files a mount would find, the files to fall back on, the
files the program sees and the call under way.  A call changes what the program
sees; the card changes in one instant to it; a call that succeeds has saved it.
Since a mount would find `files` after every step, refinement means that a
removal or a loss of power at any command leaves the files as they were before
or after the call.

## 4. The runs

| run | instance | distinct states | shows |
|---|---|---|---|
| `sched` | idle, main and two threads, 3 priorities (one not sliced), slice of 1 tick, suspend counts up to 2, every operation | 1 510 326 | `RunsBest`, `SuspendCountAgrees`, `FifoOrder` under interrupts in every window; the inductive invariant `IInv` of the proofs |
| `sched_gx` | 4 threads, slice of 1 tick, GX handlers on main, every operation but yield and changes of priority | 270 388 | `ReadyQueuesAgree` next to handlers that suspend threads; `RoundRobin` |
| `sema` | 2 threads, every call, counts up to 2 | 10 149 | refinement `IsCountingSema`; `NoIdlePermit`, `InterruptsRestored`; `TimedWaitReturns`, `EveryWaitServed` |
| `mq` | 3 threads that send, jam and receive with timeouts, close and create, 2 buffers | 859 223 | refinement `IsMailbox`; `BuffersAccounted` |
| `mq_isr` | 2 threads, every call that moves messages, 2 buffers, handlers send | 326 056 | `BuffersAccounted`, `BlockedAreQueued` |
| `mutex` | 3 threads, 2 mutexes, timed locks, unlocks, changes of priority | 685 131 | refinement `IsMonitor`; `QueuedByPriority`, `PriorityRestored`, `NoInversion`, `BlockedAreInQueues` |
| `cond` | 3 threads, one recursive mutex, every call on it and on the condition variable | 211 720 | refinement `IsCondMonitor`; `HoldsOnReturn`, `TimersOfWaiters` |
| `alarm` | 3 alarms, intervals 0 and 2, period 1, decrementer range 1 | 73 601 | `TimersInOrder`, `NextIsArmed`, `RingsWhenWanted`, `AlarmsRing` |
| `arq` | 3 requests of two owners, length 2, chunks of 1 and 2 | 62 390 | refinement `IsServer`; `FinishedMeansMoved`, `EngineServes`, `StartsInTurn`, `FinishedReturns` |
| `ipc` | 3 requests of every kind, a queue of 2 | 6 144 | `OneInMailbox`, `RelaunchAlone`, `OwnAnswer`, `EveryRequestEnds` |
| `card` | 2 names, 2 directory entries, 3 blocks, files of 1 and 2 blocks, 4 calls, 2 faults | 549 793 | refinement `IsFileStore`; `ChainsFit`, `WritesOwnBlocks`, `CallsReturn` |
| `card_format` | the same without faults | until the violation | finding: the first file after a format is lost |

The structural invariants `EngineServes`, `TimersInOrder`, `OwnAnswer`,
`ChainsFit`, `BlockedAreInQueues`, `TimersOfWaiters`, `NoIdlePermit`,
`BuffersAccounted` and `IInv` contain the type invariant of their module.

**Bounds.**  Three priorities are one better than, one equal to and one worse
than any thread of interest; two threads beside main give a queue of three, the
shortest in which order matters.  A suspend count of 2 nests.  A thread that
waits, one that wakes it and a timer or handler in between are the smallest
instance of each race in a thread queue; a third thread adds an order of
waiting.  Two buffers separate a full queue from one that is next to empty.
In `mutex` the start and later priorities make the search run from the front
past a better thread, from the end past a worse one, and into another header;
two mutexes let a thread keep an inherited priority when it gives up one.
Alarm intervals 0 and 2 with `Far` = 1 are due at once and further away than
the decrementer counts.  Three timers are the shortest list with a middle; two
chunks of a request leave a moment between them.  Three IPC requests fill the
mailbox and the queue of two.  Four card calls are create, create, delete and
write, or format and three more (opening, mounting and unmounting are not
counted); two faults are one during the recovery from
another.  Update counters keep their 16 bits (`Modulus`).  `MaxSuspend` stands
for 2^32-1: suspending at the limit is excluded by the guard of
`SuspendThread`.  Apart from these constants nothing is bounded: there are no
state constraints.

**Symmetry** is used only in runs without liveness properties (`sched`, `mq`,
`mq_isr`, `mutex`, `cond`), over threads that start in the same state and are
never compared, or over mutexes.

**Deadlock** is not checked: all these systems may really stop.  All threads of
an instance may be blocked with no handler left to come, the scheduler idles
when nothing is ready but the idle thread, which calls nothing, a model stops in
`"wild"` and `"isroff"`, and the bounded card instance ends after its last call.
That nobody waits forever is the business of the liveness properties and of
`NoIdlePermit`, `EngineServes`, `IsMonitor` and `IsMailbox`, which say that
nobody waits for what is there.

**Fairness.**

* `LwpSched`: primitives run to completion, handlers return, and the time-slice
  timer, which re-arms itself on each tick, keeps hitting the running threads.
  Kernel steps have strong fairness, because interrupts disable them again and
  again without preventing them.
* `LwpSema`: kernel steps and timers have weak fairness.  `Dispatch` and
  `Return` have strong fairness: a ready thread gets the CPU again and again,
  which holds for time-sliced threads of one priority (this is `RoundRobin`, and
  the reason that run exists) and not for threads of different priorities.
  No fairness is assumed for posts; `EveryWaitServed` states it as a hypothesis.
* `Alarm`: time passes, and the decrementer exception is taken and served.
  Nothing is assumed of the thread inside an insertion.
* `Arq`: the engine ends its transfers, its interrupt is taken, and a thread
  that can run does.  Nothing is assumed of posts.
* `Ipc`: interrupts are taken, threads run, IOS takes what is in the mailbox.
  It answers or reboots each request with strong fairness, because the register
  for replies is taken again and again by others.
* `Card`: a thread in a call runs, reads end, and a command ends, fails or times
  out: the alarm of the timeout is what justifies it.

**Mutants.**  For every property of a passing run, `PROJECT.json` names a faulty
variant of one mapped definition ("faulty" in the comments: a forgotten timer, a
bit that stays set, an overlooked entering thread, a callback armed with the
first part, ...) under which TLC finds the property violated.

## 5. The proofs

TLAPS proves the following for every value of the constants: any set of
threads, alarms or requests, finite or not, any finite set of mutexes, any
number of priorities, buffers and permits, any lengths, intervals and limits.

| module | theorem | statement |
|---|---|---|
| `LwpSchedProofs` | `InductiveInvariant` | `Spec => []IInv` |
| | `TypeCorrect`, `ReadyQueuesConsistent`, `StrictPriority`, `SwitchNeverForgotten` | the same for `TypeOK`, `ReadyQueuesAgree`, `RunsBest`, `SwitchWanted` |
| | `SuspendInvariant`, `SuspendsBalance` | the same for `SuspInv` and `SuspendCountAgrees` |
| | `FirstComeFirstServed` | the action property `FifoOrder` |
| `LwpSemaProofs` | `SemaInvariant` | `Spec => []SemaInv` |
| | `SemaNoIdlePermit`, `SemaInterruptsRestored`, `SemaBlockedAreQueued` | the same for the invariant of the name |
| | `SemaRefinement` | `Spec => IsCountingSema` |
| `LwpMessagesProofs` | `MqInvariant` | `Spec => []MqInv` |
| | `MqBuffersAccounted`, `MqBlockedAreQueued`, `MqInterruptsRestored` | the same for the invariant of the name |
| | `MqIsMailbox` | `Spec => IsMailbox`, if `"isr" \notin Calls` |
| `LwpCondProofs` | `PrioritiesAreRestored`, `OwnersInheritPriorities`, `BlockedThreadsAreQueued` | `Spec => []P` for `PriorityRestored`, `NoInversion`, `BlockedAreInQueues` |
| | `QueuesAreInOrder` | the action property `QueuedByPriority` |
| | `MutexesAreMonitor` | `Spec => IsMonitor` |
| | `ActiveTimersWait` | `CSpec => []TimersOfWaiters` |
| | `WaitersReturnWithMutex` | the action property `HoldsOnReturn` of `CSpec` |
| | `CondIsMonitor` | `CSpec => IsCondMonitor` |
| `AlarmProofs` | `AlarmInvariant` | `Spec => []AlarmInv` |
| | `AlarmTimersInOrder`, `AlarmNextIsArmed` | the same for the invariant of the name |
| | `AlarmRingsWhenWanted` | the action property `RingsWhenWanted` |
| `ArqProofs` | `ArqInvariant` | `Spec => []ArqInv` |
| | `ArqFinishedMeansMoved`, `ArqEngineServes` | the same for the invariant of the name |
| | `ArqStartsInTurn` | the action property `StartsInTurn` |
| | `ArqRefinement` | `Spec => IsServer` |
| `IpcProofs` | `IpcInvariant` | `Spec => []IpcInv` |
| | `IpcRelaunchAlone`, `IpcOwnAnswer` | the same for the invariant of the name |
| | `IpcOneInMailbox` | the action property `OneInMailbox` |

### 5.1 Assumptions

The named assumptions of the modules (`SchedAssumption`, `ThreadQAssumption`,
`SemaAssumption`, `MqAssumption`, `MutexAssumption`, `CondAssumption`,
`WatchdogAssumption`, `AlarmAssumption`, `ArqAssumption`, `IpcAssumption`) say
that limits are numbers, that idle and main differ and main is the better one,
and that "none" is not a thread, mutex, request or result.  `MutexAssumption`
also says that there are finitely many mutexes (there are `LWP_MAX_MUTEXES`
objects): `resCnt` counts those a thread holds.  TLC evaluates the assumptions
in every run.  Four modules need a rule about clients or handlers, which their
theorems state as a hypothesis:

* `LwpSchedProofs`: `GxThreads = {}`, no handler suspends threads.  Without it
  `RunsBest` is false.
* `AlarmProofs`: `EarlyCancel = FALSE`, no handler cancels an alarm between the
  moment `insert` marks it and its first critical section, or just before a
  restart of its search.  Without it the timer of a cancelled alarm is linked.
  (That no handler sets the alarm a thread is working on is a guard of the
  model.)
* `ArqProofs`: `CarefulFlush`, nobody flushes while a part of a low request
  moves.  Without it a transfer is started on a busy engine.
* `LwpMessagesProofs`, for `MqIsMailbox` only: `"isr" \notin Calls`, no handler
  sends.  Without it the increment of `num_pendingmsgs` may lose a handler's
  message, and a receiver sleeps next to it.

Section 6 describes what the code does otherwise.  The theorems about
semaphores, mutexes, condition variables and IPC, and the invariants of the
message queues, have no such hypothesis.

### 5.2 The inductive invariants

None of the checked properties is inductive: they speak of states in which
application code runs, or of one variable, and what happens next is decided by
a half-done kernel call.  Each invariant describes what may be relied on in the
gaps.

* **`IInv`** (scheduler).  `HeirInv` says that the heir is the best ready thread
  *or* that a half-done primitive, in the thread or in a handler, will make it
  so: it names, for each primitive, what its second half still has to repair.
  `OpInv` and `IsrInv` say what a half-done primitive may rely on when an
  interrupt has run in its window (a thread that was put into a ready queue is
  still there).  `IdleReady` gives `CalcHeir` a non-empty queue.
* **`SuspInv`** adds that the suspend bit and the suspend count agree in every
  stage, also for a thread that is transient for the time of a priority change,
  and that an armed suspend or resume still finds the count it has tested.
* **`SemaInv`** and **`MqInv`** share the blocking protocol: the wait is
  announced exactly while its thread is on its way in (`Announced`); the blocked
  threads are the queued ones, the one on its way in and the one on its way out
  (`Membership`, `Leaving`); a running timer belongs to a thread it can find
  (`TimersFindWaiters`).  `SemaInv` adds that no permit lies idle at any moment,
  the one between the halves of a post included; `MqInv` where each buffer is,
  and what the counter may say between the load and the store of its increment
  and before the message is linked (`Buffers`).  In the step `"wild"` (section
  6) the model has stopped and nothing is claimed but types.
* **`BoxInv`** adds to `MqInv` why a thread is in line: a sender because no
  buffer is free, a receiver because all of them are (`Lines`, `TakenOut`).  So
  the one thread queue never holds both, and whoever dequeues finds the kind it
  takes for granted.  It says further that a thread which gives a buffer back or
  takes a free one has nobody before it (`Alone`), that the counter is exact
  when no handler sends (`Counts`), that a thread on its way has not sent
  (`Undecided`), and what a second thread that closes may find (`Closers`).
* **`MonInv`** is stated over the variables of `LwpMutex` with the steps and
  calls of `LwpCond`, so that one proof serves both specifications.  It has the
  blocking protocol for the two kinds of queues, and what is special to mutexes.
  `Locks`: a locked mutex has an owner except while it is handed over, when the
  dequeued thread is its owner to be (`Handing`, `OwnerFor`).  `Priorities`:
  `resCnt` is the number of mutexes a thread holds, and a thread that holds none
  is back at its own priority; the count is what makes `PriorityRestored`
  survive nested mutexes and priorities that are set meanwhile.  `InOrder` and
  `Inherited`: the queues are sorted, and the owner runs at least at the
  priority of each queued thread and of the one on its way in, until a queued
  thread is given another priority (`moved`).  `Searching`: the cursor of a
  search is the first of a group that the search was right to pass, *unless* a
  timeout has taken that thread away in the window, which the search finds out
  from its state and starts again; this is the reason that a thread is never
  put next to a thread that has left.
* **`CondInv`** adds what a thread that returns from a wait is going to be told:
  a thread that locks its mutex again gets it, has it, or carries a result that
  admits that it has not (`Results`, `Gets`), from which `HoldsOnReturn`
  follows; and who announces a sleep is not already out of time (`InTime`).  For
  the refinement it is strengthened by what a sleeper has not been told yet
  (`AsleepInTime`): a thread in the queue has no result of a time limit.
* **`AlarmInv`**.  What the search of an insert has passed is no later than its
  timer, *unless* the insert will see in `_wd_sync_level` or in the timer's
  state that the queue has changed (`PositionOk`, `InsertOk`): this is the
  reason that the search may go on after a window.  An active timer belongs to
  an alarm that is expected to ring, or to the one whose cancel has cleared the
  callback and not yet taken the timer out (`ActiveWanted`, `ClearOk`).  The
  decrementer is armed except in its own handler, which has a due timer
  (`HasDue`).  The parts are predicates of a timer queue and not of the
  variables: within one step the handler fires a timer, a period sets it again
  and a callback sets or cancels another, and each operator is shown to keep
  them (`RemoveKeeps`, `SetKeeps`, ...).
* **`ArqInv`** does the accounts of each request: what has moved, what is on its
  way and what remains is what was asked for (`HighRuns`, `LowRuns`); no request
  is in two places (`Apart`); what waits has not moved (`Untouched`).
* **`IpcInv`** has the meaning of `_ipc_mailboxack`: it is 1 less the request in
  the mailbox, the acknowledge that is pending and the second acknowledge that a
  relaunch has to come (`Credit`).  `OneInMailbox` follows because a request is
  only sent with a credit of 1.  `Places`, `Answers`, `Remembered` and `Alone`
  say who may be where in IOS and whose answer is there.

TLC was asked about each of them before it was proved: `IInv` is an invariant of
the run `sched`; `SemaInv`, `MqInv`, `AlarmInv`, `ArqInv` and `IpcInv` hold at
the bounds of `sema`, `mq_isr`, `alarm`, `arq` and `ipc`, and `MonInv` and
`CondInv` at those of `mutex` and `cond`, `BoxInv` at those of `mq`.

### 5.3 The refinements

`SemaRefinement` maps the line of waiting threads to the queue followed by the
thread on its way in, unless a post has already satisfied it.  Its steps: the
announcement is the abstract wait; `SetState` to `EnqueueFifo` stutter; the
dequeue, or the post that finds `sync` at `NOTHINGHAPPEND`, is the abstract
post; the timer is the abstract timeout whether it finds the thread in the
queue or on its way in; each thread a destroyer dequeues is released.
`ArqRefinement` maps a line to the pending request followed by its queue; parts
of a request and interrupts without an end stutter, and a completion that
starts the next transfer and whose callback posts is one abstract step that
serves one request and admits another.

`MqIsMailbox` goes through one line (`Line`): the thread that has been taken out
and not served, the queue, and the thread on its way in.  By `BoxInv` it is the
line of senders when no buffer is free and the line of receivers otherwise
(`LineView`), and a thread's phase follows from its place in it (`PhaseView`).
A sender has put its message when it links it, not when it takes the buffer or
counts the message; a receiver takes the message in its first critical section,
and the sender it finds gets the room when its message is linked (`Refill`),
until when it is the first of the line; a message is handed over in `Deliver`.
A `GiveUp` is a timeout that takes its thread out of the queue, the enqueue that
finds the time over, and each dequeue of `MQ_Close`; the messages are dropped
when nobody is in line any more.  Everything else stutters.

`MutexesAreMonitor` and `CondIsMonitor` go through the monitor's view of a
mutex: its owner, its depth and the threads that ask for it (`Owners`, `Depths`,
`Askings`).  Each step of the model is first shown to be a *move* of that view
(`MutexMove`): nothing changes, or one thread acquires, enters again, asks,
gives up or leaves, handing the mutex to one that asks.  In the view a mutex
belongs to its next owner from the dequeue on, while the code still removes a
timer, unblocks the thread and writes `holder`; a thread asks from the
announcement of its wait on.  The composition then needs only the line of
sleepers: a thread is in it from the moment it has given up the mutex
(`FallingAsleep`), before it announces its wait, and `Sleep` is the one abstract
step for both.  A dequeue is `WakeFirst`, of a signal or within a broadcast; a
timer that finds its thread in the queue, or on its way into it, is `WakeLate`,
and the thread carries the result "TIMEOUT" from then on (`Late`).

### 5.4 Recursion and induction

Removing a node is a recursive function (`NodeQueue!Unlink`).  What it does (it
is a sequence of the same nodes without the removed ones, without duplicates, in
the same order; it does nothing to a queue without them; it takes off the first)
is proved in `NodeQueueProofs` by induction in the form "a set of numbers that
with each n contains n - 1, and not 0, is empty" (`NoCounterexample`), since the
library's induction theorems take an operator that the provers do not
instantiate.  The search of an insert in a handler is a CHOOSE of the first
place at which it stops; `AlarmProofs` shows with the same principle that there
is one.

### 5.5 Only model-checked

* Liveness (`RoundRobin`, `TimedWaitReturns`, `EveryWaitServed`, `AlarmsRing`,
  `FinishedReturns`, `EveryRequestEnds`, `CallsReturn`): fairness is out of the
  prover's reach.
* The scheduler with GX handlers (`sched_gx`), with the operations named in 3.1.
* The message queue as a mailbox in which handlers send too: `Mailbox` has no
  such sends, and `mq_isr` checks the invariants.
* The memory cards with `FileStore`: section 2, item 10.

## 6. What the checks found

**A file is lost after a format** (`card_format`, `card.c:639`).
`__card_formatregion` fills both directories with 0xff, so that their 16-bit
update counters start at 0xffff; the first update wraps to 0, and
`__card_checkdir`, which compares with `<`, takes the other, empty copy for the
newer one.  `CARD_Create` right after a format succeeds, and the next mount
finds no file.  (`card.h:575-578` calls `CARD_Format` "Not finished function";
`card.h:332` makes no such reservation for `CARD_Create`.)

The models also reach states that a reader of the code should know of.  For
these no document of the repository promises anything that a run could be
measured against; where they would make a property false, a client rule or a
history variable excludes them, and `PROJECT.json` "hazards" names the line.

* A suspended thread runs (`lwp_threads.c:404`).  The second half of
  `clearstate` and `resume` makes its thread the heir without looking at its
  state again; a GX overflow interrupt in the flash window may have suspended
  it.  It runs until the next dispatch and, since it is not ready, gets no ticks
  (`SuspendedRuns`, which `RoundRobin` excepts).
* A suspended thread is put into a ready queue (`lwp_threads.c:313-320`).
  `LWP_YieldThread` takes the executing thread's place in its queue for granted;
  a GX overflow interrupt between its `dispatchdisable` and its critical section
  has taken the thread out, and the yield appends it again.  `ReadyQueuesAgree`
  is false then; `sched_gx` leaves yield out.
* A thread that is given a better priority while it waits its turn brings no
  budget of ticks with it (`lwp_threads.c:439-452`): at a priority that is
  sliced it is not sliced, and `RoundRobin` is false for its neighbours;
  `sched_gx` leaves `changepriority` out.
* Destroying an object enables dispatching before the object is freed
  (`semaphore.c:227`, `mutex.c:175`, `cond.c:225`, `message.c:172`): a thread
  may wait on it in between and be left behind; a message queue works in
  released memory (step `"wild"`).
* `MQ_Send` may return FALSE for a message that is delivered
  (`lwp_messages.c:218`): the waiting path does not reset `wait.ret_code`, so
  that the result of the thread's previous wait is returned.
* `++num_pendingmsgs` is not atomic (`lwp_messages.c:61`): a handler's send in
  it is not counted, and a receiver may sleep next to a message.  The counter
  never promises too much (`BuffersAccounted`).
* With one buffer, a handler's send may take a waiting sender for a receiver
  (`lwp_messages.c:195`).
* A queued thread keeps its place when its priority changes, and a priority is
  not passed on along a chain of owners (`lwp_threads.c:439`; variable `moved`).
* A handler that cancels an alarm between its marking and the first critical
  section of `insert` (`lwp_watchdog.c:126-128`), or between the two sections of
  a restart of the search (138-139), is overlooked (`EarlyCancel`).
* A handler that sets an alarm on which a thread is at work (for example between
  `system_alarm.c:213` and 218) shares its timer with the thread's insert or
  removal; a client rule excludes it.
* `ARQ_FlushQueue` between two parts of a low request forgets it while its part
  still moves (`arqueue.c:183`; `CarefulFlush`).
* The reply to a failed relaunch gives the credit of the mailbox back and sends
  nothing: requests queued meanwhile wait for another call (`ipc.c:380`; `held`).
* `__card_createfatcallback` ignores its result (`card.c:1818`): a directory
  entry may be written without its chain (`doubt`).
* A `card_file` outlives its file (`card.c:551-608`): after a delete or a format
  a write through it goes to the block it held, which may by then be another
  file's; when its entry is free again, `CARD_WriteAsync` follows a pointer that
  was never set (`card.c:2655`).  The first is in the model, and
  `WritesOwnBlocks` speaks of handles whose file is still there; the second is
  excluded by a client rule.
* `CARD_Unmount` during a command takes its interrupt and its timeout away, and
  the caller in `__card_sync` sleeps on (`card.c:2601`; `cut`).

## 7. What is not modelled, and why

The map covers a small part of the repository's lines, and that is the nature of
the repository: most of its lines are vendored code (dlmalloc, lwIP, the
Bluetooth stack, wiiuse, the SMB client), tables (fonts, video modes, semitones),
headers that declare registers and inline assembler, and drivers that write
registers in a fixed order.  Of the code with control of its own:

* **Left out of modelled parts** (`PROJECT.json` has it for each component): the
  register context, stacks and FPU state of threads; join, detach and sleep
  queues; masks of interrupt sources; the allocator of `arqmgr.c`; the heaps of
  `ipc.c` and the services on top of it; the unlock protocol, reading and
  listing of memory cards, and their waiting for the EXI bus; thread timers more
  than 0x7fffffff ticks away (`lwp_watchdog.c:213`).
* **Candidates not done yet**: section 2, 11 to 13.  The object manager's single
  slot is part of each object's module; its table of handles is not modelled.
* **Left out for good**: register and display-list programming (video, audio,
  GX, DSP), device protocols whose behaviour is that of the hardware (disc,
  controllers, SD and USB storage), numeric code (matrices, textures, mixing),
  file-system and network parsers, and third-party code.
