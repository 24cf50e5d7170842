# Verification of the STM32F1xx demonstration programs

This directory holds TLA+ models of the parts of the repository in which
something can go wrong that a test would hardly show, TLC configurations that
check them on small instances, and theorems with proofs that TLAPS checks for
every instance. The models are translated from the source; each definition of a
model is listed with the lines it stands for in `PROJECT.json` (`map`).

Contents: [Inventory](#inventory) · [Modules](#modules-and-how-they-correspond-to-the-code) ·
[Runs](#what-each-run-checks-and-shows) · [Bounds](#bounds) · [Fairness](#fairness) ·
[Proofs](#what-is-proved) · [Only model-checked](#what-is-only-model-checked) ·
[Disagreements](#where-the-code-disagrees-with-its-documentation) ·
[Not modelled](#what-is-not-modelled) · [Plan](#plan) · [How to run](#how-to-run)

## Inventory

The repository is a collection of programs for one board (STM32F103, key inputs,
serial line, SPI flash W25X16, Ethernet controller ENC28J60). Each directory of
`src/Project` is a program: `User/main.c`, its drivers in `HARDWARE`, and
`SYSTEM` (serial line, delays). The programs are linked with libraries kept
beside them: the FreeRTOS kernel (`src/FreeRTOS_202012`, V10.4.3), lwIP 1.4.1
with the repository's own `src/LWIP/lwip_app`, FATFS, cJSON and the vendor's
peripheral library. The source comments are GBK-encoded Chinese. There are no
tests; the documentation is the comments, `lwip-1.4.1/doc`, and assertions.

| Component | State it keeps | Operations | Interacts with |
| --- | --- | --- | --- |
| kernel queue, `queue.c` | items, two event lists of waiting tasks, two lock counters | send, receive, peek, overwrite, the `FromISR` forms, lock, unlock, reset | scheduler (places and wakes tasks), interrupt handlers |
| kernel scheduler, `tasks.c` | running task, ready lists, two delayed lists, pending-ready list, tick count, suspension depth, pended ticks, pending yield | tick, context switch, suspend all, resume all, delay, suspend and resume a task, priorities, timeouts | queues, timers, the port's PendSV and SysTick |
| kernel mutexes, `queue.c`, `tasks.c` | holder, recursion, held count, base and inherited priority | take, give, inherit, disinherit, disinherit after a timeout | queue, scheduler |
| kernel timers, `timers.c` | two timer lists, command queue | start, stop, reset, change period, daemon | queue, scheduler, tick wrap |
| kernel lists, `list.c` | doubly linked lists with a walking index | insert in order, insert at the index, remove | everything in the kernel |
| kernel heap, `heap_4.c` | free list by address | allocate, free and coalesce | task, queue and timer creation |
| event groups, stream buffers | bits; ring of bytes | set, wait, sync; send, receive | no program uses them |
| serial line receiver, `SYSTEM/usart/usart.c` | `USART_RX_BUF`, `USART_RX_STA` | interrupt handler | tasks through a semaphore or a queue |
| binary semaphore program (and the tickless one) | semaphore, command string | `DataProcess_task` | serial line, kernel queue |
| message program, `FreeRTOS队列_中断发送` | `Message_Queue` | handler posts, `show_receive_task`, `check_msg_queue` | serial line, kernel queue |
| SPI flash driver, `W25X16/HARDWARE/FLASH` | chip contents, sector copy `SPI_FLASH_BUF` | write with erase, page program, read, identify | the chip, power supply |
| TCP client, `lwip_app/tcp_client` | connection block, `es`, `tcp_client_flag` | callbacks connected, recv, sent, poll, err; main loop | lwIP raw API |
| UDP client and server | one receive buffer, one flag, remote address | recv callback, main loop | lwIP raw API, ENC28J60 |
| lwIP clock, `lwip_app/arch/sys_arch.c`, `TIM6` | `lwip_timer`, three `last_time` | count, `timer_expired`, `LWIP_Polling` | interrupt and main loop |
| ENC28J60 driver | `enc28j60bank`, `NextPacketPtr` | init, send, receive | the chip, lwIP `ethernetif.c` |
| key scanning, external interrupts | `key_up` | scan, handler | programs |
| suspend and resume, creation and deletion programs | the tasks' lists | key task, handler, `start_task` | scheduler |
| software timer program | two timers | key task, callbacks | kernel timers |
| mutex program | one mutex, three tasks | take, spin with `taskYIELD`, give | kernel mutexes |
| FATFS and SD card, cJSON, displays, sensors, LED, PWM, DMA, watchdog | little or third-party | straight register code | — |

What is hard in them, and what makes each correct:

- **Blocking on a queue.** A blocking call is a dozen critical sections; a
  handler can run between any two, and a tick, a context-switch request or a
  wake-up that falls into the window with the scheduler suspended is written
  down in one of five variables and made good later. Correct means that no
  wake-up and no preemption is lost, that a task on an event list stops
  executing, that a call fails only for a reason, and that the whole is a
  first-in first-out queue.
- **Handler and task on the serial line.** The handler fills a buffer while a
  task reads it, with one bit as the only protection. Correct means that a
  complete line stays as it is until the task lets go of it, and is never left
  behind with nobody told.
- **Writing flash.** Bits can be set only a sector at a time, and a page program
  wraps inside its page; power may fail at any moment. Correct means that the
  driver is a plain store of bytes, with at most one sector at risk.
- **TCP callbacks.** The connection block, the client's own structure and three
  flags describe one connection and are updated by different callbacks; lwIP may
  drop the block at any time. Correct means that they agree.
- **Time.** Counters wrap, the tick is stopped while the processor sleeps, and
  ticks are pended while the scheduler is suspended. Correct means that nothing
  runs early or is overlooked because of it, and that a limit is a limit however
  often its wait was interrupted.
- **Timers.** Commands wait in a queue and age; the daemon's two lists are those of
  two turns of the tick count. Correct means that a list entry means the tick at
  which the timer is due, before and after the wrap.
- **Priorities that move.** A holder inherits, falls back with a mutex or when a
  waiter gives up, and may hold several mutexes. Correct means that no waiter is
  held up by a task below it and that nothing is inherited for good.
- **A chip with a memory of its own.** The ENC28J60 stores frames whenever it
  likes and keeps its registers when only the processor restarts. Correct means
  that what the driver has noted of it is what it is.

The full list, each hazard at its line with the properties that would catch it,
is `hazards` in `PROJECT.json`.

## Modules and how they correspond to the code

### The kernel queue: `KernelQueue`, `BoundedQueue`

`KernelQueue` is one queue shared by tasks and handlers with what its calls drive
of the scheduler. An action is one critical section of the code (or one step
outside a critical section that other contexts can see), so the order of actions
is the interleaving the hardware can produce: a handler or the tick runs between
any two; another task runs only when `vTaskSwitchContext` (PendSV) has selected it.

| Module | Code |
| --- | --- |
| `items`, `cRxLock`, `cTxLock`, `xTasksWaitingToSend`, `xTasksWaitingToReceive` | `Queue_t`; `uxMessagesWaiting` is `Len(items)` |
| `ready`, `xPendingReadyList`, `pxCurrentTCB`, `uxSchedulerSuspended`, `xPendedTicks`, `xYieldPending` | the variables of `tasks.c` of the same names; `ready` is the union of `pxReadyTasksLists` |
| `pendSV` | the PENDSVSET bit |
| `pc`, `op`, `arg`, `wait`, `clock`, `exit` | where a task is in its call, its item, `xTicksToWait`, its `TimeOut_t` |
| `SendPass`, `ReceivePass`, `EnterFail`, `EnterWait` | the first critical section of `xQueueGenericSend` and `xQueueReceive`, by outcome |
| `vTaskSuspendAll`, `prvLockQueue`, `xTaskCheckForTimeOut`, `TestBeforeBlocking`, `vTaskPlaceOnEventList` | the way into sleep |
| `UnlockTx`, `UnlockRx`, `xTaskResumeAll`, `portYIELD`, `TimedOut` | the way out: the two halves of `prvUnlockQueue`, resumption, the yield, the end of a wait |
| `CallDelay`, `DelayPlace`, `DelayReturn` | `vTaskDelay` |
| `xTaskIncrementTick` | SysTick: unblocks, asks for a switch, or is only counted |
| `SendFromISR`, `SendFromISRLocked`, `ReceiveFromISR`, `ReceiveFromISRLocked`, `RefusedFromISR` | the `FromISR` functions by outcome; the handlers yield as the programs' handlers do, with an uninitialised `xHigherPriorityTaskWoken` as a free choice |

Abstractions: the lists are sets from which a task of highest priority is taken
(among equals, any one); a finite wait is `running` until some tick makes it
`expired` (its length is left open, so every length is covered); several pended
ticks are one, because a later tick is possible at any time anyway.

`BoundedQueue` says what callers are promised: an atomic bounded FIFO queue on
which a call takes effect at one moment or fails after having been refused, and
never fails when made with `portMAX_DELAY`. `KernelQueue!Abstract` maps one to the
other; a call's clock, which its first refusal starts, is the abstract `refused`.

### Time in the kernel: `KernelTicks`, `SleepClock`

`KernelTicks` has the tick count in its width, the two delayed lists, the cached
`xNextTaskUnblockTime` and every call whose effect depends on them. The application
is one of several programs, chosen in `Init`: `Does` gives the calls of each task,
`Handles` those of the handlers, `AtStart` the tasks that exist when the scheduler
is started; the other tasks are created by `start_task`.

| Action | Code |
| --- | --- |
| `xPortSysTickHandler`, `CountTick` | the tick: counted and processed, or pended; the exchange of the lists at the wrap, the tasks that are due, the cached time |
| `vTaskDelay`, `Wait`, `Poll` with `vTaskSuspendAll`, `DelayPlace`, `WaitPlace`, `PollPlace`, `Stay` | the way into sleep of a delay, of a limited or unlimited wait (`xQueueReceive` as one of many), of the timer daemon |
| `xTaskCheckForTimeOut`, `Look` | the limit measured again after each wake-up |
| `xTaskResumeAll`, `ReplayTick`, `FinishResume`, `portYIELD_WITHIN_API` | the end of a window: the pending ready list, the pended ticks one by one, the yield |
| `Notify`, `NotifyFromISR` | an event from a task or a handler: `xTaskRemoveFromEventList` |
| `vTaskSuspend`, `SuspendReset`, `vTaskResume`, `xTaskResumeFromISR` | suspension in its two critical sections, resumption |
| `start_task`, `vTaskDelete`, `prvCheckTasksWaitingTermination` | creation, deletion, the idle task's cleaning |
| `IdleTest`, `IdleSample`, `Suppress`, `vTaskStepTick` | the tickless sleep |

`budget` is a history variable: the ticks a limited call may still wait. It is
`Unattended` for a call that has not looked at its limit for a whole turn of the
tick count (49 days), after which the unsigned difference can tell nothing.
`SleepClock` is what is promised: a clock, the ticks each task still sleeps, and
the suspended tasks. The mapping computes the ticks left from the wake time and
the list the task is in.

### Software timers: `KernelTimers`

`KernelTimers` extends `KernelTicks` with the daemon of `timers.c`, its two lists and
its queue of commands. `KernelStep` is any step of the kernel that is not the
daemon's own code; the daemon's steps are made of those of `KernelTicks`
(`Poll`, `PollPlace`, `Stay`, `Notify`), so every behaviour of the timers is one of
the kernel. `xTimerStart` reads the tick count before it posts (`ReadTime`), which
is why a command can be old when it is processed. `due` is the history: the ticks
until each running timer is due.

### Mutexes: `KernelMutex`

Tasks take mutexes in the orders `Takes` allows, wait with or without a limit, and
give them back in any order. The suspended window of `xQueueSemaphoreTake` is one
action; time is left open (a delay or a limit may end at any tick), because
inheritance depends on orders and not on lengths. `slipped` and `retaken` are
histories of the two cases in which the kernel drops a switch: see
[below](#where-the-code-disagrees-with-its-documentation).

### The serial programs: `UartReceiver`, `UartCommand`, `UartMessages`

`UartReceiver` holds the receive register (`DR`), `USART_RX_STA` split into its
count and two bits, `USART_RX_BUF`, and the assembly of a line. The two programs
extend it with their own handler and tasks. In `UartCommand` the steps of
`DataProcess_task` are its accesses to shared state; the semaphore is a BOOLEAN,
the length-one queue of `KernelQueue` in its abstract form. In `UartMessages` the
queue is the abstract bounded queue, printing with interrupts masked is the
window `masked`, and the higher-priority task may run wherever it is not masked.
`typed`, `patient` and `line` belong to the environment and serve the properties:
`typed` is what the person at the terminal takes the line to be.

`DataProcess_task` copies the line with `sprintf` from a buffer of 200 bytes to
`CommandStr`, which has 30 (`CommandSize`). `sprintf` stops at the first NUL of the
buffer and not at the length of the line, so that remains of an earlier line that
was broken off count too. `Copy` is the copy that fits; `CopyOverruns` is the one that
does not, and leaves the task at "overrun", where the model says nothing more of
it, as what the program does then is undefined. `overlong` is the history that tells
the two apart from outside: whether a line typed since the last answer had
`CommandSize` bytes or more.

### The flash driver: `SpiFlash`, `ByteStore`

One action per command of the chip, because the driver waits for the chip after
each: `ReadSector` (read and examine), `EraseSector`, `ProgramPage`. The chip is
external: a page program ANDs bytes onto cells and wraps inside its page, an erase
sets a sector. `PowerLoss` can come before a command or in the middle of it, with
any subset of its changes made. `ByteStore` is what the caller is promised; the
mapping shows the bytes the present page run will have written as already there.

### The TCP client: `TcpClient`

Each callback is one action (lwIP and main are one thread); `Drop` is lwIP giving a
connection up by itself; main's loop is `ShowData`, `Key0Pressed`, `Key1Pressed` and
`Reconnect`. The pool of blocks is the linked list of `memp.c`: `memp_free` makes a
block the head without looking whether it is in the list already, `memp_malloc` hands
out the head and makes its link the head, and the link is the block's first word,
which holds `local_ip` while the block is in use. A block released twice is therefore
linked to itself, the rest of the list is lost, and the head of the list stays that
block while the next connection uses it. `fault` records that a block
that was free, or a pbuf, was released once more. `tcp_client_connection_close` is one step: between
its `tcp_abort` and the removal of the callbacks lwIP calls only `tcp_client_error`,
which is empty, and the fields cleared lie behind the first word, so the list does
not change. `orderly` is the environment: a server that never resets or
refuses, and a user who does not press KEY1.

### The lwIP clock: `LwipTimer`

`TIM6_IRQHandler` counts; `Test` and `Run` are the two halves of `timer_expired`, the
first read of `lwip_timer` in the comparison and the second in the assignment. The
variable is not `volatile`, so the second may also be the value already read.
`since` and `gap` count true ticks and appear in no guard but the assumption that
the main loop comes round within `MaxGap` ticks. `Restart` is a reset of the
processor.

### The UDP server and its Ethernet chip: `Enc28j60`, `UdpServer`, `FrameChannel`

`Enc28j60` holds the chip (its register bank, its receive ring, its frame count,
its transmitter: external, as far as the driver relies on them) and the driver:
`ENC28J60_Reset` and `Configure` are `ENC28J60_Init`, `ReadCount`, `Fetch`, `Free` and
`CountOff` are `ENC28J60_Packet_Receive` by its accesses to the chip, between any
two of which a frame may be stored. `RestartDriver` resets the processor alone.
`UdpServer` composes it with `LwipTimer`: `main` initialises the chip until that
succeeds, then polls; the timers' work and the answers send frames; the receive
callback fills `lwip_recv_buf`, and `Show` prints and clears it. `FrameChannel` is what
is promised: the frames the chip has stored (`Waiting`: those in its ring from
`NextPacketPtr` on, and the one the driver has read) are taken in order, and a datagram
is shown before the next one is taken. Broken frames and those for other programs pass.

Assumptions: the pool of pbufs suffices; the wait for a receiver that is busy and
the configuration of the chip are one step each; `EPKTCNT` cannot reach its limit
of 255 in a ring of 8 KB; ARP, addresses and ports are left out, so that an answer
is a frame sent or nothing; the work of another timer sends one frame (an ARP query,
or the "time exceeded" of `ip_reass_tmr`) or none; while `ENC28J60_Init` runs, no more than `MaxGap` ticks go by.

## What each run checks and shows

| Run | Checks | Shows |
| --- | --- | --- |
| `queue_locking` | `NoLostReceiver`, `NoLostSender`, `BlockedTaskDoesNotRun`, `HighestPriorityRuns`, `IInv`, `ForeverNeverFails` | with two equal tasks and one above them, a queue of one slot, handlers that send and receive, and ticks anywhere: no wake-up is lost to the locked window, a sleeping task does not execute, a due preemption is never missed, `portMAX_DELAY` never fails |
| `queue_order` | `ImplementsBoundedQueue`, `TopReceiverServed` | with two slots and two values: the chain of critical sections is a FIFO queue; a receiver of highest priority gets through |
| `uart_command` | `TypeOK`, `NoStuckLine`, `CommandIsLine`, `LineFrozen`, `LineFinished` | a complete line stays untouched, is never left behind, is dealt with; and for a terminal that waits, the command carried out is the line typed, or the copy runs over its array, and that exactly when a line since the last answer had no room there |
| `uart_command_spurious` | `SemaphoreMeansLine` (violated) | the semaphore is also given when no new line is there |
| `uart_messages` | `TypeOK`, `SizesAgree`, `MessageStartsWithLine` | the sizes printed belong to one moment; a message begins with the line taken |
| `flash_write` | `TypeOK`, `CallersKeepConditions`, `OtherSectorsKept`, `ImplementsByteStore` | the driver is a store of bytes; only the sector being written is at risk |
| `tcp_client` | `TypeOK`, `OneConnection`, `PoolAccounted`, `NoLeak`, `Replaced` | no second connection; until a block is released twice, the list of free blocks holds exactly the blocks that are free, each once, and after that it is main's block alone; with an orderly server no leak and a closed connection is replaced |
| `tcp_flag` | `FlagMeansConnected` (violated) | a reset leaves the client convinced that it is connected |
| `tcp_block` | `BlockFreedOnce` (violated) | main releases a block lwIP has released |
| `kernel_time` | `TimersTypeOK`, `TickInv`, `HighestPriorityRuns`, `TimeLimit`, `TimerInv`, `DaemonWakesInTime`, `ImplementsSleep` | over six programs, among them those of suspension, deletion, tickless sleep and timers, and one that mixes their calls: sleeps have their length across the wrap and across a stopped tick, a limit never starts over, each timer is called in its turn, the daemon never oversleeps, the highest ready task runs |
| `kernel_mutex` | `TypeOK`, `NoInversion`, `HighestPriorityRuns` | holders are as high as those that wait, whoever gives up; nothing inherited outlives its cause; a due switch is made, but for the two cases named |
| `lwip_timer` | `NeverEarly`, `NeverOverlooked`, `ServerInv`, `ImplementsFrameChannel`, `EveryDatagramShown` | in the whole UDP server: no timer early or overlooked across the wrap; driver and chip agree at every step although only one of them may restart; the frames stored are taken in order, once each, and a datagram is shown, and before the next overwrites it |

Every property of a passing run has a mutant of the code (`mutants`) under which
TLC finds it violated. The mutated forms stand beside the originals, marked
"Mutant:", and are used by nothing else.

## Bounds

- `queue_locking`: one slot makes full and empty adjacent, so every refusal
  happens; four tasks (one high, two equal, idle) are the fewest with both
  preemption and time slicing, and one of the equals both sends and receives.
  `LockMax` = 2 stands for `queueINT8_MAX` = 127: a count above one needs two
  handlers in one window, and with one slot this is a send, a receive and a send.
  At the bound handlers stop, as `configASSERT` stops the program.
- `queue_order`: two slots and two values are the fewest in which order is
  visible. `LockMax` is 1 here because larger windows are the other run's subject.
- `uart_command`: a buffer of 4 bytes instead of 200, a copy of 3 instead of 30, and
  two letters: lines of none to three bytes, which fit the copy, do not, or overrun
  the buffer, and remains of older lines behind newer ones, which alone can make the
  copy overrun. `uart_messages`: 3 bytes and a queue of one message, so that it is
  full after every line.
- `flash_write`: two sectors of two pages of two bytes; texts of 0, 1, 2 and 5
  bytes at every address touch one page, a page boundary, a sector boundary, and
  both sectors with several pages. Cells hold 0, 1 or 3 (erased) of two bits.
- `tcp_client`: three blocks and room for two `es`, so that the pool and the heap
  both can run out of what a correct client would need, and so that a list of two
  free blocks is lost when the third is linked to itself.
- `lwip_timer`: a counter of four values and rounds of up to 2 ticks (`MaxGap`), so
  that the wrap is met in every phase; a ring of three units with datagrams of one
  and two, so that frames wrap round its end, it fills, and it empties; any number
  of restarts. With `SendRounds` = 0 main sends in every second round, so that its
  own datagrams meet every state of the chip. (1.1 million states, 3 minutes, of which liveness is the most.)
- `kernel_time`: `Width` = 6 lets delays of 1 to 4 ticks start and end on either side
  of the wrap and leaves `portMAX_DELAY` = 5 distinct from them. `MaxPended` = 2 ticks
  in one window (two are the fewest that are replayed one by one),
  `MaxSuppressed` = 3 ticks of sleep with the tick stopped, less than the longest
  sleep, so that one is cut into several. `QueueLength` = 2 commands; `MaxBehind` = 2:
  neither a command nor a timer falls further behind, which covers a command sent
  before the wrap and processed after it. The bound is a condition on what each step
  of the kernel leads to (`KeepsUp'`), pended ticks included. (0.48 million states, 1.5 minutes.)
- `kernel_mutex`: two mutexes, one task that takes one inside the other, two tasks of
  equal priority and two above: every waiter can be overtaken, give up and retry.
  (1.1 million states.) That only one task nests is a restriction, see
  [below](#where-the-code-disagrees-with-its-documentation).

Deadlock is checked in every run.

## Fairness

- `KernelQueue!FairSpec`: a pending switch is made (PendSV is an exception that is
  taken as soon as no higher one is active), and each task that can again and again
  take the next step of its call takes it: interrupts do not consume all the
  processor's time. Strong fairness, because a step is disabled while another task
  or a pending switch has the processor. Nothing is assumed of application code:
  new calls, ticks and handlers may stop for ever.
- `UartCommand!FairSpec`: the interrupt is served, and `DataProcess_task` is
  scheduled; it shares its priority level with nobody that keeps the processor.
- `UdpServer`: the main loop goes on (nothing keeps the processor for ever; handlers
  are short), TIM6 counts, and a transmission the chip has begun ends. Nothing is
  assumed of arrivals, of `ENC28J60_Init` succeeding, or of restarts, which may come
  without end.
- `KernelTicks`, `KernelTimers`, `KernelMutex` state safety only: their promises are
  about the tick at which something happens, not that it happens some time.
- `TcpClient!FairSpec`: main's counter reaches 200 again and again (`Reconnect`), and
  lwIP's slow timer polls each connection. The polls are strongly fair because a
  press of KEY0 turns the poll into one that sends; presses are rarer than polls.

## What is proved

`KernelQueueProofs` proves, for every set of tasks, every assignment of priorities
with the idle task below all others, every length and every bound `LockMax`
(assumption `QueueAssumption`):

- `TypeCorrect`: `[]TypeOK`;
- `Inductive`: `[]IInv`;
- `ReceiversWoken`, `SendersWoken`: `[]NoLostReceiver`, `[]NoLostSender`;
- `SleepersStop`: `[]BlockedTaskDoesNotRun`; `Preemptive`: `[]HighestPriorityRuns`;
- `ForeverWaits`: `ForeverNeverFails`;
- `Refinement`: `Spec => ImplementsBoundedQueue`.

The inductive invariant `IInv` is the conjunction of named parts:

- `WindowInv`: only the running task is inside the suspended window, and how far it
  has got determines the suspension and both lock counters;
- `CallInv`: which program counters go with which operation;
- `ListInv`: where each task is linked; a task off the ready list that is not yet
  asleep is in the rest of its window or about to yield;
- `YieldInv`: the running task is of highest priority, or a switch is pending or
  remembered in `xYieldPending` until the scheduler resumes;
- `ClockInv`: only finite waits expire;
- `PlaceInv`: between the test of the queue and the event list, what handlers have
  changed is in the lock counters;
- `NoLostReceiver`, `NoLostSender` themselves.

`PlaceInv` is what makes the wake-up properties inductive: when a receiver puts
itself on the event list, every item that came in since the queue was found empty
is counted in `cTxLock`, and `UnlockTx` wakes one receiver for each count. For the
other steps the argument is a count: a step that adds an item adds a looker or a
count, a step that loses a looker removes an item or has just found the queue
empty; the lemmas on `Cardinality` at the head of `KernelQueueProofs` carry it.
`SleepersStop` follows from `ListInv`, `Preemptive` from `YieldInv`, `ForeverWaits`
from `ClockInv` and `CallInv`, and `Refinement` maps each action to the abstract
action or a stutter under `IInv`.

`KernelTimeProofs` proves of `KernelTicks`, for every program, set of tasks and
objects, width of the tick count and bounds (`TicksAssumption`):

- `TypeCorrect`: `[]TypeOK`; `TicksInOrder`: `[]TickInv`; `HighestAlwaysRuns`:
  `[]HighestPriorityRuns`;
- `LimitsAreKept`: `[]TimeLimit`; `KernelKeepsTime`: `Spec => ImplementsSleep`.

The inductive invariant `IInv` adds to the type and `TickInv`: only the running task
is inside a suspended window (`Control`), a waiting task is asleep or suspended
(`EventItems`), a running task that is not ready is on its way to a yield (`Leaving`),
a call that may still sleep has ticks left (`TicksLeft`), the processor sleeps no
longer than to the next unblocking (`SleepEnds`), and a switch that is due is pending
or remembered (`Requested`). `SleepEnds` is what makes `vTaskStepTick` a `Jump` of the
abstract clock: no sleep ends inside the suppressed time. For `TimeLimit` the
invariant `WaitInv` relates `budget` to `xTicksToWait`, the time of entering and
`overflowed`: as long as a wait is attended, the budget is what the last measurement
left less the ticks since, and it is the sleep that remains while the task sleeps.

Of `KernelTimers` it shows that each step of `TimersSpec` is one of `Spec` or a stutter
(`TimersUseTheKernel`), and so carries all of these over to the timers' programs. Its
own invariant `Turns` says that a timer in the other list expires at a time the
daemon has already seen in this turn, so that the daemon never goes to sleep for no
ticks at all, which a wait of the kernel cannot do. Of the timers themselves:

- `TimersTypeCorrect`: `[]TimersTypeOK`; `TimersInOrder`: `[]TimerInv`;
  `DaemonNeverOversleeps`: `[]DaemonWakesInTime`.

They need `DaemonAssumption`, which says what makes `timers.c` work in these programs:
the daemon outranks every other task (`configTIMER_TASK_PRIORITY` is the highest
priority there is), nothing else suspends or deletes it or posts to its queue, and the
queue has room for a command of each timer. The argument:

- `DaemonWaits`: the daemon is off the ready list only for its own queue, with no
  command under way (`KernelNotPlaced`: no other step of the kernel puts it to sleep).
  So when a task of lower priority runs its own code, the daemon is asleep and its
  queue empty, and a user's command is always alone in the queue
  (`UserFindsDaemonAsleep`).
- `DueInv`: the lists say when each timer is due (`RightLists`); the time in a list is
  no more than a period ahead of the time the daemon last read (`Ahead`), so that a
  timer that keeps up sees no turn of the tick count go by that the daemon has not
  found (`TurnOfTimer`); a command bears the tick from which its timer's period counts
  (`CommandTimes`); the daemon's own commands are for distinct timers that are in no
  list (`Queued`); and what the daemon's local variables mean at each step (`Locals`).
- `RightTurn` is the heart of it: what `prvInsertTimerInActiveList` decides from the
  expiry time, the time now and the time of the command, each of which may lie on
  either side of the wrap, is right whenever fewer than `Width` ticks lie between them.
- `Room`: the commands in the queue are for other timers than the one at hand, so by
  counting there is room for one more.
- `Wakes`: the ticks the daemon has left to sleep are no more than those until the
  first timer is due. The refinement to `SleepClock` gives the step: whatever the
  kernel does, a sleeper's time shrinks by the ticks counted (`SleeperCounts`).

`UdpServerProofs` proves, for every set of timers, width, intervals and `MaxGap` with
`Interval + MaxGap <= Width` (`TimerAssumption`), every size of ring and of frames, and every
`Order` that asks for each timer once (`ServerAssumption`; each has its own `last_time`
in `LWIP_Polling`):

- `DifferenceTrue`: the unsigned difference is the true elapsed time (by the inductive
  `TimerInv`), and from it `Early` and `Overlooked`;
- `ServerUsesTheClock`: the server's steps are steps of the clock or stutters;
- `DriverAndChipAgree`: `[]ServerInv`. The inductive invariant says that the frames
  lie in the ring one behind the other and none reaches into one still to be read
  (`InRing`, `Spaced`), and what the driver has noted of the chip at each of its steps
  (`DriverAgrees`): the bank, where the next frame starts, how many are counted.
  `OneFrameARound` says why a frame always finds `lwip_recv_buf` free: a round asks for
  the input timer once, and the main loop shows the datagram before the next round;
- `FramesInOrder`: `ServerSpec => ImplementsFrameChannel`. Through `Waiting`, the arrival of
  a frame is `Arrive` (`ArrivalWaits`), reading one leaves it waiting with the driver or,
  if it is broken, is `Pass` (`FetchedWaits`), freeing its memory changes nothing for the
  others (`FreedWaits`, with `FromSecond`: behind the first frame lie exactly the others),
  and `ethernetif_input` is `Take` or `Pass` (`InputTakes`).

`KernelMutexProofs` proves, for every set of tasks and mutexes, every assignment of
priorities and every nesting `Takes` (`MutexAssumption`):

- `TypeCorrect`: `[]TypeOK`; `HighestRuns`: `[]HighestPriorityRuns`, both from `GInv`:
  what a task holds, counts and is recorded as the holder of is the same (`Owned`), no
  call wants what its task holds (`Calls`), a task in an event list is asleep and in it
  once (`Queues`), the running task is ready unless a switch is pending (`Running`);
- `NoInversionProved`: `OneAtATime => (Spec => []NoInversion)`, where `OneAtATime` says
  that no task takes a mutex while it holds another. `Parts` is what is needed beyond
  `GInv`. An event list keeps its tasks by their own priority (`Lists`), because a task
  that waits holds nothing and so has inherited nothing (`Single`). When a mutex is
  given back, the task woken is as high as each that stays (`Covered`); whoever takes
  it instead is the running task and so, by `HighestPriorityRuns`, as high as the one
  woken. From there on the holder is raised by each task that comes to wait and falls
  back to the highest of those that stay (`Served`), and as long as it is above its
  own priority there is a call that has lent it one and will take it back (`Caused`).
  The assumption cannot be dropped: see
  [below](#where-the-code-disagrees-with-its-documentation).

`SpiFlashProofs` proves, for every size of pages, sectors and chip, every set of bytes
and texts (`FlashAssumption`: a sector is whole pages, and programming an erased cell
leaves what was programmed):

- `TypeCorrect`: `[]TypeOK`; `ConditionsKept`: `[]CallersKeepConditions`; `OthersKept`:
  `OtherSectorsKept`;
- `Implements`: `Spec => ImplementsByteStore`.

The inductive invariant says that the rest of the text lies on the chip and
`secremain` is what of it fits into the present sector (`CallInv`), that before an
erasure the buffer is a copy of the sector (`EraseInv`), and that what is still to be
programmed lies in the present sector, at erased cells, `pageremain` being what of it
fits into the page (`ProgramInv`). Two lemmas carry it: `Remains`, on how much of a run
of cells fits into the unit its first one is in and that from there on whole units
follow, used for pages and for sectors; and `ProgrammedInPage`, that a page program
whose bytes fit does not wrap. For the refinement the bytes that are still to be
programmed count as stored, so that erasing a sector is the step that stores.

`TcpClientProofs` proves, for every pool of connection blocks and size of the heap,
`[]TypeOK`, `[]OneConnection`, `[]PoolAccounted` and `[]NoLeak` (`TypeCorrect`,
`OneAtATime`, `PoolIsAccountedFor`, `NothingLeaks`), and that the callbacks are set
only while their argument is an `es` in use, what the assertion at `tcp_client.c:52`
asks (`ArgumentsInUse`). The invariant adds that main's block, the only one that
is ever released, is the head of the list while it is free (`Pooled`), that only an
established connection has an `es` (`Linked`), that the `es` of the connection is
counted in the heap, and that with an orderly server nothing else is and the flag
`LWIP_CONNECTED` is set as long as there is one (`Allocated`): without that, main
would reconnect over it.

`UartCommandProofs` proves, for every size of the buffer and of the copy and every set of characters,
`[]TypeOK`, `[]NoStuckLine`, `LineFrozen` and `[]CommandIsLine` (`TypeCorrect`,
`NeverStuck`, `Frozen`, `CommandIsTyped`). The last rests on `Understood`: with a
terminal that waits, nothing comes in while a line is being dealt with, and the
buffer holds what the terminal takes for its line once the byte under way has been
looked at; and on `Recorded`: the buffer is written from its start up to some byte and NUL
from there on (`Written`), and `overlong` says whether that, with the byte under way
(`Coming`), is as much as the copy has room for or more. `UartMessagesProofs` proves `[]TypeOK`, `[]SizesAgree` and
`MessageStartsWithLine` (`TypeCorrect`, `OneMoment`, `LineComesFirst`): the buffer
begins with the line the handler is taking (`LineInv`), and interrupts are masked from
the first read of the queue's length on (`SizeInv`).

## What is only model-checked

- Liveness (`TopReceiverServed`, `LineFinished`, `Replaced`,
  `EveryDatagramShown`) is beyond the prover.
- `KernelMutex!NoInversion` for the task that nests; the theorem is about tasks that
  take one mutex at a time.

## Where the code disagrees with its documentation

Three runs with the expectation "violation" (`findings` in `PROJECT.json`):

1. `uart_command_spurious`: `usart.c:89` gives the semaphore on every interrupt that
   finds a complete line, not only on the one that completes it.
2. `tcp_flag`: `tcp_client_error` is empty, so a reset leaves `LWIP_CONNECTED` set and
   main never reconnects.
3. `tcp_block`: `tcppcb` is closed by main although lwIP has released it, after KEY1
   (`main.c:104`) or to reconnect (`main.c:115`). The list of free blocks is then a
   block linked to itself.

Others were met while modelling and have no run: `tcp_client_poll` aborts the
connection and returns `ERR_OK` where `doc/rawapi.txt:288` asks for `ERR_ABRT`;
`tcp_client_poll` frees a pbuf that `es->p` still points to (the model records it in
`fault`); `flash.h:9` defines the identity `0XEF16` where the comment at `flash.c:42`
gives `0XEF14`, and main waits for the former. That `sprintf` in `DataProcess_task`
copies up to 200 bytes into 30 is no disagreement with a text of the repository; when
it overruns is part of `CommandIsLine`.

And in the kernel's mutexes and the Ethernet driver:

- The comment in `xTaskPriorityDisinherit` wants a context switch when the last mutex
  is returned, whether or not a task is waiting on it. `xQueueGenericSend`
  (`queue.c:813`-`892`) looks at that return value only when nobody waits: with a task
  waiting the switch depends on that task alone. A giver that falls below a third
  task then runs on until the next switch. The model keeps this (`slipped`), and
  `HighestPriorityRuns` is stated with the exception.
- `vTaskPriorityDisinheritAfterTimeout` can raise the holder: if the first of those
  that wait on has itself inherited a priority after it began to wait (it holds
  another mutex, and inheritance is not handed down a chain), the end of another
  task's limit gives the holder that priority, and no switch follows. The model keeps
  this too (`slipped`). Two tasks that nest are needed; with the `Takes` of
  `MCKernelMutex`, where one does, it does not happen.
- An event list is not sorted again when a task in it inherits a priority, and a task
  that had inherited one when it began to wait has handed it to the holder, from whom
  nobody takes it back when the task leaves with its own. With tasks that wait for one
  mutex while they hold another, a holder can therefore stay below, or above, those
  that wait. TLC shows it for four tasks of priorities 2, 2, 3 and 4, the first of
  which takes `inner` inside `outer`, the second and third `inner`, the fourth
  `outer`. `NoInversion` is proved without such tasks and checked for one whose
  partners do not meet this; the repository's program takes one mutex.
- `configASSERT( xInheritanceOccurred == pdFALSE )` at `queue.c:1552` fails when a limit
  has passed, the mutex was free for a moment and somebody takes it before the call
  looks again. The model goes on as a build without assertions does (`TakeAgain`).
- A task that holds another mutex keeps an inherited priority until it has given all
  of them back, as the comment at the code says.
- `EIR.TXERIF` is never cleared: after one transmit error each later frame is reset
  right after it was started.

## What is not modelled

`components` in `PROJECT.json` lists every part with its status and reason. In short:
third-party code that the programs only call (lwIP itself, FATFS, cJSON, the vendor
library), programs that are straight register code (LED, PWM, DMA, watchdog,
displays, sensors), kernel features no program enables (co-routines) or uses
(event groups, stream buffers, queue sets, task notifications, recursive mutexes,
changed priorities). Of the kernel, memory layout, the heap and the assembly of the
context switch are outside: a context switch is one action. Of the programs, key
scanning is a free input. Hazards that stay without a property are in `hazards`
with the reason.

## Plan

Done: the kernel queue with its abstract queue, the serial programs, the flash driver,
the TCP client, time in the kernel with its abstract clock, software timers, mutexes,
and the UDP server on its clock and chip, each with its proofs.

Next, in this order:

1. `QueueRing`: `prvCopyDataToQueue` and `prvCopyDataFromQueue` on the ring of bytes,
   shown to implement the sequence `items`.
2. `KernelHeap`: first fit, split and coalesce; blocks tile the heap.
3. `KeyScan` and the card commands of `mmc_sd.c`.

## How to run

    tlc -workers 2 -config MCKernelQueue.cfg MCKernelQueue
    tlapm KernelQueueProofs.tla

The module and configuration of each run are in `PROJECT.json`. The longest runs
(`lwip_timer`, `queue_order`, `kernel_time`, `flash_write`, `uart_command`) take one to
three minutes with two workers; the proofs take some fifteen minutes together, a third of it for
`KernelTimeProofs`.
