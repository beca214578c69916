# Zigbee shelf-label router: a verification project

The program is the firmware of a Zigbee router that serves an electronic shelf label (ESL), for the STM32WBA55. It runs on bare metal: a
cooperative task sequencer in the main loop, interrupts of several priorities that preempt it, and a software timer server on one RTC
alarm, whose callbacks run in the alarm's interrupt. The Zigbee stack, the MAC and the link layer are binary libraries. The repository
holds the application, the platform layer below it, the utilities, and the vendor's drivers as source.

This directory holds TLA+ modules translated from the source, TLC configurations that check them on small instances, and TLAPS proofs for
all values of the constants. `PROJECT.json` lists the components, the runs, one mutant per property, the source lines every definition
models, the hazards and the theorems.

A *mutant* replaces one mapped definition by a faulty variant of it, which stands in the section "Faulty variants" of the same module, or under
the comment "A bug to catch"; the run must then find the property violated. It shows that the property constrains the code and is not
true by the shape of the model.

## 1. Inventory

### 1.1 Execution contexts

Every interleaving below comes from these contexts. A context runs only while none with a higher priority is active
(a smaller NVIC number preempts a larger one), and a section with interrupts disabled (`UTILS_ENTER_CRITICAL_SECTION`) is not preempted at all.

| Context | Code it runs |
|---|---|
| main thread | `UTIL_SEQ_Run`, hence every task: the network-form task, the stack, the random-number task, the memory task |
| push-button EXTI, priority 15 | `BSP_PB_Callback`, and through it the short-press action of the ESL server |
| link layer's software interrupt, priority 15, or 5 when it is triggered as urgent | the part of the link layer the radio's interrupt leaves for later |
| USART1 and its two DMA channels, priority 7 | `HAL_UART_IRQHandler`, `HAL_DMA_IRQHandler`; `TRACE_TxCpltCallback`, the serial commands |
| RTC, priority 4 | `UTIL_TIMER_IRQ_Handler` and all timer callbacks: LED pattern, long press, report, join |
| RCC and TIM16, priorities 1 and 0 | `scm_hserdy_isr`, `scm_pllrdy_isr`, the end of the oscillator's stabilisation |
| radio, above the RTC | the link layer; takes random numbers, sets tasks, changes the system clock |

Beside the core, hardware goes on by itself: the DMA moves words, oscillators start or fail to, the generator fills its register, the
calendar counts. These are actions of their own in the drivers' modules.

### 1.2 Components

| Component | State | Operations | Interacts with |
|---|---|---|---|
| Sequencer, `Utilities/stm32_seq.c` | `TaskSet`, `TaskMask`, `SuperMask`, `EvtSet`, `EvtWaited`, `CurrentTaskIdx`, priority and round-robin masks, the C stack of nested `UTIL_SEQ_Run` | `SetTask`, `PauseTask`, `ResumeTask`, `SetEvt`, `ClrEvt`, `WaitEvt`, `Run`, idle | every task, every interrupt |
| Timer server, `Utilities/stm32_timer.c`, `timer_if.c` | list of timers, time context, RTC alarm | `Create`, `Start`, `StartWithPeriod`, `Stop`, `SetPeriod`, alarm interrupt | application timers, RTC driver |
| Join procedure, `app_zigbee.c` | `eJoinStatus`, `eZbStartupWaitStatus`, startup event, two timers | network-form task, stack callback, two timer callbacks | sequencer, timers, stack, LED |
| ESL server, `app_zigbee_endpoint.c`, `esl_cluster.c` | `currentEslData`, status attribute, report timer | display command, short press, periodic report, factory reset, leave confirmation | join procedure, stack, buttons, LED, display |
| Push buttons, `app_bsp.c` | per button: waiting time, long-press flag, timer | edge interrupt, timer callback | timers, ESL server |
| Indicator LED, `app_bsp.c` | `ledControl`, the LED | pattern start, pattern timer | timers; the join procedure blinks the same LED |
| Serial commands, `serial_cmd_interpreter.c`, `app_bsp.c` | receive buffer and index | a received character, a finished line | UART, buttons' flags, sequencer |
| Random numbers, `hw_rng.c`, `hw_pka.c` | pool, state of the generator, users of its clock | `HW_RNG_Start`, `Process`, `Get`, `HW_PKA_Enable` | sequencer, link layer |
| Memory manager, `advanced_memory_manager.c` | reservations, counters, waiting callbacks | `AMM_Init`, `Alloc`, `Free`, `BackgroundProcess` | sequencer, heap |
| Heap, list, queue, `stm32_mm.c`, `stm_list.c`, `stm_queue.c` | blocks linked by address; nodes; a ring of bytes | allocation and release; insertion and removal; add, remove, look | memory manager, link layer |
| Trace buffer, `stm32_adv_trace.c`, `adv_trace_usart_if.c` | ring, read and write pointers, unchunk state, lock counter | `UTIL_ADV_TRACE_Send`, completion interrupt | every context that logs, UART |
| System time, `stm32_systime.c` | a difference in two backup registers | set, get, add, subtract, to and from a date | RTC |
| Clock manager and low power, `scm.c`, `stm32_lpm.c` | requests of the users, targeted clock, radio state; masks of users | requests, ready interrupts, radio on and off, enter and leave stop and standby | RCC, radio, idle hook |
| Link-layer glue, `linklayer_plat.c` | three nesting counters, the saved mask, priorities and pending state of two interrupts | disable and enable, all or one; trigger the software interrupt | link layer |
| UART, `hal_uart.c`, `hal_uart_ex.c` | handle: two states, counts, buffers, ISR in use; the peripheral's FIFOs, flags and enables | transmit and receive by polling, interrupt and DMA; pause, resume, stop, aborts; idle-line reception; interrupt | DMA, console |
| DMA, `hal_dma.c`, `hal_dma_ex.c` | channel and handle; queues of linked nodes in memory | start, poll, suspend, resume, abort, interrupt; build, insert, remove, replace, join, convert queues | UART |
| RTC driver, `hal_rtc.c`, `hal_rtc_ex.c` | lock, state, write protection, flags and enables of alarms, wake-up, time stamp, tampers | set, get, deactivate, poll, interrupts | timer server |
| Clock tree, `hal_rcc.c`, `hal_rcc_ex.c` | oscillators, PLL, source, prescalers, selections | oscillator, clock and peripheral-clock configuration | clock manager, start-up |
| Generator's driver, `hal_rng.c`, `hal_rng_ex.c` | lock, state, interrupt enable, errors | initialise, configure, read by polling and by interrupt, recover | random numbers |
| Flash and one-time area, `hal_flash.c`, `hal_flash_ex.c`, `otp.c`, `hw_otp.c` | the lock and the procedure under way, control and status registers; slots of the area | program, erase, option bytes, by waiting or by interrupt; lock, suspend; write and read a record | the memory, resets |
| Cryptography, `hw_aes.c`, `BasicAES`, `hw_pka.c`, `hw_pka_p256.c` | the AES engine, the chaining value, who has the accelerator and its operands | ECB, CMAC in pieces, CCM, the operations of P-256 | the stack, which calls them; one engine each |
| Start-up, text formatting, other drivers | | | section 7 |

### 1.3 What is hard, and what makes each component correct

- **Sequencer.** Interrupts change every mask between any two statements of the selection; a callback that waits runs the others in a
  nested `UTIL_SEQ_Run`. Correct: the inner loop over priorities, which has no bound, always finds a task; what is called is pending and
  allowed; a waiting callback is not entered again; each level of nesting restores what it changed; no pending task is slept over or starved.
- **Timer server.** A start tests before its critical section; a stop races its own alarm; time stamps are relative to a context that
  moves; several timers expire at one alarm. Correct: every running timer is linked once, the alarm serves the head of the list, no callback comes early
  or is delayed without bound.
- **Join.** The status is preset to SUCCESS before the wait; attempts fail in three places; timers run across attempts. Correct: the device is
  taken for joined only if it is, never gives up, and stops blinking.
- **ESL server.** Four contexts read and write `currentEslData` without a lock. Correct: shown and valid data is one message's, however a command is interrupted; what a press or a reset in the middle of one makes of it
  is bounded: fields of the last message, of the data before it, or cleared ones, each in its known place.
- **Button, LED, console.** Handler and timer interrupt share a descriptor without a lock; patterns replace each other half way; a line longer than
  the buffer is cut. Correct: a press has its action, a pattern its timer and its end, a command is a whole line.
- **Random numbers.** The pool is taken from while it is filled and while the generator is being switched off; the PKA borrows the clock.
- **Cryptography.** A message is authenticated in pieces, with the engine left on and the chaining value kept between the calls; any other use of the engine takes it from the message and switches it off. Correct: however a message is cut, the code is that of the whole.
- **Memory manager, heap, containers.** Counters of a shared pool that frees in any order must keep consistent, waiting users must be called; blocks
  split and merge without overlap; a ring whose elements wrap, or may not, gives back what it took.
- **Trace buffer.** Writers preempt each other between allocation, copy and unlock, while the completion interrupt picks the next chunk.
- **System time.** Divisions are replaced by products and shifts that are right only up to a bound. Correct: every date is the civil one.
- **Clock manager.** Voltage, wait states, prescaler and source are changed one register at a time, cut by the radio's and the oscillators'
  interrupts, which change them too. Correct: at no access is the core too fast for its wait states and voltage, and at rest delays are not too short.
- **Link-layer glue.** A counter and a mask are two variables, tested and changed by three contexts. Correct: what a section masks does not run in it, which the
  code keeps for the task's sections only (section 5), and at rest everything is open again.
- **UART, DMA.** A completion, an error and an abort race; a reception is armed again from its own callback; the DMA finishes a block while an abort waits
  for the channel. Correct: a transfer ends once, its caller is told, a lost word is told (with two exceptions, section 5), the console keeps listening.
- **DMA queues.** A queue is known by its links, and in the dynamic format a node's place decides which registers it holds. Correct: any sequence of
  calls leaves the queue the sequence it should be, and a conversion and back changes nothing.
- **RTC, RCC, RNG drivers.** Every call waits for hardware that may not answer, fails half way, and may be called again from a callback. Correct: a call leaves no
  lock and no open protection behind, an event is told once, a number is fresh and free of error, the selected clock runs and is the one that was asked for.

- **Flash, one-time area.** An erase goes on from interrupt to interrupt while the lock stays taken; a wait gives up while the memory goes on; a reset leaves half a record.
  Correct: the lock has a holder, all pages that were asked for are erased and no other, the last record that was reported as written is the one that is read.

## 2. Modules

| Module | Models | Composition |
|---|---|---|
| `TaskScheduler` | abstract: pending tasks, signalled events, a stack of activations | refined by `Sequencer` |
| `Sequencer` | `stm32_seq.c` | `MCKernel`, `MCSequencer` for liveness, `SequencerProofs` |
| `TimerServer` | `stm32_timer.c` over `timer_if.c` | `MCTimerServer`, extended by `MCKernel`; `TimerServerProofs` |
| `NetworkMembership` | abstract: out, trying, member, away | refined by `NetworkJoin`, and by `EslServer` over it |
| `NetworkJoin` | the join procedure of `app_zigbee.c` and the stack's startup | extended by `EslServer` |
| `EslServer` | `app_zigbee_endpoint.c` | composes the label's callbacks with the join procedure; run as it is; `EslServerProofs`, for both |
| `LabelCommand` | `esl_cluster.c`: parsing of a command, and the strings kept of it | `ApplicationProofs`, `MCApplication` |
| `Button`, `LedPattern` | `app_bsp.c` | `MCApplication`; `Button` is also run as it is |
| `SerialCommand` | `serial_cmd_interpreter.c`, `app_bsp.c` | `MCKernel` |
| `Signals` | the buttons beside the LED: no common state but the two specifications' steps alternate | `MCApplication`, `ApplicationProofs` |
| `Heap`, `Containers` | `stm32_mm.c`; `stm_list.c` and `stm_queue.c`: each against what it promises: a tiled pool, a sequence, a sequence | `MCApplication`; `MCKernel` |
| `SystemTime` | `stm32_systime.c`: dates against the civil calendar; the difference kept | `MCKernel` |
| `HwRng` | `hw_rng.c`, `HW_PKA_Enable` | `ServicesProofs`, `MCApplication` |
| `MemoryManager` | `advanced_memory_manager.c` | `ServicesProofs`, `MCApplication` |
| `Cipher` | `hw_aes.c`, `baes_ecb.c`, `baes_cmac.c`, `baes_ccm.c`, `hw_pka.c`, `hw_pka_p256.c` | `MCApplication` |
| `AdvTrace` | `stm32_adv_trace.c` | `ServicesProofs`, `MCPlatform` |
| `Dma` | the channel's driver, `hal_dma.c`: a function is an operator from a channel to a channel | extended by `DmaChannel`, `Uart` |
| `DmaChannel` | a channel in use: thread, hardware and interrupt, the waits of an abort opened | `MCDrivers`, `DriverProofs` |
| `DmaQueue` | the queues of `hal_dma_ex.c`, in memory | `MCDrivers` |
| `Uart`, `UartTransfer` | `hal_uart.c`, `hal_uart_ex.c` over two channels of `Dma` | extended by `UartPort` |
| `UartPort` | line, channels, three interrupts, the console or any other user of the driver | `MCDrivers` |
| `Rcc`, `PeriphClock` | `hal_rcc.c`; `hal_rcc_ex.c` on top of it | `MCDrivers`, `DriverProofs` |
| `SystemClock` | `scm.c`, `stm32_lpm.c`, `stm32_lpm_if.c`, the idle hook, the vectors of RCC and TIM16, the clock functions of `linklayer_plat.c` | `MCPlatform` |
| `Rtc` | `hal_rtc.c`, `hal_rtc_ex.c` | `MCPlatform`; `RtcVector` extends it with `timer_if.c` and the application's one vector |
| `RngDriver` | `hal_rng.c`, `hal_rng_ex.c` | `MCPlatform` |
| `RadioIrq` | the masking of `linklayer_plat.c`, the vectors of `HASH` and `RADIO` | `MCPlatform`, `PlatformProofs` |
| `Flash`, `Otp` | `hal_flash.c`, `hal_flash_ex.c`; `otp.c` and `hw_otp.c` on top of it | `MCPlatform`, `PlatformProofs` |

An `MC` module that names several components (`MCKernel`, `MCApplication`, `MCDrivers`, `MCPlatform`) is a sum, not a composition: a behaviour is one of the components, the others rest in one initial state.
They share no state in the code either; which components share a sum is a matter of the time a run takes. `UartPort` over `Dma`, `EslServer` over `NetworkJoin`, `PeriphClock` over `Rcc` and `SystemClock` are compositions.

Correspondence of state and code, where it is not plain from the names:

- **Sequencer.** Masks are sets of tasks. `levels` is the C stack: one record per active `UTIL_SEQ_Run`, with its locals, a program counter and what
  `UTIL_SEQ_WaitEvt` saved. A step is a stretch of code that no interrupt can observe half done. Between steps any `SetTask`, `SetEvt`, `PauseTask`, ... may come.
  A task in `Task \ Registered` has no callback.
- **TimerServer.** `elapsed` is the distance of the RTC counter from the time context; the alarm is kept relative to it. `due` is a history: ticks
  until the timeout that was asked for, floored at `TooLate`. `TimerExists` walks the list in one step although it is outside the critical section; no tick passes inside a critical section;
  `UTIL_TIMER_Stop` clears the alarm flag, as the driver does.
- **NetworkJoin, EslServer.** The task's program counter is `at`; the stack is the external part: it accepts or refuses a startup and answers an accepted one
  once, while the task waits. Texts are identified by the message they came with, so that a mixture is visible. The copies of a display command and the accesses of a redraw are one step for each field; `screen` is what was drawn last, `before` the data a command
  found, `cut` whether a factory reset came within a callback. A leave that the stack confirms, and its rejoin by itself, are `Leave` and `Rejoin` of `NetworkMembership`; neither tells the application anything, so `eJoinStatus` stays SUCCESS.
- **Button.** `acted` is the history of the actions since the timer was last armed, that is, of one press.
- **LabelCommand.** A payload is a sequence of small numbers; a length byte is one of them. `furthest` records the furthest byte the handler accesses.
- **SerialCommand.** A character is a letter of a name, another one, or the carriage return. What nothing observes, the length of the buffer, is small; a command is longer
  than a name by two at least, as in the code.
- **Heap.** `block` maps the address of a header to the header; a header that has been merged is no longer in its domain. `xStart` is an address outside the pool.
- **Containers.** Bytes of the queue are numbers; `queued` is the history of elements added and not removed. Elements of 254 bytes or more are excluded by an assumption, see section 5.
- **SystemTime.** One behaviour: the civil calendar, day by day, through every 32-bit time stamp. The stamp is one number of 32 bits, which the code divides into day and second itself (`CalendarDiv86400`, with its compensation); the seconds looked at in the property are the
  boundaries of each unit.
- **HwRng.** Random numbers are counted in the order of their generation. The clock is the set of its users.
- **MemoryManager.** Counters wrap at `Modulus`. The basic memory manager may refuse any request, and never gives out more than the pool.
- **AdvTrace.** No bytes: `unsent` is the sequence of ring slots that were allocated and not sent, `filled` those that hold their byte. `transfer` is what the DMA sends.
- **Cipher.** A byte is the set of the bits known of it, XOR the symmetric difference; the cipher returns bits that occur nowhere else, so two results are equal only if the same was computed. A call is one step: tasks do not preempt tasks. `sealed` holds what the last call gave and what RFC 4493 or RFC 3610
  defines; `cmac` is the history of the session of `BAES_CmacSetKey`. The phases of CCM in the peripheral are the external part. `CFG_BAES_SW` is undefined, so the engine is used.
- **Dma, Uart.** Handle and registers are one record. A block is counted in halves, or words; `ret` and `called` are what a call returns and which callbacks it makes.
  An abort that waits is opened for the channel and the interrupt in `DmaChannel`, and is one step in `Uart`. `gaveUp` is the history of what the UART's driver lost: a channel that did not answer (`stuck`), an abort that met its channel's end (`tx`, `rx`), a channel left moving (`left`).
- **DmaQueue.** `mem` holds the node's registers: two that a dynamic queue may leave out, one it never does, and the link. What a queue should be is a sequence,
  changed beside the code by each call. A node's region is the set of the bits of its base address, since the code joins the addresses bit by bit and compares the result with the first. `misused` says that a call has broken the queue, after which no more calls are looked at.
- **SystemClock, Rtc, RngDriver, RadioIrq.** The code the core still has to run is a sequence of accesses (`todo`, `rtcTodo`, `rngTodo`, the `code` of each running
  context). An operator with the name of a function is the accesses it makes; a call prepends its body, an interrupt the handler's, a return from a priority is an access too. So an interrupt can come between any two accesses, without
  a program counter per function. A wait carries the code of its two outcomes. In `RngDriver` the status, the data register and the callback are accesses of their own; `late` says that the noise source failed after the handler had read the status.
- **Flash, Otp.** A call is at its check, its start or its wait; `asked`, `erased` and `told` are histories of the last procedure. A record has two halves, since the code tests the halves and a reset may leave either; `tried` is the history of what writes
  that did not end well may have left.
- **Rcc.** A call is a record, advanced by the stages of the function; what it enabled becomes ready later or never, so that each wait can end either way. `owed` is the divider that a change under way, or one a time-out cut, counts on and has not written.

Callers are modelled as freely as the code allows and no more; the modules' comments state where a caller's discipline is assumed. These are
the assumptions that matter:
`DmaChannel`: a thread ends by interrupt only what it started by interrupt. `Rcc`: the caller gives the wait states for the clock and the divider a call asks for, and nothing beyond; what the clock until then needs is the code's business. `RngDriver`: a generator is initialised before it is used, and
after an error no attempt but de-initialisation is made where the driver never leaves the state. `RadioIrq`: the library closes its sections in the reverse order, and its radio interrupt does not mask the system group (a restore of BASEPRI would race otherwise). `SystemClock`: the radio's clock is switched with interrupts masked.

## 3. Runs

| Run | Configuration | Question | Result |
|---|---|---|---|
| `kernel` | 3 tasks, 2 priorities, 2 events; two tasks wait, one has no callback, one is paused. 3 timers, one periodic, three contexts that start and stop them; lists of 4 nodes; rings of 8 and 10 bytes in 7 forms; lines of the console in a buffer of 5; every day of a 32-bit time stamp; seconds modulo 4 | do the masks agree, does the search end, is what is claimed pending, is nesting undone, is work never slept over, is `TaskScheduler` implemented; lists, alarm, lateness (`TimersAreServed`), earliness (`NeverEarly`); `ContainersKeepOrder`; `TimeIsRight` | holds |
| `sequencer_liveness` | two tasks at the highest priority requested without end, one of them waits | does every task of that priority get its turn | holds |
| `timer_server_linked_twice` | one timer started by a task and by a callback | is a timer linked once | **violated**, section 5 |
| `esl_server` | 2 messages of 3 fields, two failure codes | `DisplaysAreWhole`: what is kept and shown; the join procedure and its refinement of `NetworkMembership`, leaves and rejoins included, with liveness | holds |
| `esl_server_reset` | 2 messages of 2 fields | has the label no data after a factory reset | **violated**, section 5 |
| `button_acts` | 2 buttons | has a press one kind of action | **violated**, section 5 |
| `application` | 2 buttons; the patterns each context starts; all payloads of up to 6 bytes over {0,1,2,3}; blocks of 2 bytes, messages of up to 5, 2 keys, tags of 1 or 2; 2 tasks at the accelerator; a pool of 2 numbers, 3 takes, 2 starts, 2 uses of the PKA; 2 virtual memories, 3 buffers, 3 pool sizes, 2 callbacks; a heap of 2 pools, 6 sizes | `SignalsAreRight`, `BlinksForever`: presses and patterns; `AcceptsEncodings`: exactly the well-formed commands; `CipherIsSound`: each mode gives what its definition says, however a message is cut, and the engine waits for ever only if it was taken from the message; `PoolIsSound`, `Refills`; `AccountsAreKept`, `RetriesCalled`; `HeapIsTiled` | holds |
| `drivers` | 2 transfers of a channel, with lists of one node; 4 nodes in 2 regions and of 2 types, 6 calls; 4 calls on clocks, 2 fractions; a UART with a FIFO of 2, 3 words each way, 3 calls, 1 line error, 4 events of a rare kind | `DmaEndsCleanly`; `QueuesAreKept`; `ClockStaysUsable`, `ClocksAreAsAsked`; is a transmission and a reception ended in the handle when the hardware has ended it, is a lost word told, does the console listen, each with the exceptions of section 5 | holds |
| `platform` | three uses of the clock by the application (never 16 MHz; 16 MHz; with calibration and no standby); 15 pairs of features of the RTC; one source error of the generator at a time; sections two deep in the task, one in each interrupt, on the high or on the low and system interrupts; 3 pages; 2 slots, 2 indices; a ring of 7, messages of 1 to 3 bytes, writers at three priorities around the UART's | `ClockIsSafe`, `DelayIsLongEnough`; `RtcAtRest`, `RtcEventsTold`; `RngDriverIsSound`; `SectionsHold`; `OtpIsKept`; `TraceIsWhole` | holds |
| `rng_number` | as `platform`, the generator's driver | is a number given by interrupt sound although the source failed | **violated**, section 5 |
| `sections` | as `platform`, the sections | does nothing run in a section that it keeps out, in whatever context | **violated**, section 5 |
| `rtc_vector` | alarm A and the wrap, one vector | is a wrap counted | **violated**, section 5 |

A property named above that joins several (`TimersAreServed`, `SignalsAreRight`, `PoolIsSound`, `AccountsAreKept`, `TraceIsWhole`, `DmaEndsCleanly`, `RtcAtRest`, `RngDriverIsSound`, `ContainersKeepOrder`,
`QueuesAreKept`, `OtpIsKept`, `TimeIsRight`, `DisplaysAreWhole`) is a conjunction of properties with names and comments of their own, where it is defined.

Deadlock is checked in every run except `application` and `drivers`, where the label's handler returns and the calls of a behaviour are bounded, with nothing left
to be done after the last of them, and in `button_acts`, which looks for one violation only.

### Bounds, and why they suffice

- *Sequencer*: nesting is bounded by the code (a waiting task is masked), so two waiting tasks and a third give every depth that matters; two
  priorities distinguish "first" from "found later"; nothing else is bounded.
- *TimerServer*: `Period = {3}`, created periods of 1, `MinTimeout = 2`: timers can be due within the minimum timeout, together, or later. `MaxLatency = 1` lets an interrupt
  be late by a tick. `MaxElapsed = 4` stops calls, never the re-base. `TooLate` floors the lateness.
- *HwRng*: `MaxGets`, `MaxStarts`, `MaxPkaEnables` bound the calls; three takes empty a pool of two in the middle of a refill and find it empty once.
- *LabelCommand*: a length byte can be zero, fit, exceed its buffer, and exceed what is left of the payload, in each of the four fields.
- *MemoryManager*: `MaxSize = 3` with reservations of 4 and 2: memories below, at and above the reservation by a part or the whole of a buffer.
- *AdvTrace*: unbounded behaviours on a finite state space. With a ring of 7 and messages up to 3, writers wrap to the front while a chunk is sent, exactly at the place the reader stands (the
  case of an empty last part), and fail for want of room.
- *EslServer*: two messages and a cleared label show a mixture; three fields give a command a first, a middle and a last copy, so that a press or a reset comes before, between and behind them; more fields only repeat the copy.
- *Heap*: pools of 96 and, unaligned at both ends, 93 bytes hold at most five blocks: a block between two free ones, a rest too small to be split off, a request that takes all, and one that is refused.
- *Containers*: three or four elements of 0 to 4 bytes in each form of ring: one that ends exactly at the end, one byte before, and one that wraps or leaves the end unused. Four nodes of a list give head, middle and tail their own.
- *Cipher*: a block of two bytes has a part and a whole; five bytes are two blocks and a part, so that a chain has a first, a middle and a last link, and every way to cut a message occurs. Only what is a multiple of a block may be followed by another piece, as the code's comment demands.
- *SystemTime*: no bound: `LastDay` is the last day whose stamp has 32 bits. Up to the end of 2095 the date must be that of the civil calendar; from 1 January 2096 on, where the product that finds the year exceeds 32 bits, the property says that the year is wrong on every day.
- *DmaChannel*: two transfers, so that a flag, or a registered end, of one can be taken for the other's. A channel in list mode has every callback registered; the partial registrations are explored with the plain mode. *DmaQueue*: six calls build two queues, or one of three nodes, convert it, and change or join it; of the four nodes one is of another type and one of another region, so that an insertion is refused, or accepted where the check of the addresses does not notice.
- *Uart*: two words make a half and a whole of a block; the third is the one that comes too late. `MaxEvents` bounds how often a flag that means nothing by itself, or a time-out, comes. `Wide` and `Parity` change the mask of a word, and nothing of the control.
- *Rcc*: four calls turn on, select, change and turn off, to a faster and to a slower clock, with a greater and a smaller divider; a behaviour changes the clocks of one of three uses (buses, PLL, slow clocks), and a peripheral's selection belongs to the use whose clocks it names. What a call of one use leaves behind for another is not explored.
- *Rtc*: two features meet in the lock, the write protection, and the shared flags; the pairs are those that share a register, a flag's clearing or a callback, and each feature with the set-up or the calendar (`MCTogether`).
- *Flash*: three pages: a first, a middle and a last one; every stretch of them. *Otp*: two slots are full after two records, so that the last slot is tried again; a behaviour of it programs records only.
- *RadioIrq*: the counters are tested at zero and one only, so two levels reach every branch. Sections on other sets of interrupts run the same three pieces of code one after the other.
- *SystemClock*: three uses of the clock. An application that never asks for 16 MHz, as this one, is cut by the radio at any access. One that does is cut by it only
  between calls: the radio's stop is not masked by the section that changes the clock, and there the code is not safe (first observation of section 5). The third calibrates the oscillator too, and does not use Standby.

### Fairness, and why the code justifies it

- *Sequencer*: weak fairness of the steps of `UTIL_SEQ_Run` and `UTIL_SEQ_WaitEvt`: the processor executes the main thread. Strong fairness of each callback's return: no callback runs, or waits, for ever
  (an assumption on the tasks). The liveness run adds that waited events are signalled again and again, and gives every task a callback. Nothing is assumed of requests.
- *LedPattern*: a call in progress ends; a running timer expires.
- *EslServer*: the main loop and interrupts go on; the retry timer expires; the stack accepts a startup and joins at some time if asked again and again, and brings back a device that has left. The last is
  a fact of the network, not of the code, and without it no device could join. It is an assumption of `FairSpec` and the refined `NetworkMembership` has the same.
- *HwRng*: the main loop goes on, and the generator delivers at some time, and is not in error whenever it is looked at.
- *MemoryManager*: the memory task runs when it is set.
- *RtcVector*: the core executes, and takes a pending interrupt at last.

The drivers are checked for safety. That a transfer ends, or a generator is served, is stated as an invariant: whenever the core has nothing left to do and the hardware
has nothing left to raise, nobody is still waiting (`UartTransmitEnds`, `UartReceiveEnds`, `RngBusyIsServed`, `DmaEndsCleanly`).

## 4. Proofs

TLAPS proves these for all values of the constants that satisfy the modules' assumptions.

| Theorem | States |
|---|---|
| `SequencerProofs!TypeCorrect` | `TypeOK` of the sequencer, locals on the stack included |
| `SequencerProofs!PrioritiesAgree` | `PrioritiesCoverTaskSet`: `TaskSet` is the union of the priority masks |
| `SequencerProofs!ClaimsPendingTask` | `ClaimedTaskIsPending`: the claimed task is pending and allowed by every enclosing wait |
| `SequencerProofs!NestedRunsAreUndone` | `NestedRunsRestore`: the mask in force excludes exactly the callbacks that wait, the event waited for is the innermost wait's, a callback is the current task |
| `SequencerProofs!SearchEnds` | `SearchTerminates`: only a claimed task without a callback makes the search run past the lowest priority |
| `SequencerProofs!NeverSleepsOverWork` | `NeverIdleWithWork`: the processor idles only when no task may run and the event waited for is absent |
| `SequencerProofs!ImplementsScheduler` | `ImplementsTaskScheduler`: every step is one of `TaskScheduler`, or a stutter |
| `EslServerProofs!NeverGivesUp`, `NoStaleEvent`, `NeverFalselyJoined`, `BlinkingEnds` | the safety of the join procedure |
| `EslServerProofs!ImplementsMembership` | every step of the join procedure is one of the abstract membership, or a stutter |
| `EslServerProofs!ServerNeverGivesUp`, `ServerNeverFalselyJoined` | the same safety with the server: factory resets, leaves and rejoins |
| `EslServerProofs!ServerImplementsMembership` | with the server, a confirmed leave is the abstract `Leave` and the stack's rejoin the abstract `Rejoin`; resets, presses and reports are stutters; every other step is one of the join procedure's |
| `EslServerProofs!DisplaysStayWhole` | `DisplaysAreWhole`: what a command leaves and shows is its message, whole; after a factory reset in between only the fields copied since; a press in between shows the copied fields and those from before; for any number of fields |
| `ApplicationProofs!TextsFit`, `ReadsPayloadOnly` | whatever the payload, buffers and payload are accessed within their bounds |
| `ServicesProofs!PoolStaysSound` | `PoolIsSound`: the generator is clocked while used, what is missing has been requested, no number is given twice; for any pool size and any number of calls |
| `ServicesProofs!TraceStaysWhole` | `TraceIsWhole`: the lock counts its holders, one transfer at a time sends the oldest bytes, the ring holds what was logged and not sent; for any ring, message lengths and contexts |
| `ServicesProofs!AmmAccountsKept` | `AccountsAreKept`: the counters are what the users hold and do not wrap, each virtual memory finds what it has reserved, whoever waits for memory is on the way to be told; for any memories, buffers and pools of less than half the counters' range |
| `TimerServerProofs!TimerServerServes` | `TimersAreServed`: running timers are linked once, the alarm is the head's, the head is what the interrupt finds expired, nobody is later than a turn for each timer there is; for any finite set of timers, periods, latency and callers |
| `TimerServerProofs!TimerServerNeverEarly`, `TimerServerTypes` | `NeverEarly`: no callback before its time, as an action property; the types |
| `ApplicationProofs!SignalsRight` | `SignalsAreRight`: a button that waits has its timer, no reset follows a short action (the other order is possible, section 5), an LED pattern has its timer and its end; for any buttons and patterns |
| `PlatformProofs!OtpKept` | `OtpIsKept`: the record last reported as written is the one read, through time-outs, late ends and resets; for any number of slots and pages and any records |
| `PlatformProofs!FlashKeepsItsWord` | `FlashDoesAsAsked` of the flash driver alone: the lock has a holder, what is reported erased is erased, nothing else ever is |
| `PlatformProofs!SectionsHoldAlways`, `SectionsInductive` | `SectionsHold`: nothing runs inside a section that it keeps out, provided no context below it was preempted between its count and its disabling - always so for the task's sections; and with all sections closed, those opened in such a gap included, nothing is left masked or counted; for any groups masked at once and any sections within each other, interrupts between any two accesses; the invariant it rests on |
| `DriverProofs!DmaChannelEndsCleanly` | `DmaEndsCleanly`: a transfer of one block ends once, a channel that is ready is unlocked and stands still; for any calls, callbacks and lists, through errors, suspensions and aborts cut by the interrupt |
| `DriverProofs!ClockStaysUsableAlways` | `ClockStaysUsable`: the clock in use runs with what it is made from, and the PLL is never taken at full speed at once; the flash has the wait states for the clock in use behind the greater of its divider and of the one a change still owes, also after wait states were taken away; for both drivers, any fractions and number of calls |
| `DriverProofs!DmaInductive`, `ClockTreeInductive` | the two invariants these rest on |

- **SequencerProofs.** The inductive invariant adds three facts to the properties: the shape of the stack (`CallStack`: only the top level runs code,
  the ones below it wait in `UTIL_SEQ_WaitEvt`), that the running level's task is the claimed one where the code relies on it (`RunningIsCurrent`), and that the candidates of a selection are never
  empty (`CandidateExists`). The last is what makes `SEQ_BitPosition` safe: the masks are snapshots that interrupts have enlarged since, so its proof needs that only the level itself removes tasks while it selects.
  One lemma per action preserves the conjunction; lemmas on the stack (`StackReplaced`, `ReplaceTop`) carry the parts below the top.
- **SequencerProofs, nesting.** What a nested run saves is stated level by level of the C stack (`Nesting`): the run at depth *n* has saved the mask without the callbacks below *n* - 1, the wait at *n* the event
  the next callback below waits for. Entering and leaving a run then move one level's worth of it, which is why the mask in force is right at every depth, whatever order the waits end in. The search needs another
  fact (`SnapshotPending`): the snapshot of the pending tasks a selection works on stays pending until one is claimed - only the search itself takes tasks off, interrupts add - unless the claim was of a task without
  a callback, the only way to the end of the loop. `NeverSleepsOverWork` follows from the test and the idle function being one critical section, once the masks agree.
- **SequencerProofs, refinement.** Each action maps to one of `TaskScheduler` or to a stutter; the abstract stack of activations is the stack of levels that run or wait in a callback (`Activations`). The steps that matter are the claim (an abstract
  start: the task is pending and not below in the stack, by the theorems before), the return of a callback and the end of a wait, whose saved values `Nesting` supplies.
- **EslServerProofs, the join procedure.** The invariant joins the properties with `NotYetJoined` (inside an attempt the device is not joined), `RequestsAreExclusive` (the task is not requested, nor the retry timer running,
  during an attempt) and `AnswerIsConfirmed` (when the event is there, the status is the stack's answer and no longer the preset one). Without the last two an old event could end a new wait with the preset SUCCESS.
  These proofs are of `JoinSpec`, the procedure before any factory reset by the server.
- **EslServerProofs, the server.** Every step of the server is a step of the join procedure, or changes only whether the device is in the network, outside attempts, and whether it reports (`NextIsJoinOrServer`); the invariant of
  the join procedure survives both, so its theorems hold of the composition. In the refinement the abstract member leaves when the stack confirms a leave and comes back when the stack rejoins: both need that a leave is confirmed between attempts only, since the main loop that confirms it is the one that attempts.
  The label's invariant (`LabelInv`) has a part for the data, one for the display command and one for the button. A field that has been copied is the message's; the others are those from before, or blank from the field on at which a reset came
  (`WholeData`), and from then on the statement is about that field. What a command has drawn is what it copied, or blank where a reset came (`WholeDisplay`); what a press has drawn is the data, which nothing changes while the press runs, unless a reset cuts in (`WholeButton`).
- **ApplicationProofs, the commands.** The invariant relates the handler's position to the payload's length (`Position`) and each stored text to the check that admitted it (`CheckedText`).
- **ServicesProofs, the random numbers.** Three invariants, one for each part of the property. `ClockInv`: a generator that is on counts among the users of its clock, except inside `HW_RNG_Start`, which forgets the users first. `RequestInv`: when the main thread
  is elsewhere, what is missing has been requested; at each place inside the filling function it says what that function has still to find out, because a number may be taken between any two of its steps. `NumbersInv`: the numbers in the pool
  differ from each other and from those given, and all are older than the next one the generator makes.
- **ServicesProofs, the trace buffer.** The invariant adds to the properties where the pointers can be (`RingInv`: one stretch, or two once the writers have wrapped; the chunk lies within the first), that one context at most deals with the chunk, and that it is read from
  `rd` (`OneChunk`), and that an allocated slot is stored or its writer is still filling it (`BytesInv`). The central step is that a transfer starts only when the lock counts nobody else (`NobodyElse`): no writer is filling then, so every slot of the chunk
  is stored. None of the stretches runs over the end of the ring, so the proof is about intervals; lemmas on adjacent stretches (`SplitSlots`, `DropPrefix`) carry the order of the bytes through allocation and completion.
- **ServicesProofs, the memory manager.** The invariant (`Books`) is one equation and one bound: the shared counter is what is held without a virtual memory and what the memories hold *beyond* their reservations, and with the reserved words it stays within
  the pool. The promise of the reservations follows by `Balance`: what is held beyond plus what is reserved is what is held plus what is left, so the second half of the bound is exactly what `ReservationsKept` asks for. That no subtraction wraps
  comes out of the same bound; the comparison in `AMM_Alloc` leaves out the header's word, and its being strict is what pays for it. The sums are `SumFunction` of the community modules, a recursive function; that an element can be taken off
  in any order, and what a change in one place does, are proved by a smallest set on which it fails (`HasSmallest`), which needs no induction scheme.
- **TimerServerProofs.** The functions of the server map a record of its variables to another, so the invariant is one of a record: `Good` between functions, `Taken` inside one that has taken the head off and not yet armed the alarm. The list is
  not always sorted: `TimerSetTimeout` may move the head's time stamp to the minimum timeout from now, past its successors. `Armed` therefore orders the list from the second place on, and says of the head's stamp only that nobody has to wait for
  it beyond that minimum (`HeadServed`). Lateness is the hard part. A bound for each timer alone is not inductive, because a timer behind late ones is delayed again and again. What is: a timer at place *k* can still afford a turn, `MinTimeout + MaxLatency`,
  for each place behind it (`Slack`). When the head leaves, every timer gains a place and loses a turn at most (`LosesHead`); an insertion before it costs a place, but only in front of timers that are due later (`LinksArmed`); a tick is
  paid for by the alarm, which is never more than the latency behind. The bound of `LatenessBounded` is what place 1 has left.
- **ApplicationProofs, buttons and LED.** Both invariants follow the calls in progress. The button's says at which labels of the handler the timer may be missing, and that a short action is taken only when it is (`DeadWhenTold`). The LED's says for each of the three
  contexts what its call still has to do for the pattern it leaves (`Steadied`, `Steps`): an animation may be without its timer only while some call has yet to start it or to replace it.
- **PlatformProofs, flash and one-time area.** The driver: `UnderWay` says what a procedure has done, in the same words whether a call waits for the memory (its page is in the call) or the interrupt goes on (its page is in the handle): it works and no flag is raised, or it rests and one is;
  all pages before the present one are erased, the ones from it on are among those asked for. The area: slots are filled in order (`FilledInOrder`), so that an erased slot behind full ones is the first free one, *however long ago the write that goes to it began*.
  This is what makes a late end harmless: a write that gave up and its retry go to the same slot (`WritesAreTried`), and whichever comes to stand there is the last record of its index. `WriteProceeds` follows one write from the check to the answer.
- **PlatformProofs, the sections.** `SectionsHold` says nothing of the half of a call that has counted and not yet disabled, so it is not inductive. The invariant (`RadioIInv`) gives each context the call of the library it is in, and this call *determines* the code the context has
  left (`CodeOf`, in `Fits`): every statement about registers and interrupts can then be one about calls. `Tallies`: a counter is the sum of what the contexts hold, open sections and the call under way, from the task upwards; whoever counted from zero is the lowest that
  holds the group. `Closures`: what that one holds is shut, unless it is still between its count and the access that shuts it (`Mid`); and whatever is shut has a context that is going to open it, whose turn it is, so that the last one out leaves nothing behind. `Overlaps`: a section
  that opens over such a gap is excused, and only there can the low interrupt come in while something below it has counted its group. `PrimaskIs`: only the running context masks all. `Exclusion` is the property. An interrupt that comes in finds its line enabled and unmasked, so
  by `Closures` nobody below it has a section that keeps it out (`KeepsOut`). The proof takes each access by itself, and most of them change nothing but the place in the code (`EvenStep`, `LevelStep`); those that count (`NearerStep`), set a line (`SetLineStep`), BASEPRI (`SetBasepriStep`)
  or PRIMASK (`MaskingStep`) each disturb one part.
- **DriverProofs, a channel.** The proof does not go through the calls one by one. A driver's function only ever makes the channel *calmer* (`Calmer`): it clears flags and enables, and never raises or sets one, so it leaves less to come;
  this holds of any composition of the functions (`CalmerTrans`). What can raise an end is the hardware alone, and it needs a block still to move. Once a transfer of one block has ended, nothing is left that could end once more (`Over`): the channel is
  off, and neither its completion nor a suspension is flagged; a calmer channel keeps that, and only a new start leaves it. A call of the interrupt tells one end at most (`HandlerEnds`), and for good if the transfer is one block: a completion and a suspension are never flagged together (`OneBlock`).
- **DriverProofs, the clock tree.** The invariant (`RccIInv`) has three parts: the registers are a clock tree (`IsTree`); it is sound (`Sound`): the clock in use *and the one selected* are on and ready with what they are made from, and have wait states - the
  selected one is not in use yet, and may never be; and the call under way is in order (`CallIsFine`). The last is the heart of it: at each label, `Fine` says what the rest of the call relies on - a clock about to be turned off is neither in use nor selected, the
  wait states asked for fit the clocks and the divider the change ends with (`Target`, `Final`), and by the label at which wait states are taken away the clock is that one and the divider is written (`Reached`) - and `Awaits` and `Arrived` that a stage is reached only when the hardware has done what the stage before waited for, or has timed out and the call with it.
  Nothing is asked of the caller about the clock in use before: what it needs follows from the order of the writes. The divider that counts (`Counted`) is the greater of the one in force and the one a change still owes.
  A new fraction changes the speed of a PLL in use: it adds less than a quarter of the output's whole part, so the wait states of a PLL must meet five quarters of it. TLC checked the invariant on four calls before it was proved.

Two changes of the model came out of the proof of the clock tree: the constant that says what a behaviour changes the clocks of is one of its three values (`RccInit`), which the proof of the wait states needed, and `PeriphClock` has a specification of its own, `PeriphSpec`.

For the sections, `RadioIrq` puts a call's code together from one piece for each group (`Closes`, `Opens`) where it flattened a sequence, a fold no prover expands; it has a specification of its own, `RadioSpec`, and says which groups there are to mask (`RadioIrqAssumption`).

Three assumptions on constants were added for the other proofs: `TimerServer` has finitely many timers, `MemoryManager` finitely many buffers, and no context of `LedPattern` starts the pattern `NONE`, as none does in the code.

`TypeCorrect`, `BlinkingEnds`, `TextsFit` and `ReadsPayloadOnly` state properties no run names any more: the theorems say more than the runs did.

The safety of the runs `kernel` and `esl_server` is proved completely, and in `application` that of the random numbers, the memory manager, the buttons and the LED.

Only model-checked: liveness under fairness (`BlinksForever`, `Refills`, ... and the liveness of the refinements), ENABLED; every property
of the utilities; of the drivers and the platform all but the flash, the one-time area, the trace, the DMA's channel, the usability of the clock and the sections of the link layer (`QueuesAreKept`, `ClocksAreAsAsked`, the UART, the clock manager, the RTC, the generator's driver); `AcceptsEncodings`, whose reference definition flattens a sequence of fields (induction over data is out of the
provers' reach). The same holds of `HeapIsTiled` and `QueueIsItsSequence`, which follow links through memory.

## 5. Findings

Six runs find a text of the repository contradicted by the code:

1. **`timer_server_linked_twice`.** `UTIL_TIMER_Start` asks `TimerExists` and `IsRunning` before it enters its critical section (`stm32_timer.c:156`). A callback that starts the
   same timer in between makes it be linked twice; the comment at `stm32_timer.c:459` says the check is there to prevent that. `ledControl.patternTimer` is started by tasks and by timer callbacks.
2. **`esl_server_reset`.** `PerformFactoryReset` is documented as "leaves network, clears data, rejoins" (`app_zigbee_endpoint.c:502`). A display command it interrupts goes on (`:346`): it copies the rest of its fields and
   sets `data_valid` again, so that the label keeps valid data after the reset, part of them blank, without a new command.
3. **`button_acts`.** The comment at `app_bsp.c:934-936` says that a long press, once its timer has elapsed and triggered the action, triggers nothing again on release. `BSP_PB_Callback` tests `waitingTime` (`:925`) before it stops the
   timer, which can elapse in between: one press then has both the factory reset and the short action.
4. **`rng_number`.** The driver's doc says that after a seed error a number in the data register "must not be used" (`stm32wbaxx_hal_rng.c:752-756`). The interrupt's handler reads the status at `:766` and the register at `:824`, and never looks
   again, as the polling call does (`:681`): a seed error in between hands out a suspect number.
5. **`sections`.** `LINKLAYER_PLAT_DisableSpecificIRQ` is documented as disabling the group's interrupt (`linklayer_plat.c:367-371`). It counts first and disables if it was the first to count (`:379`): a section that a preempting interrupt
   opens in between takes the interrupt for disabled, and the one it should keep out runs inside it. `SectionsHold` excepts just that, and says it never happens to the task's sections.
6. **`rtc_vector`.** `MX_RTC_Init` enables the interrupt of the counter's wrap (`main.c:413`), and `timer_if.c:286` describes its callback, which counts the wraps. The one vector, `stm32wbaxx_it.c:225`, calls
   `HAL_RTC_AlarmIRQHandler` only. After a wrap (48 days) the flag stays set, the interrupt is entered again for ever, and the wrap is not counted.

Observed while modelling, without a run: no text of the repository states the opposite precisely enough, or a larger property would only restate them.
Where one would break a property, the model leaves the case out and its comment says so; these, and what a property or an assumption excepts, are marked *excluded*.

*Clock and power*

- `scm.c:635`, *excluded* for applications that ask for 16 MHz: the section that changes the clock masks by priority, and the radio's stop, at priority 0, is not masked by it.
- `linklayer_plat.c:175`: `AclkCtrl` runs `scm_hserdy_isr` by polling, outside any critical section; it is safe only if its caller masks interrupts (assumed).
- `app_entry.c:393`: the idle hook stops the stabilisation timer, and after a mere sleep nobody starts it again.
- `scm.c:980`: an update flag left over from before counts as stabilised. `scm.c:99`: the loop over the requests runs to the size of the array in bytes.

*RCC*

- `rcc.c:372`: `SystemCoreClock` ignores the AHB prescaler when the HSE is adjusted in use; `:916`: it is not updated after a change of the fraction; `:897`: the fraction is compared with a register that may not be in use.
- `rcc.c:354`: a new HSE divider is ignored in silence when the PLL made of it runs the system; `:518`: a time-out leaves the power controller's clock on; `:725`: a wait no call reaches.
- `rcc.c:989` and below, *excluded* from `ClockStaysUsable` by `owed`: a greater divider of the bus is written only after the new source is in use, and never if the switch times out. With wait states for the clock and the divider asked for, the bus
  is faster than its wait states allow in between. `owed` counts the divider as written; nothing else is excused.
- `rcc_ex.c:390`: the ADC's selection is compared with `RCC_PERIPHCLK_ADC`, so that the PLL output it needs is not enabled; `:535`: a field of USART2 receives USART3's selection; `:1684`: `&` where `|` is meant; `:469`: after a
  reset of the backup domain the first ready slow oscillator ends the wait, where the comment before it says "all": with two on, the call may answer OK before the other is ready. `ClocksAreAsAsked` promises one.

*RTC*

- `rtc.c:2113`: a time-out leaves the calendar's INIT bit set, so that the calendar stands still until the next call that leaves the mode; `RtcAtRest` does not look at that bit. `rtc_ex.c:447`, *excluded*: the time stamp's flag is cleared after the callback, so that an event during it is lost.
- `rtc_ex.c:2629`: protecting backup registers overwrites the tampers' configuration. `SetWakeUpTimer` without interrupt leaves a flag and an enable of an earlier use. `GetAlarm` reads 15 bits of the sub-seconds.
- `timer_if.c:194`: the driver's BUSY ends in an endless loop.

*Generator*

- `rng_ex.c:308`: a recovery from a seed error that succeeds leaves the state BUSY for ever. `rng.c:798`: an error in the interrupt leaves the lock held until de-initialisation, and after a clock error the interrupt enabled.
- `rng.c:298`: a de-initialisation that times out leaves the interrupt enabled with the state READY.
- `hal_rng_ex.c`: a configuration that times out leaves the generator off and READY; the recovery clears an error raised after its own check.

*Cryptography*

- `baes_ecb.c:43`, `baes_cmac.c:92`, `baes_ccm.c:76`: that the engine is in use (`HW_AES_Enable` returns FALSE) is ignored. A block encrypted while a message is authenticated in pieces switches the engine off, and the message's next piece waits for ever. `CipherIsSound` says that nothing else can wait so.

*Link layer's glue*

- `linklayer_plat.c`: a section of the system group restores BASEPRI from its own copy. If the radio's interrupt could mask the group while a task stands between reading and writing it, the copies would cross; it is assumed not to (*excluded*).
- `stm32wbaxx_it.c:381`: an urgent request between the handler's test and its return runs at the low priority, against the comment at `linklayer_plat.c:277`; a low request after an urgent one that is still pending lowers it.
- `linklayer_plat.c:292` to `413`: `EnableIRQ` does not let its counter fall below zero, `EnableSpecificIRQ` does. A section of a low interrupt during `ll_sys_dp_slp_exit` opens the radio's interrupt again.

*DMA and UART*

- `hal_dma.c:1094`, *excluded* from `UartTransmitEnds` and `UartReceiveEnds` (`gaveUp`, "tx" and "rx"): an abort by interrupt that meets the end of its channel is lost. The channel's handler takes the end for its own and never calls the abort's
  callback; the caller of `HAL_UART_Abort_IT` is never told, and what the abort was to end stays busy. `hal_uart.c`, the same (`"stuck"`): a channel that did not stop when a call asked it to leaves the handle busy.
- `hal_uart.c:2363`, *excluded* from `UartLossIsTold` ("rx"): if the lost abort is the one an overrun makes, the caller is given a complete block and no error although a word is missing, against the driver's doc (`hal_uart.c:1083`), which has an overrun in
  DMA mode end in the error callback. `UART_DMAError`, *excluded* there too ("left"): an error of the transmission's channel ends the reception in the handle only; its channel moves on, and an overrun is not looked at any more.
- `hal_dma_ex.c`, *excluded* from `QueuesAreKept`, which says nothing once one of these calls has been accepted: a node of another region that passes the bitwise check of the addresses (`:3762`, compared at `:3786`); `ReplaceNode_Tail` of the only node,
  or with a node that does not match (`:1977`); a circular source for `InsertQ_Head` or `InsertQ_Tail` (`:2348`, `:2485`); the conversion of a queue whose first circular node is inside it (`:2870`).
- `hal_dma_ex.c:2216`, `:2316-2322`: `InsertQ` after a node that is not in the destination leaves the source queue BUSY for ever, as the model does.
- A reception by interrupt restarted from its own callback is switched off by no code that runs after the callback; the run relies on that order, which a change could easily lose.

*Flash and one-time area*

- The linked firmware holds only `OTP_Read`: nothing calls the writers, and the vector of the flash interrupt is the default one. The modules say what holds if they are used, with the register unlocked, one page at least, and no
  `HAL_FLASH_Lock` during a procedure of the interrupt.
- `otp.c:83`: the search stops at a slot with one half erased, and `OTP_Write` refuses it: after a record whose additional data are all ones, or a cut write, nothing can be written any more. `hw_otp.c:81` refuses only a slot with both halves
  used, and would program a half-used one, which the memory refuses in its turn.

*Utilities*

- `stm_queue.c:87`: the size of a wrapped element is kept in a byte; elements of 254 bytes and more are *excluded*, and nothing adds them. A split ring with fixed elements is refused.
- `stm32_systime.c:116`: the year is wrong from 1 January 2096, on every day (`TimeIsRight` says so); nothing calls it. `SysTimeSet` writes two backup registers, and an interrupt between them reads a mixture.
- `stm32_adv_trace.c:691` and `:471`: a message logged by a higher interrupt between the completion interrupt's decision to stop and its unlock, or data whose chunk completed
  while a writer was failing for want of room, stays in the ring until the next message is accepted. If all later messages are too long for the room left, that is never.
- `log_module.c:182`: the size passed on is what `vsnprintf` would have written, which can exceed the buffer for a long message.
- `stm32_timer.c:493`: moving the head's time stamp can leave the list unsorted, against the comment at line 501; `FirstExpiredIsHead` and `LatenessBounded` hold nevertheless.

*Application*

- `app_bsp.c:995`: the serial commands request `CFG_TASK_BSP_BUTTON_B1` to `B3`, for which no callback is registered. The sequencer claims such a task, leaves the masks of that loop in place, and the next search may run
  past `TaskPrio`. `SearchTerminates` shows that this is the only way there. Nothing takes back the long press a command sets.
- `app_bsp.c:915`: the handler takes `GPIO_PIN_RESET` for "pressed", while `BSP_PB_GetState` returns 1 for pressed and only falling edges interrupt: a clean press takes the release branch and does nothing.
- `app_bsp.c:920`: the long-press timer is armed by a bounce, so that a factory reset can come with the button up.
- `app_zigbee.c:257`: the join blinking toggles the LED an error pattern holds.
- `app_zigbee_endpoint.c:488`, `:346`: a short press during a display command draws the fields copied so far and those from before; a command that a factory reset interrupts keeps and shows its later fields after blank ones. `DataIsLastMessage` and
  `ShownIsKnown` name these mixtures and allow no other.
- `app_zigbee_endpoint.c:514`: a factory reset stops the report timer, which only the first join starts, and nothing requests the join task again: the periodic reports never resume, even if the stack rejoins by itself. No text says that they do.
- `esl_cluster.c:234`: a text of the maximum length of 32 characters (`esl_cluster.h:35-41`) loses its last one to the terminator. *Excluded*: `AcceptsEncodings` compares all the others.
- `serial_cmd_interpreter.c`: a full buffer drops the line, and its tail is taken for a command.

## 6. Hazards

`PROJECT.json` lists them by line, each with the properties that would notice it going wrong. Five have none, each with a note on the reason: `stm32_adv_trace.c:691` and `app_zigbee_endpoint.c:514`, because no text promises
the opposite and the code never does; `hal_dma.c:1094`, `hal_uart.c:2363` and `baes_ecb.c:71`, because the code does go wrong there: the properties next to them except these cases (section 5), and would not notice them.

## 7. Not modelled

- *Cryptography*: the order of the bytes in a word, whose macros are in a header that is not in the repository; the doubling of a key bit by bit; the software AES, which is not compiled. Whether the stack ever mixes its calls is not known: its code is a library.
- *Start-up*: generated, sequential, before the main loop; it gives the initial states. *Board support, power, GPIO and other vendor drivers*: one-time set-up, or not used by the build; what the modelled code needs of
  their registers is part of its module.
- *Older application copy*: not in the build's lists of objects. *Binary libraries* (Zigbee stack, MAC, link layer): external; modelled by what the code in `src/` lets them do.
- *Text*: formatting of log messages and conversions between numbers and text.
- In modelled components: the queries and `UTIL_TIMER_SetReloadMode` of the timer server, `APP_BSP_LedPatternStop`, the red and green LEDs, `APP_ZIGBEE_HandleAttributeWrite` (no callers); the zero-copy and conditional functions of the
  trace buffer; `scm_pll_setconfig`, `scm_pll_fractional_update` (no callers); the registration of callbacks in every driver (not compiled); calibration of oscillators, MCO, clock security, the low-speed output and the audio synchronisation of the RCC;
  values of option bytes, secure areas, ECC interrupts, power-down and low-power read of the flash; secure and privileged modes, sub-seconds, output pins, backup registers and the monotonic counter of the RTC; configuration values and error codes of the generator; baud rates and other values of the UART; addresses and attributes of the DMA.

What would come next: a proof for the generator's driver; the timer callbacks of
`LedPattern` and `Button` over an abstract timer server that `TimerServer` implements.
