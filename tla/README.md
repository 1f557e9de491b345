# A TLA+ development of PascalScheduler

PascalScheduler is a preemptive round-robin scheduler for one Cortex-M0 core,
with a mutex, signals, and a small set of device drivers behind a table of
nodes.  This directory holds TLA+ modules translated from its C and assembly
sources, TLC configurations that check them on small instances, and proofs
checked by TLAPS.  Paths such as `scheduler.c:91` are relative to the
repository's `src/` directory.

## 1. The system

| component | state | operations |
|---|---|---|
| scheduler (`scheduler.c`) | `tasks[MAX_TASKS]` (`state`, `sp`, `sleep_until`, `signal_flag`), `current_tid`, `registered_tasks`, `jiffy`, `mutex` | `scheduler` (= SysTick handler), `k_task_sleep`, `k_task_yield`, `k_mutex_lock`, `k_mutex_unlock`, `k_task_register`, `k_task_update_state`, `k_task_peek_next`, `scheduler_init` |
| exceptions (`isr.c`, `isr_s.s`, `scheduler_s.s`) | the stacks, SysTick's counter and pending bit | `SVC_Handler` and its dispatch, `SysTick_Handler`, save and restore of a context |
| kernel entry (`kernel.c`) | the index into `OS_Tasks` | opens drivers, registers the tasks, idles; `fatal` |
| mutex (`mutex.c`) | none of its own | `mutex_lock`, `mutex_unlock` through SVC |
| signals (`signals.c`) | `signal_flag`, `signals_flags` | `signal_raise`, `signal_wait` |
| system calls (`syscall.c`) | `heap_top` | `sys_sleep`, `sys_yield`, `sys_getjiffy`, `sys_read`, `sys_write`, `sys_sbrk`, ... |
| application (`main.c`) | `myRTC` | `uart_task`, `mutex_task` |
| circular buffer (`circular_buffer.c`) | indices and three counters | `cbuff_init`, `cbuff_read`, `cbuff_write` |
| device layer (`sys/dev.c`) | a vnode's `offset`, a uio's `uio_resid` | `dev_open`, `dev_close`, `dev_read`, `dev_write`, `dev_seek`, `dev_ioctl` |
| serial port (`dev/uart`) | two hardware FIFOs | open, read, write |
| memory card (`dev/mmc`) | `mmc_info`, a sector buffer, the card | open, close, read, write |
| real-time clock (`dev/rtc`) over I2C (`dev/i2c`) | the address of the peer; the transmit FIFO, the clock's registers | set and get the time; open, read, write |
| libc (`lib/libc`) | the buffer `bf` of a call | `printf`, `getchar` |
| SPI, LCD, PWM, GPIO | registers, mostly | see section 7 |

**How they interact.**  Everything runs on one core.  SVC has the highest
priority and SysTick the lowest (`kernel.c:95-96`), so the two handlers never
preempt each other: a SysTick that expires during an SVC is taken when the SVC
returns.  Thread mode, which includes the idle task, the drivers, `signal_wait`
and the registration of tasks, is preempted anywhere.  The handlers share
`tasks[]` with the registration, the global `signal_flag` with `signal_wait`,
and `current_tid` with the assembly that saves and restores contexts.  The
drivers share the hardware with one another only through the mutex, and only if
the tasks take it.

**What is hard.**
- The tick may come between any two accesses of thread mode: in the middle of a
  registration, between the store of `signal_flag` and the wait for it, between
  the test of a FIFO and its access.
- Every choice of a task restarts the timer (`scheduler.c:161`), so voluntary
  switches and ticks interfere, and a tick may already be pending when an SVC
  restarts the timer.
- `mutex_unlock` wakes nobody.  A waiter gets the mutex in the scan of whichever
  switch comes next, unless a newcomer locks first.
- `jiffy` and deadlines wrap (`-fwrapv`).
- `dev_read` retries a driver that failed; a write to the card is a read, a
  change and a write of a sector, each of which may fail.
- The I2C driver puts words into a FIFO and goes on: a call begins while the bus
  still carries the one before, and the wait for the acknowledge may time out or
  end with the acknowledge of an earlier byte.

**What makes each component correct.**  Scheduler: exactly one running task and
it is the one whose context is restored; no idling and no starvation; sleeps
that last long enough and not too long.  Mutex: one holder, no lost grant, the
behaviour of an abstract lock.  Signals: the flag is charged to its own task,
and the wait really includes a call of the scheduler.  Registration: a handler
never sees half a task.  Buffer: a queue.  Serial port: counted elements are
moved elements, messages are whole.  Card: only the bytes of the call change,
reads return the right bytes, calls return if the card answers.  Clock: the time that is read is the
one the clock had, in the right fields, and no word is lost on the way.  printf:
what is written is what the items of the format mean.

## 2. Modules

| module | models | built on |
|---|---|---|
| `Scheduler` | `scheduler.c`, the SVC dispatch, `mutex.c`, `signal_wait`, the registration in `kernel.c` | |
| `MCScheduler` | instances for TLC, and `StarvationFree` | `Scheduler` |
| `SchedulerTiming` | history of sleeps, of bypasses and of `signal_wait` | `Scheduler` |
| `MutexSpec` | the abstract lock | |
| `SchedulerMutex` | the refinement mapping to it | `Scheduler`, `MutexSpec` |
| `Signals` | `signal_raise` as two accesses | `Scheduler` |
| `App` | the tasks of `main.c` | `Scheduler` |
| `Uart` | `dev_read` and `dev_write` with the serial driver, from several tasks | `Scheduler` |
| `FifoSpec`, `CircularBuffer` | the abstract queue, and the buffer that implements it | |
| `MmcRegisters` | the register CSD as a card sends it; `mmc_crc7`, `UNSTUFF_BITS` and the decoders | |
| `Mmc`, `MCMmc` | `dev_*` with the memory card driver, and the card | `MmcRegisters` |
| `Clock`, `MCClock` | the ioctls of the clock over the I2C driver, the bus, the clock | |
| `Printf`, `MCPrintf` | `printf` | |
| `SchedulerProofs` | proofs about `Scheduler`, and the refinement of the lock | `SchedulerMutex` |
| `SchedulerTimingProofs` | proofs about sleeps, round robin and `signal_wait` | `SchedulerTiming`, `SchedulerProofs` |
| `UartProofs` | proofs about the serial port under the mutex | `Uart`, `SchedulerProofs` |
| `CircularBufferProofs` | proofs about the buffer, with its refinement | `CircularBuffer` |
| `ClockProofs` | the bound on the words that wait for the bus; that the time arrives, in both directions | `Clock` |
| `MmcRegistersProofs` | what is decoded of a register that arrives intact | `MmcRegisters` |
| `MmcProofs` | what the memory card stores and delivers | `Mmc`, `MmcRegistersProofs` |
| `PrintfProofs` | what `printf` writes, and that `bf` is long enough; induction over data | `Printf` |

### Scheduler

State: the C variables by their names; the fields of `tasks[]` as functions on
`Tids`; `val` and `pending`, the timer's counter and its exception; `boot`,
where the idle task is; `pc[t]`, where a task is in `signal_wait`; `critical`,
the tasks between `mutex_lock` and `mutex_unlock`.  The last is what the callers
know and the kernel does not store.

A handler is one action, because nothing preempts it.  Each switching handler
ends in the same three calls (`k_task_update_state`, `k_task_peek_next`, state
TASK_RUNNING), which are `Updated`, `PeekNext` and `Reschedule`.  `Granted` is
the one waiter that `k_task_update_state` releases: the first of the array,
because the scan sets `mutex` when it finds one.  `RestartTimer` is the store to
`SysTick->VAL` in `k_task_peek_next`, which is not reached when it returns the
idle task.  `SwitchFrom` lets the timer expire during the SVC: before or after
the store, `pending` is set and the counter has been reloaded.

`Init` is the state at the end of `scheduler_init`.  The reset code has started
the timer long before (`c_init`), so that a SysTick may already be pending:
`TimerStarted`.

Actions: `SysTick` (`scheduler`), `Sleep`, `Yield`, `MutexLockFree` and
`MutexLockBusy` (`k_mutex_lock`), `MutexUnlock`, and in thread mode
`SignalWait`, `SignalReset`, `SignalReturn` (the three accesses of
`signal_wait`) and `RegisterFrame`, `RegisterReady`, `RegisterCount`,
`RegisterDone`, `RegisterFail` (the registration loop).  `Elapse` is the timer.

Abstractions: a frame on a stack is one bit of `sp`; `TASK_CREATED |
TASK_BLOCKED` is "blocked"; a task unlocks only a mutex it locked, and locks it
once, as every caller in the repository does; at most one timer period passes
during an SVC.

### The other modules

*SchedulerTiming* adds, for each sleeping task, the argument of the call, the
real time in timer units and the ticks since the call, for each ready task the
set of tasks that got the core meanwhile, and which calls of `signal_wait` have
seen a tick.  They constrain nothing.

*App* fixes the order of the system calls of `main.c`.  `Startup` and `Hold`
stand for 100 and 2000 ticks.

*Signals* splits `signals_flags |= signal` into load and store and records
which signals were raised.

*Uart* is a transfer of `Count` elements: the loop of `usic_uart_write` or
`usic_uart_read` with a test and an access per element, inside the loop of
`dev_write` or `dev_read`, with the mutex around it as in `main.c`.  `Transmit`
and `Receive` are the hardware.  The FIFOs have 16 words in the code and 2 in the
runs.

*CircularBuffer* takes `cbuff_write` and `cbuff_read` access by access, with one
task that writes and one that reads, and keeps the counters modulo `Modulus`.
The two tasks either exclude each other or preempt each other between any two
accesses; `exclusive` says which, and no action changes it.  `FifoSpec` is a
queue up to the first write to a full buffer.  From then on only the number of
readable elements is promised, because `cbuff_write` overwrites the element at
`end_valid` and leaves `start_valid` where it was, and only to callers that
exclude each other, because a reader that has loaded `writes` counts on an
`overflows` that the writer may have moved since.

*MmcRegisters* builds the sixteen bytes of a CSD from what a card is, inverts
some of its bits on their way, and gives the driver the result: `mmc_crc7` bit by
bit, `swap_words`, `UNSTUFF_BITS` over the end of a word, and the two decoders.
Its reference for the checksum is the remainder of a division of polynomials.

*Mmc* makes one action of each exchange with the card: a command and the answer
the driver waits for.  `at` names the exchange, `Errors` the answers that may
go wrong, `heard` whether the card will send the answer: it does not if it was busy
when the command came, is silent, or rejects a command whose status the driver
does not look at.  All waits but the one for the reset are without a bound, so the
driver then stays where it is (`Polls`).  CMD1 or ACMD41 is repeated while the card
is `NotReady`.

The cards of a run differ in the version of their CSD, in their block sizes and in
their addressing (`Place`): the driver multiplies the sector by a block size for
every card, and an SDHC card counts in blocks.  `dev_seek` wraps, and a negative
offset becomes a large sector.  `Received` skips the bytes 0xFF before the data as
`mmc_read` does, the first ones of the data among them.  There is one caller, the
card needs no checksum after a block, and reads and writes come after a
successful `dev_open`.

*Clock* has the driver's steps between two accesses of the channel, and `Shift`,
which carries the oldest word of the FIFO to the clock.  `AckOrTimeout` is free
to happen at any time: the driver does the same whether the acknowledge came,
came from an earlier byte, or did not come in 200 polls.  `Tick` changes the
time, but not while the clock is addressed, when it shows a snapshot.  The
callers set the time once and then read it, as `uart_task` does; the clock is
present and acknowledges; the byte that `ds1307_rtc_ioctl` leaves uninitialised
is any of `DayBytes`.

*Printf* takes a format as its caller means it, a sequence of items, and gives
the code the characters.  `fmt_flags`, `fmt_width`, `fmt_length` and `Specifier`
are the parser as functions of a position; `Power` and `ui2a` are the two loops
of `ui2a`, with an unsigned int of `UINT` values.  Each conversion is one step,
since nothing it uses is shared.  The reference, `Meaning`, has a numeral built
from its last digit, and knows nothing of positions.  The formats are any sequences
of items (`FormatsAssumption`) in which `%%` or a long long is the last item if it
occurs: behind one of them the arguments are no longer those of their conversions,
and what `va_arg` then takes is undefined.

## 3. Runs

Bounds are the smallest at which the interesting cases occur: three tasks for
round robin and for two waiters of one mutex; `LONG_MAX` so small that `jiffy`
and deadlines wrap all the time, which the code allows (`-fwrapv`); `LOAD` 1 or
2 units per period.  With `LOAD = 1` any switch may be followed by a tick; with
`LOAD = 2` a task may also yield faster than the timer and keep it from
expiring, which is why `timing` and the liveness runs use 2.  The clock's FIFO has the
sixteen words of the code.  The numbers of `printf` are 16 bits wide, with the
buffer as tight as it is for 32: `0x-8000` needs 8 bytes as `0x-80000000` needs 12.

| run | shows |
|---|---|
| `safety` | 3 tasks in a table of 4, a fourth in `OS_TASK_LIST`: all invariants of `Scheduler`, sleeps that end at the next tick and sleeps whose deadline wraps.  The system stops in `fatal()` once the idle task finds the table full, so deadlock is not checked.  `WorkConserving`: no idling beside a ready task, also after a tick in the idle task.  `NoLostGrant`: no switch leaves the mutex free beside a waiter. |
| `timing` | 3 tasks, all calls.  `SleepAtLeast`, in real time and not in ticks: a restart of the timer or a tick pending at the call does not shorten a sleep.  `WakeBound`: the README's upper bound, ticks plus number of tasks.  `NoDoubleBypass`: round robin.  `SchedulerCalled`: `signal_wait` returns after a tick of its own. |
| `mutex` | 3 tasks.  `ImplementsLock`: every kernel step is a step of the abstract lock.  `ImplementsFairLock`: a free mutex does not stay free beside a waiter.  `ReadyRuns`: every ready task gets the core. |
| `app` | `BothServed`: neither task of `main.c` shuts the other out of the mutex, in a system where the unlocker could take it again before the waiter's grant. |
| `buffer` | A reader and a writer that exclude each other, and two that do not.  `CountersConsistent`, also when the counters have wrapped, and `ImplementsFifo`: without any mutex the buffer is a queue as long as it does not overflow. |
| `uart` | Two tasks that write and read under the mutex: `CountIsMoved`, `WholeMessages`, `ReadsInOrder`, with FIFOs that fill and run empty. |
| `mmc` | Four cards (a CSD of version 1 and one of version 2, a smaller write block, an unknown structure) and all their errors, every single wrong bit of the register among them: `GeometryDecoded`, `StoresExactly`, `ReadsExactly`, `OpenReturns`, `TransferReturns`. |
| `clock` | Two times that differ in every field, at every moment of the bus: `ReadsClock`, `SetsClock`, `NoWordLost` (at most 15 of the 16 words are ever waiting), `GetReturns`. |
| `printf` | Formats of one and two items: `PrintsFormat`, `FitsBuffer`.  A format that is printed has ended, so deadlock is not checked. |

Three runs end in a violation, each of a sentence of the repository:

| run | sentence | what happens |
|---|---|---|
| `starvation_free` | `README.md:26`, the scheduler is starvation free | thread 0 registers the tasks and is chosen only when no other task is ready; two ready tasks keep the third from ever being registered |
| `signal_wait` | `signals.c:55`, "Wait for a signal" | it returns after a tick, whether or not a signal was raised |
| `mmc_written` | `sys/dev.c:116`, "Number of elements successfully written" | `uio_resid` is counted down before the sector is written; when CMD24 fails the full count is returned |

**Restrictions that stand for known limits of the code.**
- `SleepAtLeast` and `WakeBound` are about deadlines below the largest long int
  (`exact`), `BothServed` about runs in which no task sleeps to the last jiffy
  (`NoLastJiffy`).  A deadline that wraps wakes the task at once, and
  `jiffy > sleep_until` holds for no jiffy when the deadline is the largest.
- A task that yields more than once a period keeps SysTick from expiring
  (`scheduler.c:161`), so that `jiffy` stands still; sleeps then last longer.
  No property promises regular ticks.
- `signals_flags |= signal` loses a signal when a preemption separates load and
  store.  Nothing reads the word yet.
- Without the mutex `CountIsMoved` does not hold: a task fills the FIFO between
  another's test and access, and the dropped element is counted.
- `Times` are below 80 in every field: `_BCD_decimal` drops the upper bit of the
  tens, so that later years come back 80 smaller.  Two sets of the time in a row
  may fill the FIFO of the bus, and would lose words.
- `PrintsFormat` is about formats that end within the first 128 characters and
  have a specifier after each `%` and no `ll`.  A `%` without one, `%%` among
  them, prints what `bf` still holds; `%lld` prints `NaN` and leaves its argument
  to the next conversion.  Widths and flags have no effect, and `%x` writes a
  sign: both are so in `Meaning` too.
- `StoresExactly` and `ReadsExactly` are about transfers in which the card is used
  as the driver believes (`Understood`).  A sector that begins with the byte 0xFF
  is read shifted by `mmc_read`, which takes that byte for an idle one; on an SDHC
  card every sector but the first is looked for at its number times the block
  size; a card whose write blocks are smaller is written at another address than
  it is read.  The runs have all three.
- After an overflow, `CountersConsistent` and `FifoSpec` promise nothing to a
  reader and a writer that do not exclude each other: the number of readable
  elements may come out as almost 2^32.
- Only the wait for the reset has a timeout.  `OpenReturns` leaves out a card that
  leaves a later command unanswered (the waits at `mmc_spi.c:128-155` have no
  bound), among them one that rejects CMD9 or CMD10 and so sends no start block,
  and a card that never answers CMD1 or ACMD41 with status 0 (the loops at
  `mmc_spi.c:360-370`).  The run has all of them; the code hangs there.
  `TransferReturns` leaves out a call across the end of a sector (refused by the
  driver and repeated by `dev_read` for ever), a command that is not answered,
  because the card was busy when it came or is silent, and a card that answers
  with errors for ever.

## 4. Fairness

`FairSpec` of `Scheduler` assumes `WF(Elapse)`, the timer counts, and
`WF(SysTick)`, a pending exception is taken: both are the hardware's.  No task
is obliged to call anything, so `ReadyRuns` and `ImplementsFairLock` hold
whatever the tasks do.  The timer is not assumed to expire: `Elapse` counts one
unit, and a task that restarts it for ever makes it fire never.

`App` adds that a thread that is scheduled infinitely often advances infinitely
often.  It is stated as an implication over scheduling and not as weak
fairness, which a preempted task would satisfy by never running.  The same
condition for the idle task is `BootFairSpec`, under which `StarvationFree` is
refuted.

`Clock` assumes weak fairness of the driver's steps, since its task is scheduled
again and again, and of the bus.

`Mmc` assumes weak fairness of the exchange in progress and of the card's
storing of a block.  That the card answers and becomes ready is not assumed, but
is a condition of `OpenReturns` and `TransferReturns`.

## 5. What is proved

The theorems hold for all values of the constants that satisfy the modules'
assumptions: sizes are positive, sleeps lie in the range of long int, signals are
positive, the counters of the buffer have room for its size, the labels of the serial
port are more than its FIFO holds, the capacity of a card fits half the word of the
processor and is whole blocks, its read blocks have at most 512 bytes (the length of
the driver's sector buffer) and its C_SIZE twelve bits, `bf` has room for the longest
number. The last is `BufferAssumption`, which `TwelveBytesFit` proves of the code's
own numbers, an int of 32 bits and twelve bytes. Two modules ask for more.
`ClockProofs` needs a FIFO of at least fifteen words; the channel is configured with
sixteen. `MmcProofs` needs `Checked`: if registers may arrive damaged, the checksum
detects each of the damages in `Flips`. For arbitrary damages no checksum does; for
those of the `mmc` run (every single bit, and bursts) TLC evaluates it as the
assumption `DamagesDetected` of `MCMmc`.

| module | theorem | states |
|---|---|---|
| `SchedulerProofs` | `SpecInv` | the inductive invariant `Inv` |
| | `TypeCorrect`, `RunningIsCurrentAlways`, `MutexExclusive`, `SignalFlagOwned`, `RegistrationSafe` | the invariants of the `safety` run |
| | `WorkConservingAlways`, `NoLostGrantAlways` | its two action properties |
| | `KernelImplementsLock` | `Spec => Lock!Spec`, the safety part of the refinement |
| `SchedulerTimingProofs` | `TimingSpecInv` | the inductive invariant `TimeInv` |
| | `SleepAtLeastAlways`, `WakeBoundAlways`, `NoDoubleBypassAlways`, `SchedulerCalledAlways` | the four properties of the `timing` run |
| `UartProofs` | `PortSpecInv` | the inductive invariant `PortInv` |
| | `CountIsMovedAlways`, `WholeMessagesAlways`, `ReadsInOrderAlways` | the three properties of the `uart` run |
| `CircularBufferProofs` | `BufferSpecInv`, `CountersConsistentAlways` | the invariant `BufferInv`, and the invariant of the `buffer` run |
| | `BufferImplementsFifo` | `Spec => Fifo!FifoSpec` |
| `ClockProofs` | `ClockSpecInv`, `NoWordLostAlways` | the invariant `ClockInv`, and the invariant of the `clock` run |
| | `TransferSpecInv` | the inductive invariant `TransferInv` |
| | `ReadsClockAlways`, `SetsClockAlways` | the two action properties of the `clock` run |
| `MmcRegistersProofs` | `IntactDecoded` | every field that is used of an intact register has the value of the card |
| `MmcProofs` | `MmcSpecInv` | the inductive invariant `MmcInv` |
| | `GeometryDecodedAlways`, `StoresExactlyAlways`, `ReadsExactlyAlways` | the three safety properties of the `mmc` run |
| `PrintfProofs` | `ConvertsNumbers` | every number is converted to its numeral, for every width of int |
| | `TwelveBytesFit` | `BufferAssumption` for an int of 32 bits and twelve bytes |
| | `PrintfSpecInv` | the inductive invariant `PrintfInv` |
| | `PrintsFormatAlways`, `FitsBufferAlways` | the two invariants of the `printf` run |

**The kernel.**  The invariants of the run are not inductive on their own.  `Inv` adds two facts.
`BootInv` says what the idle task has already written at each point of the
registration (there is a slot, its frame is complete, its state is ready);
without it `RegisterCount` could count an incomplete task.  `WaitInv` says that
the idle task is ready or running, that only registered tasks are in `critical`,
and that a task in the state mutex_blocked is in `critical`; without it a scan
could grant the mutex to a task that has not asked for it.

The proof follows the code.  `PeekNextChoice` and `PeekNextIdle` say what the
scan returns, from the well-foundedness of `<` on the naturals.  `GrantedOnce`
says that one scan grants at most one waiter, and only a free mutex.
`SwitchHolds` gives the holders after a switch, and `SwitchInv` that any
switching handler preserves `Inv`, whatever state it gives its caller;
`SysTickSwitches` and `SvcSwitches` reduce each handler to it.  The other
actions have a lemma each, and `NextInv` collects them.  `WorkConserving` and
`NoLostGrant` are then read off a step from a state of `Inv`.  In the
refinement, `HolderFacts` ties the abstract holder to `mutex`, and each action
is an `Acquire`, a `Block`, a `Grant`, a `Release` or a stutter.

**Time.**  What a sleep lasts is in the history and not in the kernel, so `TimeInv`
ties the two together, for each task `t` whose deadline does not wrap.  While `t` is
blocked, its deadline is that many ticks away (`BlockedInv`), and the time since its
call plus the rest of the period is at least the ticks times `LOAD`, unless the
first tick was pending when it called (`OldEnough`): a restart of the timer only
makes the rest longer.  Once `t` is woken it has slept long enough, and the ticks
since its call exceed its argument by no more than the turns that others had in
the scan (`Turns` in `ReadyInv`); a switch that gives another task the core takes
the scan at least one task closer to `t` (`FewerTurns`), which bounds the wait by
the number of tasks.  Round robin is `BypassInv`: the tasks that got the core since
`t` became ready are those between `t` and the current one, in the order of the
scan (`PeekNextInOrder`).  `CallInv` says that a task is past the store of
`signal_wait` only with the flag of its own call, or after a tick of its own.

**The serial port.**  `PortInv` says that only a task past `mutex_lock` has tested a
FIFO or is between two elements (`TransferInv`); that rests on `MutualExclusion` and
on `HoldersKept`, that no handler pushes a holder back behind `mutex_lock`.  A holder
is the only one to access the FIFOs (`OnlyUser`), and the hardware only makes
room in one and adds to the other, so that a test still holds at its access; then
nothing is dropped and `CountIsMoved` follows.  `MessageInv` says that the transmit
FIFO is a chain that continues what is on the wire and that the transfer in
progress continues the chain; `LabelInv` says the same of the received elements.

**The buffer.**  `Readable` is a difference of counters modulo 2^w: `Difference` says
that counting once more changes it by one, as long as it stays within the modulus,
and `Index` that the slot after the readable elements moves with the indices.
`RoomInv` is what makes the preemptions harmless: the writer has tested that there
is room, and only the reader changes that, to its advantage; and the reverse.
After an overflow that holds for callers that exclude each other only.  `Slots`
says that the slot of the next write is none of the readable ones, from which the
store of an element leaves the queue as it is, and the refinement follows: a write
enters the queue with its counter, a read leaves it with its counter, and an
empty buffer is read when `writes` is loaded.

**The clock.**  `Most` bounds the words that may wait at each place of the driver.
The bus need not have moved since the time was set: those are ten words, and the
first read adds five until it has to wait.  `AskedInv` says that the request of a
byte is the last word of the FIFO, so that it is empty when the byte arrives; from
then on there are never more than two.

What these words are needs more.  The setting of the time and one reading after it
are a stream of twenty-two numbered words, of which the driver has put the first
`Words` at each of its places and the bus has carried `Carried`, the difference to
the length of the FIFO.  `StreamInv` says that the words that wait are those of
their numbers, `RegistersInv` that `Carried` determines the pointer of the clock, whether it
is addressed and which of its registers already hold the new time, and `ReadInv`
that the bytes read so far are the registers from the first on.  A complete reading
counts like the setting, since both end with a stop and the next reading may follow
either.  The clock counts on between two transfers only, so a reading shows the
registers as they were at its start (`started`); `TwoDigits` takes each field through
both conversions.

**The memory card.**  `MmcInv` says what the driver holds at each exchange: from the
command on, the bytes of the call lie in one sector (`InBlock`), which is on the card
when its data arrive; until then nothing is counted down, so that `dev_read` may begin
again; and at the write, `buf` is the sector as it is on the card with the caller's
bytes in it (`Modified`).  `OpenInv` says that an open card has been decoded right,
which is `IntactDecoded` and the hypothesis on damages.  The address is a product
modulo 2^32 of a quotient: `Placed` says that a sector which begins on the card ends
there, and contains the offset.  An offset below zero lies beyond the
signed half of the word, where there is no card, so it needs no test in the driver.
`Understood` enters in `Located`, where the address read, the address written and the
offset meet.  `StoreAlone` and `DeliverAlone` say that nothing else changes the card
or ends a `dev_read`, and the two action properties follow.

**Its registers.**  The functions in `MmcRegisters` are recursive over a fixed number
of bits and are unfolded: a number of up to twelve bits is the sum of its weights
(`NumberIsSum`) and has the bits it was made of (`ByteBits`); `CsdBit` finds each bit
of the register in the words after `swap_words`, and `Unstuffed` each field, also across
two words.  The remainder of the division has a degree below seven (`ChecksumBits`),
so that the checksum reaches no field.

**printf: numbers.**  `ui2a` goes down from the largest power of the base, the numeral
of the reference up from the last digit: they meet only by induction.  The library's
induction theorems take an operator as a parameter, which these provers cannot
instantiate; `AllNumbers` is the same as a statement about a set, and
`RecursionTheorem` says that a recursion has a solution if it is a function from
functions to functions that looks only at arguments of smaller measure.  `Power`,
`digits`, `Numeral` and the join of sequences are such recursions.  `PowerStep` says
that each multiplication by the base stays within the number and so never wraps,
`PowerReached` that it ends at the largest power.  `Completes(d, w, base)` says that
the digits from the power `d` down continue the numeral of whatever digits stand above
them; `UnitsComplete` has it for the last digit and `HigherComplete` carries it to the
next power, and `Ui2aWritesNumeral` puts them together.  A numeral grows with its
number (`LongerNumeral`), so the ends of the range decide whether `bf` suffices.

**printf: formats.**  `PrintfInv` says that the first so many items have been read,
taken and written (`PastItems`): the position is behind their characters, what is left
of the arguments is what the later items ask for, and the output is the join of their
meanings; or the last item, an unsupported one, has been looked at (`PastLast`).  Where
an item stands in the text of the whole format is `Segment`, from the recursive
definition of the join.  In front of a conversion the parser finds exactly its parts
(`Parsed`): a width that begins with `0` loses it to the flags and ends at the same
place, and the first character that is no digit belongs to the length or is the
specifier.  `TextStep`, `SupportedStep` and `UnsupportedStep` are the steps from
there, and `PrintsFormat` is the invariant behind the last item.

**Only model-checked:** all liveness (`ReadyRuns`, `ImplementsFairLock`,
`BothServed`, `OpenReturns`, `TransferReturns`, `GetReturns`), which this prover
cannot treat; and of the checksum of the card's registers that it detects the damages
and accepts an intact register, which `IntactDecoded` takes from the driver's own
comparison.

## 6. Plan

Done, in this order: `Scheduler` and its invariants; `SchedulerTiming`;
`MutexSpec` and `SchedulerMutex`; `App`; `Signals`; `CircularBuffer` with
`FifoSpec`; `Uart`; `Mmc` with `MmcRegisters`; `Clock`; `Printf`; the proofs of the
kernel, the lock, the timing, the serial port, the buffer, the clock, the memory
card with its registers, and `printf`.

What could follow:
1. Two callers of the memory card under the mutex of the kernel, as `Uart` has
   them.  Without a mutex their commands interleave on the bus, and what the card
   makes of that is nowhere in the code.
2. That `mmc_crc7` computes `Checksum` for every register, from an invariant over its
   120 bits; `RecursionTheorem` is what this takes.

## 7. What is not modelled

- The contents of registers and stacks, in particular that only r4-r7 are saved
  and that a task's stack has no guard; `HardFault_Handler`; copying `.data` and
  clearing `.bss` in the reset code; the linker script.
- `sys_sbrk`, which moves `heap_top` in thread mode: its only caller is
  `cbuff_init`, and no task of the repository calls that.
- The SPI driver, one library call and one wait for a flag per byte: `Mmc` takes it
  for a reliable byte stream.  `mmc_spi_ioctl`, which only tells whether
  the card was opened.
- Opening and closing the serial port and the I2C channel, beyond the empty FIFOs
  they start with.
- The LCD driver, which is not part of the build and calls `dev_write` with a
  signature it does not have; PWM, GPIO and MCU information, which are single
  register accesses without a state of their own.

## 8. Running

    tlc -config MCSchedulerSafety.cfg MCScheduler
    tlc -config MCTiming.cfg SchedulerTiming
    tlc -config MCSchedulerMutex.cfg SchedulerMutex
    tlc -config MCMmc.cfg MCMmc
    tlapm SchedulerProofs.tla
    tlapm UartProofs.tla

and likewise for the other configurations, with the module that `PROJECT.json`
names, and for the other modules of proofs.  The operators introduced by "Faulty variant" are plausible mistakes in
the definition that follows them; with one of them in its place, the property
that `PROJECT.json` pairs it with is violated.  No specification uses them.
