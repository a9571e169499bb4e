# Verification of the Linux-driver modules

The repository is a set of loadable Linux drivers (mostly character devices for
a Raspberry Pi and the GEC6818 board), written to learn kernel concurrency
control, blocking and non-blocking I/O, asynchronous notification, timers and
interrupts. Beside them it keeps Linux drivers for study: the DM9000 network
driver and the whole MMC subsystem. It has no automated tests: a few user
programs (`*/main.c`, `ioctl-app.c`) exercise the devices by hand. This
directory holds TLA+ models of the drivers that keep shared state, TLC
configurations that check them on small instances, and TLAPS proofs of the
results that matter for every instance.

## 1. Inventory

| Part | Source (under `src/`) | State | Operations | Talks to | Hard behaviour | Correct when | Modelled |
|---|---|---|---|---|---|---|---|
| globalfifo | `rasp-driver/globalfifo/globalfifo.c`, `rasp-driver/misc/plat-misc.c` | `mem`, `current_len`, `mutex`, `r_wait`, `w_wait`, `async_queue` | open, release, read, write, poll, fasync, ioctl(FIFO_CLEAR), probe, remove | the scheduler (sleep, wake-up, signals), misc device core | test-then-sleep, removal of wait entries, faults half way through a copy | it behaves as one bounded byte FIFO; nobody sleeps through what it waits for; no wait entry outlives its call | `GlobalFifo` |
| lkm_memory FIFO | `rasp-driver/component/hello.c`, `rasp-driver/poll/hello.c` (and `async/`, `lkm-block/`) | `memory`, `len` (ushort), `mutex`, two wait queues, `fasync` | open, release, read, write, poll, fasync | as above; one file, several threads | one exit path for all ends of a call; signals the device sends to itself | as above | `LkmMem` |
| open gate | `open_count` of the lkm_memory family | `atomic_t open_count` | open, release, init | node creation | decrement and repair are two operations; init publishes the node | never two files, never stuck | `OpenCount` |
| module loading | `adc-drv/adc-drv.c`, `auto-create-node/led_drv.c`, `kern_user_communication/led_drv.c`, `led_drv/led_drv.c`, `rasp-driver/timer/second/second.c`, the lkm_memory family | what the module holds: number, cdev, class, node, region, mapping, memory | init, error path, exit | VFS: users open the device while init is running | a refusal at any step; users before the end of init | nothing is left behind, nothing is released that is not held | `ModuleLife` |
| second timer | `rasp-driver/timer/second/second.c` | `counter`, `s_timer` | open, release, read, handler | timer softirq | `del_timer()` does not wait for the handler | the handler never runs on a freed device | loading only (`ModuleLife`) |
| ADC conversion | `adc-drv/adc-drv.c` | ADCCON, ADCDAT, pin registers | ioctl | hardware | unlocked read-modify-write | a caller gets its own channel's value | loading only (`ModuleLife`) |
| DM9000 | `rasp-driver/net/dm9000/dm9000.c` (Linux driver, kept for study) | `tx_pkt_cnt`, `queue_pkt_len`, address register, `addr_lock`, link poll | xmit, interrupt, watchdog, poll, open, stop, suspend, resume, PHY and EEPROM queries | network core, chip | two locks, a softirq, an interrupt and a work item; a chip that loses transmissions | the count matches the chip; register accesses do not mix; the queue does not stay stopped | `Dm9000` |
| gpio_keys, pl022 | `rasp-driver/platform/gpio_keys.c`, `rasp-driver/spi/spi-pl022.c` (Linux drivers) | key state; message queue and transfer state | interrupt, debounce work, timer; pump | input core, SPI core | interrupt against timer and work | every press is released; the queue drains | no |
| LED and key ioctl | `ioctl/*.c` | none beyond pins | ioctl | hardware | init falls through into its error path | – | no |
| vmem block, virtual net device | `rasp-driver/blkdev/`, `rasp-driver/net/virt-dev/` | disk memory; statistics | – | block, network core | – | – | no |
| sketches | `rasp-driver/interrupt/`, `timer/`, `memory/`, `rtc/`, `frambuffer/`, `misc/misc.c`, `spi/spi-master.c` | – | templates with placeholder names | – | – | – | no |
| first modules | `hello_module/`, `module_param/`, `more_module/`, `sym_table/`, `atomic/` | none after init | init, exit | – | – | – | no |
| SDHCI host | `mmc/host/sdhci.c` (Linux driver, kept for reading) | `cmd`, `data_cmd`, `data`, `mrqs_done`, two timers | request, command and data interrupts, timeouts, card event, removal, finish tasklet | MMC core, controller | late timers, resets that wait for the other request, interrupts of a command that is gone | every request comes back once, as a success only if carried out | `Sdhci` |
| DesignWare host | `mmc/host/dw_mmc.c` (Linux driver, kept for reading) | `state`, `pending_events`, statuses, two timers | request, interrupt, timers, tasklet | MMC core, controller, DMA | the handler does not take the tasklet's lock; hangs; failing aborts | as above; the DMA never outlives its request | `DwMmc` |
| MMC block queue, host claim | `mmc/core/block.c`, `mmc/core/queue.c`, `mmc/core/core.c` (Linux code, kept for reading) | `in_flight`, `busy`, `rw_wait`, `complete_req`, `recovery_needed`; the claim | queue_rq, completion, complete_work, recovery_work, suspend, claim, release | block layer, host driver, other claimers | four contexts on one queue, retries, tags used again before they are counted down | one user of the host at a time; the claim in balance; every request ends and is reported truly | `MmcBlk` |
| other MMC hosts, card start-up | the rest of `mmc/` (about 150 files) | – | vendored kernel source | – | – | – | no |

`PROJECT.json` lists every part with its status, and every hazard at the line
where it bites, with the properties that cover it or the reason none does.

## 2. Modules

| Module | What it is |
|---|---|
| `KernelSync` | the kernel services the FIFO drivers use: one mutex, two wait queues, run states, pending signals (external: modelled from how the drivers use them) |
| `BoundedFifo` | abstract specification of both FIFO devices: a bounded queue of bytes, each transfer at one instant |
| `GlobalFifo`, `MCGlobalFifo`, `GlobalFifoProofs` | the globalfifo device, its instances, its theorems |
| `LkmMem`, `MCLkmMem`, `LkmMemProofs` | the lkm_memory device, its instances, its theorems |
| `OpenCount`, `OpenCountProofs` | the open gate and its theorems |
| `ModuleLife`, `ModuleLifeProofs` | init, error path and exit of five character drivers, as tables the kernel runs; its theorems |
| `Dm9000`, `MCDm9000`, `Dm9000Proofs` | the DM9000 network driver with its chip, the boards of its run, its theorems |
| `MmcHost` | abstract specification of an MMC host driver: what the core expects of it |
| `Sdhci`, `MCSdhci`, `SdhciProofs` | the SDHCI host driver with its controller, and its requests; implements `MmcHost`; its theorems |
| `DwMmc`, `MCDwMmc`, `DwMmcProofs` | the DesignWare host driver with its controller, and its requests; implements `MmcHost`; its theorems |
| `MmcBlk`, `MCMmcBlk`, `MmcBlkProofs` | the block queue above a host that behaves as `MmcHost` says, and the claim of the host; its theorems |

Definitions whose name starts with `Bad` are plausible slips in the definition
they stand in front of (a dropped guard, a wrong label, a missing wake-up). No
specification uses them. Each property has one that breaks it, listed under
`mutants`: it shows that the property depends on the code.

### How the state and the actions correspond to the code

**GlobalFifo.** The device variables have the names of the fields of
`struct globalfifo_dev`. Each task has a program counter; a step is what a task
does between two points where another can see it. `read` and `write` share
their control flow:

| Action | Statements |
|---|---|
| `Enter` | the system call, with a count and the file's O_NONBLOCK flag |
| `Lock` | `mutex_lock`, `add_wait_queue` under the lock of the head |
| `WouldBlock`, `Sleep` | the body of `while (current_len == 0)` (or `== SIZE`): `-EAGAIN`, or `__set_current_state` and `mutex_unlock` |
| `Schedule`, `Relock` | `schedule()`, the test for a signal, `mutex_lock` |
| `Clip` | `if (count > ...) count = ...` |
| `ReadCopy`, `WriteCopy` | the copy, which may fault after any number of bytes |
| `ReadUpdate`, `WriteUpdate` | the shift and the new `current_len` |
| `WakeBegin`, `WakeEnd` | the two ends of `wake_up_interruptible`'s walk under the lock of the head |
| `KillFasync` | SIGIO after a write |
| `Out` | the label `out`: `mutex_unlock` |
| `Out2`, `UnlinkBegin`, `UnlinkEnd` | the label `out2`: `remove_wait_queue`; in two steps where it does not take the lock of the list it edits |
| `Return` | back to user mode |
| `PollWaitR`, `PollWaitW`, `PollAgain` | `globalfifo_poll`: an entry on `r_wait`, then one on `w_wait` and the mask; the mask alone when poll(2) calls it again |
| `PollSchedule`, `PollFree` | what poll(2) does around it: sleep, and remove the two entries |

The walk has two ends because `globalfifo.c` removes a reader's entry from
`r_wait` under the lock of `w_wait` (line 147): the lock of the list that is
being walked does not exclude the removal. If both happen together the model
lets the walker either get through or die ("oops"), as the build may do either.
For the same reason that removal has two ends: between them others add and
remove entries of `r_wait` under the list's own lock (readers at `Lock`, pollers
at `PollWaitR` and `PollFree`; the set `edits`), and when it ends the removal is
lost, or some of their edits are, or nothing is. Every other edit of a list is
one step under the lock of its head, which waits for a walk of it. The constant
`Driver` selects the build: in plat-misc.c the removal names the right head and
is one step. `globalfifo_probe` and `globalfifo_remove` bind and unbind the
platform device; probe starts from fresh, zeroed memory.

**LkmMem.** The same structure for `struct lkm_mem_dev`, with what is
different: the one exit path (`Exit`) that always unlocks, the signals to the
owner of the file at three places (`Kill`), the early return of `poll/hello.c`'s
write, `len` as a 16-bit value, and a poll mask in which POLLOUT is reported
only if there is also data (`Mask`). Its tasks are threads sharing the one file
that the open gate admits. The file has an `owner`, picked at `lkm_mem_open`
from the constant `Owners`: which calls its threads make, with O_NONBLOCK or
not, with FASYNC or not, and whether signals reach them. One run thus covers
several kinds of program, one after the other on the same device.

**OpenCount.** `lkm_mem_open` is the `atomic_dec_and_test`; `Refuse` is the
`atomic_inc` of an open that returns `-EBUSY`. `setup_dev`, `device_create`,
`InitReturns` and `lkm_mem_exit` are the stages of loading. The two builds
differ in the stage that sets the count.

**ModuleLife.** For each driver the table gives the order in which init asks for
resources, the error path, the label each refusal jumps to, the order of exit,
which resources admit users and which the file operations use. The actions are
the kernel running the table. A resource whose refusal init does not notice is
in `unchecked`.

**Dm9000.** The chip is modelled as far as the driver sees it: an address
register, mask and status registers (ISR, and NSR, which reading clears), one
packet on the wire and one in transmit memory, receive memory, and one PHY or
EEPROM access at a time. It completes or loses transmissions, receives, and changes
the link by itself. A section below `db->lock` that saves the address register
(`reg_save`), selects others and restores it is two or more steps, because the
chip and the other processors go on meanwhile: `Enter` saves and selects,
`Within` selects, `Leave` restores. These are the interrupt handler (four steps:
`IrqEnter`, `dm9000_rx`, `dm9000_tx_done`, `IrqExit`), the watchdog
(`TimeoutBegins`, `TimeoutEnds`) and both halves of a PHY access (`PhyCommand` and
`PhySleeps`, `PhyResult` and `PhyDone`), between which the caller sleeps. A
section that restores nothing (`dm9000_start_xmit`, the reads of NSR and NCR,
either half of an EEPROM access) is one step, a `Touch`. Open, stop, suspend and
resume access registers outside the lock; each is a list of operations (`OpenOps`,
`StopOps`, ...) in which a register write is a `Select` and a `Write`, and the
actions named after the operations work the list off. They can fall into anybody's
section on a board with several processors (`smp`); with one, a section keeps the
list from going on (`Runs`). The link poll reads NSR and, if the carrier has
changed, NCR and the PHY (`PollSimple`, `PollNcr`, `PollPhy`, `PollPhy2`), or the
PHY only. NSR is read by the handler, the poll, the ethtool query and the wake-up
handler (`ReadNsr`); a completion one of the others consumes is never counted, and
`taken` says so. `last` is the register selected last by somebody who does not
restore it. Only the properties read these two.

**MmcHost, Sdhci, DwMmc.** `MmcHost` is the contract: `request`, the card
carries it out or not, `mmc_request_done` once, and with success only if it was
carried out. In the two drivers the host structure and the controller are one
record `h`, and a C function that changes them is an operator from record to
record under its own name (`sdhci_finish_command`, `dw_mci_data_complete`); the
actions are what runs in one go: the interrupt handler, a timer's expiry and
separately its handler (which may wait for the lock meanwhile), the tasklet, the
request. Sdhci's tasklet finishes one request per step, with the lock released
before `mmc_request_done`. DwMmc's tasklet makes one step per state of its loop,
and events arrive between any two of them. `Respond`, `DataPhase`, `Transfer`
and `TransferFails` are the controller, `Hang` its failure to interrupt. In
Sdhci a response is missing, or has a wrong checksum, a wrong index or end bit,
or both; a wrong checksum of a data command leaves the request to the data
interrupt, everything else ends it. In DwMmc a kind is `mute` if
its command expects no response, or if it is a data command whose abort
`dw_mci_prep_stop_abort` does not know: that abort is then written as command 0
without a response, and no command timer is armed for either
(`ExpectsResponse`). A missing end bit or CRC status (EBE) and a data timeout
(DRTO) end the data without an abort, any other data error with one.

**MmcBlk.** Five contexts, each with a program counter in `act`: the dispatcher
(`mmc_mq_queue_rq`, `mmc_blk_rw_wait`, `Go`, `SyncOp`, `Leave`, `Undo`), the
host's completion (`mmc_blk_mq_req_done`), the completion work, the recovery
work, and a dispatcher that has let the next one in (`busy` is false again) and
has yet to put the card or to return (`late`: `UndoPut`, `Return`). Polling for
the card, recovery, the single-sector loop and the completion of a request
(`Lock` to `Put`) are shared operators taking the context, as the functions are
in block.c. `claim` is the claim of mmc_get_card and mmc_put_card, `other`
another task that suspends the queue or looks for the card. The host is what
`MmcHost` promises: it gives every request back, with the results the setup
allows (`Results`: all, some or no blocks transferred, with or without an error
in the transfer or its stop). `card.lied` collects the kinds of request that
were reported as done without having been: also by the single-sector loop.

## 3. Runs

| Run | Configuration | What it checks |
|---|---|---|
| `fifo_transfer` | plat-misc.c; two blocking readers, one of which also polls and takes signals, one writer, blocking or not, which also polls; fairness | `TypeOK`, `CopyUnderLock`, `NoLostReaderWakeup`, `NoLostWriterWakeup`, `NoDanglingEntry`, `NoOops`, `NonblockReturns` |
| `fifo_calls` | globalfifo.c; one reader, one writer, every kind of call: zero and oversized counts, faults, poll, FASYNC, FIFO_CLEAR, signals | `ReturnMatchesTransfer`, refinement of `BoundedFifo` |
| `lkm_files` | component/hello.c, opened in turn by a blocking owner (two readers, one writer, no signals) and an O_NONBLOCK one (two threads, FASYNC, signals, faults); fairness | `CopyUnderLock`, `NoLostWakeup`, `NoDanglingEntry`, `ReturnMatchesTransfer`, refinement of `BoundedFifo`, `NonblockReturns` |
| `lkm_signal` | component/hello.c; blocking with FASYNC | **violated**: `CopyUnderLock` |
| `open_component` | five openers | `SingleHolder`, `Reopenable` |
| `module_life` | five drivers, three users | `NothingLeft`, `ReleasesHeld`, `FilesServed` |
| `dm9000` | a DM9000E with the simple link query on several processors, a DM9000A with the MII query on one; fairness | `AddressPreserved`, `AddressKept`, `CountMatchesChip`, `OwnLength`, `OwnTransaction`, `PollEnds`, `QueueMoves`, `RxServed` |
| `sdhci` | requests of five kinds and a command during an ongoing transfer; hangs, card removal or controller loss; fairness | `OnlyLiveRequests`, `NoWarning`, `NoStrayInterrupt`, refinement of `MmcHost` (its liveness included) |
| `dwmmc` | two requests of eight kinds; errors, hangs, timers; fairness | `NoWarning`, `NoLateDma`, refinement of `MmcHost` (its liveness included) |
| `dwmmc_late` | the same, an expired timer may wait while the next request starts | **violated**: `CtoOff` |
| `mmcblk` | two tags, both kinds of host, eleven setups; fairness | `HostExclusive`, `SuspendedQuiet`, `ClaimBalanced`, `WrongReports`, `RequestsEnd` |
| `mmcblk_single` | reads that fail | **violated**: `SingleTrue` |

Twelve further configurations are kept to reproduce findings of section 5; TLC
stops in each with a counterexample:

| Configuration | Module | Violates |
|---|---|---|
| `GlobalFifo_clear.cfg` | `MCGlobalFifo` | `NoLostWriterWakeup`, after FIFO_CLEAR by a third task |
| `GlobalFifo_remove.cfg` | `MCGlobalFifo` | `NoOops`, globalfifo.c |
| `GlobalFifo_unlink.cfg` | `MCGlobalFifo` | `NoLostReaderWakeup`, globalfifo.c with two readers; `NoDanglingEntry` as well |
| `LkmMem_leak.cfg` | `MCLkmMem` | `NonblockReturns`, poll/hello.c |
| `ModuleLife_adc.cfg` | `ModuleLife` | `Served`, adc-drv.c |
| `OpenCount_spinlock.cfg` | `OpenCount` | `SingleHolder`, spinlock/hello.c |
| `Sdhci_unwatched.cfg` | `MCSdhci` | `RequestsReturn`, hangs in commands without a timer |
| `DwMmc_unwatched.cfg` | `MCDwMmc` | `HostSpec`, a hang in a command or an abort without a response |
| `Dm9000_suspend.cfg` | `MCDm9000` | `AddressKept`, suspend without wake-on-LAN |
| `Dm9000_newchip.cfg` | `MCDm9000` | `AddressPreserved`, a DM9000A on several processors |
| `Dm9000_nsr.cfg` | `MCDm9000` | `NoneTaken`, a completion read by the link poll |
| `Dm9000_wake.cfg` | `MCDm9000` | `ChipDrains`, a full chip across suspend and resume |

Every module defines its type invariant as `TypeOK`; it serves as the
documentation of the state. The run `fifo_transfer` checks that of `GlobalFifo`,
where the range of `current_len` is part of the claim; the others can be added to
the configuration of the module's run.

### Bounds

* `Size` = 2 and `Bytes` = {0, 1}: empty, partly filled and full are three
  different states, a transfer can be partial on either side, and a byte out of
  order is visible.
* Counts 0, 1, `Size` and `Size` + 1: nothing, part, all and more than fits.
* Two readers and one writer are the fewest with which one reader can take the
  data another was woken for; the poller among them adds and removes entries of
  both lists meanwhile. For one pair of tasks every kind of call is enumerated.
  The invariants the runs check are proved for any instance (section 4), so the
  bounds matter only for liveness.
* Five openers: several repairs under way while the holder leaves and another
  arrives.
* Three users of `ModuleLife`: its properties depend only on whether some file
  is open; one would do.
* `open_count` and `len` need no bound of their own: the former stays within the
  number of tasks, the latter within 16 bits.
* `Dm9000`: two lengths tell whose packet is whose, `MaxRx` = 1 packet in receive
  memory (more only repeat the loop of `dm9000_rx`). The chip holds two packets,
  as the driver uses it.
  Two boards: each chip with the number of processors and the link query for which
  `AddressPreserved` holds; section 5 shows the others.
* `Sdhci`: two requests, as many as `SDHCI_MAX_MRQS` has slots for, the second a
  command sent during an ongoing transfer (`MaxMeanwhile` = 1 of them per
  transfer). Each behaviour meets one kind of fault (`Setups`), any number of
  times. `Unwatched` = FALSE keeps hangs to commands that have a timer of their
  own; finding 9 is the other case.
* `DwMmc`: two requests, so that one can meet what another left. The eight kinds
  are a command, single, open-ended and counted transfers, a command without a
  response, and a transfer whose abort is unknown. `Unwatched` = FALSE keeps
  hangs to commands that have a timer and to reads before the data is over: a
  write that never ends has no timer in the driver, and finding 11 is the case
  of a command without one. `LateTimers` = FALSE: an expired timer gets the lock
  before the next request starts; finding 2 is the other case.
* `MmcBlk`: two tags (a transfer and the next one prepared behind it), `Blocks`
  = 2 (a transfer can end in part), `MAX_RETRIES` = 2 and `DATA_RETRIES` =
  `READ_SINGLE_RETRIES` = 1, which keep the order of the constants of block.c
  with each counter able to run out. A setup says which operations occur, whose
  transfers may fail, how many requests are submitted and how often the other
  task comes; the eleven together have failing transfers next to good ones, tags
  used again at once, and the other task in between. One dispatcher at a time
  can be late with its `mmc_put_card`: the next one begins beside it, a third
  waits until it has returned.

Deadlock is checked except in `fifo_calls`, where a task may have died holding
the mutex; `mmcblk` and `mmcblk_single`, whose submitted requests are bounded and
which end when all are done; and the further configurations `GlobalFifo_unlink`,
`LkmMem_leak`, `Sdhci_unwatched` and `DwMmc_unwatched`, in which a task dies, the
mutex is never given back or a request never comes back.

### Fairness

`FairSpec` of both FIFO modules assumes strong fairness of `Step(p)`, the
statements of task p inside a call. The kernel justifies it: a runnable task is
scheduled, a mutex is handed to its waiters in order (a spinlock in the order of
its queue), so a task that finds its lock free again and again gets it. Nothing
is assumed of a task in user mode, which need not call again, nor of a task asleep
in `schedule()`: it has no step until somebody wakes it.

`FairSpec` of `Dm9000` assumes strong fairness of the interrupt handler, the
watchdog, the operation under way and the link poll: each waits for a spinlock or
a mutex that is free again and again. Nothing is assumed of the chip or of the
network core, which need not transmit or receive.

The host drivers assume weak fairness: a raised interrupt is served, a scheduled
tasklet and an expired timer run, and the controller answers unless it hangs. A
hang disables the controller's action, so `MmcHost`'s promise that every request
is given back is then kept by the timers alone.

`MmcBlk` assumes weak fairness of the dispatcher (the block layer runs a queue
again that refused a request), of the host (`MmcHost`), of the two work items and
of the other task, which lets go of the host.

## 4. Proofs

`GlobalFifoProofs` proves for any set of tasks, any capacity above zero, any
set of bytes and any calls:

| Theorem | Statement |
|---|---|
| `TypeCorrect` | `Spec => []TypeOK` |
| `CopyUnderLockHolds` | `Spec => []CopyUnderLock` |
| `NoLostReaderWakeupHolds` | `Spec => []NoLostReaderWakeup` for plat-misc.c |
| `NoLostWriterWakeupHolds` | the same for writers, if nobody issues FIFO_CLEAR |
| `NoDanglingEntryHolds` | `Spec => []NoDanglingEntry` for plat-misc.c |
| `NoOopsHolds` | `Spec => []NoOops` for plat-misc.c |
| `ReturnMatchesTransferHolds` | `Spec => []ReturnMatchesTransfer` for globalfifo.c |
| `Refinement` | `Spec => FifoSpec` |

They follow from one inductive invariant `IInv`, proved in `Invariance` with one
lemma per conjunct and in each lemma one step per action. Its parts, and why the
properties are not inductive without them:

* `MutexInv`: a task at a statement of the critical section owns the mutex.
  This makes everything between `Lock` and `Out` stable against the others.
* `FilesInv`: a task inside a call has the device open, and an unbound device
  has no files. Probe and remove therefore meet no call under way.
* `OpInv`, `WalkInv`: which operation is at which statement, and that a walked
  queue is walked by a task at its `walk` statement.
* `QueueInv`: a task that may sleep is on the queue its waker walks; for readers
  and POLLIN pollers in plat-misc.c only, where nothing can tear `r_wait`.
* `CopyInv`: the count was clipped to what is still there, and the copied bytes
  are the ones at the head (read) or behind the data (write).
* `ReaderWakeInv`, `WriterWakeInv`: the heart of the argument. "No reader is
  asleep while there is data and the mutex is free" is not preserved by
  `WriteUpdate`, after which readers *are* asleep with data. The invariant is
  that a sleeper for something that is there is about to be woken: the mutex
  owner is at `wake` or `walk` and walks the sleeper's queue (`Waking`). The
  mutex is not free then, and the owner cannot release it before the walk has
  ended. The writer's half needs that nobody clears the FIFO.
* `ReturnInv`: what `ret` and the bytes moved have to do with each other from the
  update to the return.
* `OopsInv`: in plat-misc.c nobody unlinks from a queue another task walks.

The refinement maps the abstract queue to the first `current_len` bytes of
`mem`. `ReadUpdate` is a `Take` (lemma `SuffixOf`: the shift leaves the rest of
the queue), `WriteUpdate` a `Put` (`AppendOf`), `globalfifo_ioctl` and
`globalfifo_probe` a `Clear`, `Return` a `Call`; every other step stutters, the
copy into `mem` behind `current_len` included.

`OpenCountProofs` proves `TypeCorrect`, `SingleHolderHolds` and `ReopenableHolds`
for any finite set of tasks, for the drivers that set the count
before the node exists (`Driver = "component"`). The inductive fact is
`open_count = 1 - Cardinality(Takers)`: every task past its decrement and not yet
past its increment, refused or admitted, accounts for one. An admitted task saw
zero, so it was the only taker; the others see less until it has left.

`LkmMemProofs` proves for component/hello.c, any set of threads, any bytes and
any capacity that an unsigned short holds:

| Theorem | Statement | Condition |
|---|---|---|
| `NoDanglingEntryHolds` | `Spec => []NoDanglingEntry` | none on the owners |
| `TypeCorrect`, `CopyUnderLockHolds`, `NoLostWakeupHolds`, `ReturnMatchesTransferHolds` | the invariants of `lkm_files` | `NoSignalledSleep` |
| `Refinement` | `Spec => FifoSpec` | `NoSignalledSleep` |

`NoSignalledSleep`: every program that opens the device uses O_NONBLOCK, or
neither FASYNC nor signals. The condition is needed: without it a call woken by a
signal unlocks a mutex it does not own, and `lkm_signal` shows `CopyUnderLock`
violated (finding 1). The two owners of `lkm_files` satisfy it, one in each way.
The wait queues do not depend on the mutex, so `NoDanglingEntry` has an invariant
of its own (`QInv`: which operation is at which statement, and who is queued) and
holds for all owners. The rest follows from `IInv`, whose parts have the names and
the roles of those of `GlobalFifoProofs`; `SignalInv` is new: a signal is pending
only for a call on an O_NONBLOCK file, which is never at `schedule()`, so every
call leaves the loop with the mutex.
`SizeAssumption` bounds `Size` by `UshortMax`: `dev->len` is an unsigned short, and
`CopyInv` shows that no sum or difference of it wraps then.

`ModuleLifeProofs` proves `TypeCorrect`, `NothingLeftHolds`, `ReleasesHeldHolds`
and `FilesServedHolds` for any set of users. What a table must satisfy is stated
once (`Sound`): no resource is named twice; a refusal of line k of init jumps to
the line of the error path from which exactly the resources of the lines before
k are released; exit releases what init obtains; if the last line of init lets
users in, no label gives its resource back and the file operations use only what
init holds for certain by then (`EntryLast`). That the last line does so is
shown of the four tables for which `FilesServed` is stated; adc-drv.c creates
its node first, and `ModuleLife_adc.cfg` shows the open file without registers.
`Sound` is proved of the five tables one by one (`Sound_adc` ...), and only the
tables are read there: the rest of the proof is about the kernel that runs a
sound table. The inductive invariant gives what is held as a function of phase
and step: between the resources granted for certain and those asked for while
init runs (`InitInv`, `LiveInv`), those of the remaining lines while it is
undone (`UndoInv`, `ExitInv`), and the memory that is never freed beside them.

`Dm9000Proofs` proves for any set of boards and packet lengths:

| Theorem | Statement | Condition |
|---|---|---|
| `OwnTransactionHolds` | `Spec => []OwnTransaction` | none |
| `TypeCorrect`, `AddressPreservedHolds`, `AddressKeptHolds`, `CountMatchesChipHolds`, `OwnLengthHolds`, `PollEndsHolds` | the invariants of `dm9000` | `QuietBoards` |

`QuietBoards`: wake-on-LAN is on, and a board with the simple link query or with
several processors has a DM9000E. On other boards the chip is shut down under a
running link poll, on suspend (finding 10) or when a link change queues the poll
again while the driver stops (finding 12); the boards of the run satisfy it.
`OwnTransaction` needs only that an access is under `addr_lock` from its command
to its result (`PInv`). The invariant `IInv` for the others relates the list of
operations that is left to the state: `CtlInv` says that it is a rest of
`OpenOps`, of `StopOps` or of a short list, and what the part already done has
established (`OpenInv(k)`, `StopInv(k)`: from which operation on the handler is
installed, the poll off, the transmit memory and the count empty, and which
register is selected). `HandlerInv` ties `db->lock` to who is in a section of
several steps: the handler, the watchdog, the poll or the list. `AddrInv` says
that the register selected last by somebody who does not restore it is in the
address register while the lock is free, and in `reg_save` of the owner
otherwise: each restore puts back what a lock-free `Select` has left. That needs
that no `Select` falls into a section (it would be lost when the section
restores), which is where `QuietBoards` enters: where open and stop select
registers, the handler is not installed or interrupts are masked, the watchdog
is not active, and the poll is off or has no processor to run on. `AddressKept`
then follows for the `Write` after a `Select`. `TxInv` is the heart of the
transmit path: at most one packet is on the wire or completed and not yet
counted, at most one waits behind it, and `tx_pkt_cnt` and `queue_pkt_len` say
so. A completion that NSR announces is one an interrupt is on its way for; one
that another reader of NSR consumes (`taken`) leaves the count one too high, and
as the next packet then waits in transmit memory without being sent, no second
completion can be lost so. It holds while a handler is installed; open
establishes it by the chip's reset, the watchdog re-establishes it by another.

`MmcBlkProofs` proves for any number of tags, of blocks, of retries and of
submitted requests, and for both kinds of host:

| Theorem | Statement |
|---|---|
| `HostExclusiveHolds` | `Spec => []HostExclusive` |
| `SuspendedQuietHolds` | `Spec => []SuspendedQuiet` |
| `ClaimBalancedHolds` | `Spec => []ClaimBalanced` |
| `WrongReportsHolds` | `Spec => []WrongReports`: nothing but sectors of the single-sector loop and secure discards is reported as done without having been |

The argument counts. "Nothing in flight, so nothing claimed" is not inductive: a
step changes the count, the claim and who has the request at different times. The
invariant says where a request can be. `PlaceInv`: an issued request is in exactly
one of eight places (with the dispatcher, at the host, done and waiting to be
posted, waiting for the recovery, or with one of the four contexts that post), and
any other request in none. `CountInv`: the sum of `mq->in_flight` is the number of
places taken, a request that was posted counting until it is counted down.
Only the sum is invariant: the two counts drift apart when a tag is used again
before it is counted down. `ClaimInv`: the nesting count of the claim is one for
all requests in flight, plus one per context between its last decrement and its
`mmc_put_card` (the dispatcher that is late with it while the next one begins
included), plus one for the recovery; it is zero exactly if the queue does
not hold the host. `HostInv` and `LockInv` exclude the users of the host from each
other: a transfer is at the host only with `rw_wait` set, who polls has
`complete_lock`, and who starts the next operation has seen neither, nor
`recovery_needed`. `RecoveryInv` says that the recovery runs only while it is
needed, `OtherInv` that a suspended queue has nothing in flight, and `XferInv` that
an error only the card's status shows is one of a write on a polled host, found
before the request is posted. `ModeInv`, `PcInv`, `TargetInv` and `OwnInv` say which
context can be at which statement with which request. There is one lemma per
action and, where the contexts differ in the invariant (`Lock` to `Put`), per
context; each first states what the step does to the fields (the effect) and
derives the conjuncts from that.

`DwMmcProofs` proves for any set of requests and of kinds of them:

| Theorem | Statement | Condition |
|---|---|---|
| `TypeCorrect`, `NoLateDmaHolds` | `Spec => []TypeOK`, `Spec => []NoLateDma` | none |
| `NoWarningHolds` | `Spec => []NoWarning` | `~LateTimers` |
| `Refinement` | `Spec => HostSafe`, the steps of `MmcHost` without its fairness | `~LateTimers` |

The condition is needed: `dwmmc_late` shows the WARN_ON on the command timer when
an expired timer meets the next request (finding 2), and TLC finds `HostSafe`
violated there too: the command that the late timer has failed is still answered,
and if that interrupt comes after the start of a further request, it is taken for
the answer to that one, which then counts as a success. The invariants speak of the
*stage* of the request, the state the tasklet is in while it runs and the one it
stored otherwise. `MrqInv`: the host has a request exactly if the stage is not
idle, and it is the one the core waits for. `DmaInv` says until when the DMA may
run: it is over once the tasklet has taken its event or stopped it, and its
interrupt does not outlive the data phase; a failed command at the stop stage
has recorded the error for which the reset that follows is done. `CmdInv` and
`WarnInv`: no command is under way where the tasklet ends a request. `Timely` is
kept only without late timers. Of it `CtoInv` says that the command timer is off
when its event is there, and is not armed again before its handler ran; `LineInv`
and `AnswerInv` that the answer on its way is the one the tasklet waits for, that
it is signalled or noted once, and without an error only if the card carried the
command out; `DataInv` that data is over without an error only if the card has done
it; `TruthInv` what the card has carried out when the request is at a stage;
`OutInv` that the core has at most one request out. The refinement follows step by
step: the four steps of the core are `request` and `mmc_request_done` of `MmcHost`,
and every other step leaves the core's view alone or carries the request out
(`Grows`). The steps outside the tasklet share one
lemma (`StaysPut`: the stage stays, events come and are not taken); the tasklet has
a lemma per state, built from lemmas on what each function of the driver does to
the fields.

`SdhciProofs` proves for any set of requests, any kinds of them, any setup of the
host and any mixture of hangs, card removal and controller loss, without a
condition:

| Theorem | Statement |
|---|---|
| `TypeCorrect` | `Spec => []TypeOK` |
| `LiveRequestsOnly` | `Spec => []OnlyLiveRequests` |
| `WarningNever` | `Spec => []NoWarning` |
| `StrayInterruptNever` | `Spec => []NoStrayInterrupt` |
| `Refinement` | `Spec => HostSafe`, the steps of `MmcHost` without its fairness |

None of the properties is inductive: an interrupt handler passes through several
functions, each of which finds the host half changed by the one before. The
invariant is therefore a predicate `Good(s, o, x)` of a host `s`, the requests
`o` that are out and the one `x` about to be given back, which also holds
between two calls of one handler; there is a lemma per C function, and the
lemmas about the actions put them together. Its parts: `ReqInv`, two requests
that are out at once are an ongoing transfer whose command is done and a command
without data, so `SDHCI_MAX_MRQS` slots suffice; `CmdInv` and `DataInv`, a
command under way is one of a request that is neither finished nor being given
back, and its role tells where that request is; `LineInv`, what the controller
still has on a line or has signalled is of the command under way, or of a failed
request (`Dirty`) that waits for its reset, which is why a late interrupt finds
nothing to do and the inhibit bits are clear when the next command is sent;
`StepInv` and `ResultInv`, what the card must have done when a request is at a
command, and that a finished request has an error or was carried out. `EarlyInv`
(data that ended before its command is answered) and `DeadInv` (nothing comes
from a controller that is gone) hold between the actions only. The refinement
maps the set of carried out requests to what the card did: the handlers leave it
alone (`Known`), `Respond` and `DataPhase` change it for one request
(`Progress`), `sdhci_request` and `mmc_request_done` are the steps of the core
(`Elsewhere`: the other request is not touched).

Assumptions: `NoProc` is not a task, `Size` is a positive natural (in `LkmMem`
one that an unsigned short holds), 0 is a byte, `Driver` names a build,
`Requests` gives each task a set of calls (`NoProcAssumption`, `SizeAssumption`,
`BytesAssumption`, `DriverAssumption`, `RequestsAssumption`), the tasks of the
gate are finite (`ProcsAssumption`). The other modules add what their constants
are: `OwnersAssumption` (`LkmMem`), `DriversAssumption` (`ModuleLife`, the
tables exist), `BoardsAssumption` and `MaxRxAssumption` (`Dm9000`),
`KindsAssumption`, `SetupsAssumption`, `MaxMeanwhileAssumption`,
`UnwatchedAssumption` and `MrqsAssumption` (`Sdhci`: only a transfer has a
count, a stop or is ongoing, and it does not wait for a busy card; a request is
not the value that stands for none), `KindsAssumption`, `UnwatchedAssumption`,
`LateTimersAssumption` and `MrqsAssumption` (`DwMmc`: a request is not the value
that stands for none), `ReqsAssumption`, `SetupsAssumption`, `BlocksAssumption`
and `RetriesAssumption` (`MmcBlk`: no tag is the value that stands for none;
data errors are retried less often than others). TLC evaluates all of them.

TLC checked the inductive invariants on the instances of the runs before they
were proved.

Only model-checked: liveness (`NonblockReturns`, `QueueMoves`, `RxServed`,
`RequestsEnd`, and the liveness of `MmcHost` in `HostSpec`), which needs fairness
and ENABLED and is out of the prover's reach. Every invariant the passing runs check
is proved, under the conditions named above.

## 5. Findings

Shown by a run:

1. `lkm_signal`: in component/hello.c a call ended by a signal reaches the
   unlock without the mutex and releases somebody else's. globalfifo.c has a
   second label for that path.
2. `dwmmc_late`: a failed transfer whose data ends before its abort is answered
   is ended by a reset, with the abort's timer still armed. If it expires while
   `dw_mci_request` of the next request waits for the card to be ready, that
   request is failed as timed out, and the WARN_ON of
   `dw_mci_clear_pending_cmd_complete` fires. The answer to the command failed
   this way may then be taken for that of the request after it.
3. `mmcblk_single`: `mmc_blk_read_single` tries a sector again with `continue`
   in a do-while loop, whose condition completes the sector as read.

Shown by a further configuration:

4. `GlobalFifo_clear.cfg`: FIFO_CLEAR makes room and does not wake `w_wait`. A
   writer that went to sleep on a full FIFO stays asleep on an empty one. A
   `wake_up` of `w_wait` after `current_len = 0` would establish the invariant.
5. `GlobalFifo_remove.cfg`, `GlobalFifo_unlink.cfg`: `globalfifo_read` of
   globalfifo.c adds its entry to `r_wait` and removes it through `w_wait` (line
   147), so not under the lock of the list it edits. A writer's walk of `r_wait`
   may meet the removal; and with a second reader or a poller, whose entries
   come and go under `r_wait`'s own lock, the two edits tear the list: a reader
   whose entry is lost sleeps through the data, a removal that is lost leaves an
   entry of a stack that is gone. plat-misc.c names `r_wait` and is proved safe.
6. `LkmMem_leak.cfg`: a successful write of poll/hello.c returns before the exit
   labels, keeping the mutex and a wait entry of its stack.
7. `ModuleLife_adc.cfg`: adc-drv.c calls `device_create` before it requests and maps
   its registers. An open in between has an ioctl without registers, and if
   the request or the mapping is refused, init fails under the open file.
8. `OpenCount_spinlock.cfg`: spinlock/hello.c sets `open_count` after
   `device_create`; an open in between makes room for two files.
9. `Sdhci_unwatched.cfg`: the timer of a request is chosen by its main command.
   While the set-block-count or a stop without busy of a transfer is under way,
   the data timer runs, whose handler looks only at commands that use the data
   line: it expires, does nothing, and a hang in such a command is never noticed.
10. `Dm9000_suspend.cfg`: without wake-on-LAN `dm9000_drv_suspend` runs
   `dm9000_shutdown`, which selects and writes registers without `db->lock`, while
   the link poll still runs: the poll selects another register in
   between, although "the address register must be preserved over interrupts or
   similar calls" (the comment at the top of dm9000.c). The value meant for the
   power register goes to the one the poll has selected. `dm9000_stop` cancels the
   poll first.
11. `DwMmc_unwatched.cfg`: the command timer is armed only for a command that
   expects a response. If the controller hangs in one that expects none, or in the
   abort that `dw_mci_prep_stop_abort` writes as command 0 for a transfer it
   does not know, the request never comes back.
12. `Dm9000_newchip.cfg`: on a DM9000A with several processors a link change
   between `cancel_delayed_work_sync` and `free_irq` queues the poll again. Its
   `dm9000_phy_read` saves the address register, `dm9000_shutdown` selects a
   register on another processor, and the restore undoes that: the write goes to
   the wrong register, on a device that is being shut down.
13. `Dm9000_nsr.cfg`: reading NSR clears TX1END and TX2END. The link poll of a
   SIMPLE_PHY board (line 786), the ethtool link query (620) and the wake-up handler
   (1258) read it too; if one does so between the completion and the interrupt,
   `dm9000_tx_done` finds no completion and counts none off. `tx_pkt_cnt` stays one
   too high, and the next packet waits in transmit memory until the watchdog resets
   the chip (`QueueMoves` holds by this).
14. `Dm9000_wake.cfg`: `dm9000_drv_suspend` with wake-on-LAN leaves the chip
   running. If it was full and has lost a transmission, `netif_device_attach` on
   resume wakes the queue although `tx_pkt_cnt` is 2: every packet is refused as
   NETDEV_TX_BUSY, and as the queue is not stopped, the watchdog never resets
   the chip.

Seen while reading or modelling, without a run of its own:

* block.c: a secure discard whose erase fails with -EIO and whose reset fails
  falls through `out_retry` and ends as `BLK_STS_OK`.
* block.c: `mmc_blk_mq_post_req` completes a request before it counts it down, by
  the issue type of the tag, which may already carry another request. The two
  counts can drift apart; only their sum is used for cards without command
  queue, and `ClaimBalanced` shows the sum right.
* dw_mmc.c: the WARN_ON on the data timer can fire when the tasklet arms the
  timer again while its handler waits for `irq_lock`; it does no harm. Writes have
  no data timer.
* dm9000.c: on a DM9000B the watchdog holds `db->lock` when the initialisation
  writes a PHY register, which takes it again. `PollEnds` is stated for the DM9000E
  because of what finding 12 shows of the newer chips.
* second.c: `del_timer` does not wait for the handler, whose `mod_timer` arms the
  timer again. adc-drv.c: the registers are updated without a lock, and the
  default case converts all the same. `component/timer.c` frees the device
  without deleting a timer that re-arms itself.
* `lkm-first.c` clears a buffer it never allocates; the release of `async/hello.c`
  calls `lkm_mem_fasync` through the `private_data` it has just cleared; the init
  of the two `ioctl` drivers falls through into its error path; dev->memory of the
  lkm_memory family is never freed (`Unfreed` in `ModuleLife`).

## 6. Abstractions and limits

* Counts and buffers are abstracted to sequences over a few byte values.
  Messages to the log are left out.
* The shift to the front of the buffer is a `memcpy` of overlapping regions. The
  copies of the ARM and x86 kernels ascend, which is the shift of the models.
* The mutex is released whoever owns it, as the kernel's slow path does.
* A torn `r_wait` of globalfifo.c is a set of entries that may lack some or keep
  one too many; what a walk does in the memory of a stack that is gone is not
  followed.
* Signals are one pending bit per task. In `LkmMem` a signal to the process goes
  to any one of its threads.
* Drivers are bound and unbound by loading and unloading modules, which waits
  for open files. Unbinding through sysfs is not modelled.
* The open gate and `ModuleLife` assume that the node of the lkm_memory family
  is the one its init creates, not one left over from an earlier `mknod`.
* In `ModuleLife` an allocation of 1 KiB that may sleep is not refused
  (`NeverRefused`). `FilesServed` is stated for the drivers other than `adc-drv.c`,
  which lets users in before its registers are mapped (finding 7).
* Two tasks that retry an open which is refused can refuse each other for ever,
  each seeing the other's decrement. The drivers promise `-EBUSY`, not progress.
* On an empty lkm_memory device POLLOUT is never reported; `NoLostWakeup` speaks
  of readers, POLLIN and blocked writers.
* `Dm9000`: a section under `db->lock` that restores nothing is one step, as is
  each part of a longer one between two points where the chip or another
  processor makes a difference. The chip's reset and its PHY accesses succeed;
  the several PHY reads of `mii_check_media` are one; a poll that is queued
  while it runs is the same poll; the interrupt line is not shared. Boards with
  an external PHY are not modelled. The boards of the run have wake-on-LAN on,
  so suspend leaves the chip running (finding 10 is the other case).
* The host drivers: an interrupt handler is one step, as no code that shares
  its state runs on its processor meanwhile; resets of the controller succeed;
  data moves by DMA and has an end, an error or a hang, no contents.
* `MmcBlk`: the completions of the host come one after the other; one dispatcher is
  late with its put at a time; an error that
  only the status of the card shows occurs on hosts that are polled; what a
  recovery learns from the card (`Answers`) is any combination the code tells
  apart. The single-sector loop is modelled with its `continue`.
* Nothing is verified about the composition of `MmcBlk` with a host driver
  directly: they meet at `MmcHost`. `HostExclusive` is the half of it that the
  host drivers rely on (one transfer at a time), `HostSpec` the half that the
  queue relies on.

### Not modelled

The repository has about 120,000 lines of C, of which 109,000 are drivers/mmc of
the Linux kernel: some seventy host drivers of the same shape as the two that are
modelled, and the start-up of a card, which is sequential and reads tables of
registers. The models follow the control of the request path; most of the
remaining lines of the modelled files are clock, voltage, tuning, probing, DMA
descriptors and register decoding, which keep no shared state a property could be
about. Also left out: the sketches, which are templates with placeholder names,
drivers that do not compile (`blkdev.c`, `lkm-block/hello.c`,
`globalfifo_platform.c`), and drivers without state of their own. Of drivers with
state, `second.c`'s timer, the conversion of `adc-drv.c`, `gpio_keys.c` and
`spi-pl022.c` remain; they are in the plan.

## 7. Plan

In order of importance; the first nine are done.

1. `KernelSync`, `BoundedFifo`, `GlobalFifo`, with safety, liveness, refinement
   and proofs.
2. `LkmMem`, with the same abstract specification.
3. `OpenCount`, with proofs.
4. `ModuleLife`.
5. `Dm9000`.
6. `MmcHost` with `Sdhci` and `DwMmc`.
7. `MmcBlk`.
8. Proofs: `LkmMem` with its refinement, `ModuleLife`, `Dm9000`, `MmcBlk`, `DwMmc`
   with its refinement.
9. Proofs about `Sdhci`: `OnlyLiveRequests`, `NoWarning`, `NoStrayInterrupt`, and
   that it implements the safety part of `MmcHost`.
10. `SecondTimer`: open, handler, `del_timer` and release on several processors;
    whether the timer can be pending after the last close.
11. `AdcDrv`: two callers of the ioctl on the same registers.
12. `GpioKeys` (interrupt, debounce work, release timer) and `Pl022` (message
    queue, pump and transfer state).

## 8. Running it

In this directory:

    tlc -workers 2 -config GlobalFifo_transfer.cfg MCGlobalFifo
    tlapm GlobalFifoProofs.tla

`PROJECT.json` names the module and the configuration of each run.
