# vFPGA_SW in TLA+

The repository shares the partially reconfigurable regions (PRRs) of PCIe FPGA
boards between applications. It has three layers:

```
  applications (MMDApp threads), the task queue, the PRR and PR daemons    source/util/vFPGAScaler
  (and an earlier scheduler with one queue per kind of request)            source/util/vFPGAScheduler
        |  aocl_mmd_open / reprogram / read / write on integer handles
  MMD library: handle map, device objects, DMA, host channel               source/host/mmd
        |  read / write / ioctl on /dev/acl*, signals back
  Linux driver: BAR windows, SG-DMA, host channels, PR, interrupts         linux64/driver
```

Paths below are relative to `src/`. This file lists the parts and what makes each
correct (section 1), the plan (2), what is modelled and how it corresponds to the code
(3), what the runs check and show (4), what is proved (5), and what is left (6).

## 1. Inventory

### The Scaler (`source/util/vFPGAScaler`)

| Component | State | Operations | Correct when |
|---|---|---|---|
| Applications, `mmdapp.cpp` | the `QEntry` on the thread's stack, `__Device` | `run`: `getDevice`, `getProgram`, run a kernel, `releaseDevice` | the kernel runs on a region of its own that carries its own bitstream; every region is given back |
| Task queue daemon, `queuemanager.cpp:73-149` | `TaskQueue`, round-robin flags | `push` (mutex), `runDaemon`: pop, route, answer or pass on; `report` | every request is passed on or answered once; none is touched afterwards |
| PR daemon, one per board, `queuemanager.cpp:208-278` | `PRQueue` | `runDaemon`: pop, look again, `aocl_mmd_reprogram`, record, answer | a region is reprogrammed only for its holder |
| PRR daemon, one per region, `queuemanager.cpp:289-341` | `PRRQueue` | `runDaemon`: pop, spin until READY, mark RUNNING, answer | a region is given to one job at a time and is never lost |
| Resource registry, `resourceregistry.cpp` | handles, `Partition.status`, `programmed_with`, run time stamps | the getters and setters the daemons call, `calcPRRThroughput` | `programmed_with` is what the region carries; a throughput is computed from one run |
| Service registry, `serviceregistry.cpp` | the services, their instances and flags, the bitstream table | `registerService`, `addInstance`, lookups | every service has an instance before its first request |
| Resource scaler, `resourcescaler.cpp` | two windows per service, `n_`, `prr_throughput` | `allocInitPRR`, `scale`, `allocPRR` (its call is commented out) | no region is allocated twice; windows are those of the right queue |
| Workload and `main.cpp` | the arrival sequence | `RunDaemon`, `requestGenerator` | - |

All the daemons are threads of one process. They share the registries and the entries
without locks: the only mutex protects the producers of the task queue. The threads
wait by spinning on plain flags (`is_done`, `Partition.status`). What is hard here is the
interleaving: a flag tested in one thread, set in it later, and cleared in another; a
registry entry read while another daemon changes what it describes; pointers into
stack frames of other threads.

### The earlier scheduler (`source/util/vFPGAScheduler`)

One task queue and one PR queue, two daemons. `schedule()` picks an idle region
(`determine_partition`), writes its number into the entry and marks the entry
done; the PR daemon reprograms it and stores the new handle. Correct when a caller that sees
`is_done` sees a complete answer, and a partition has at most one holder. Hard: the
order in which the answer is written, pushes without a lock, polling daemons.

### The MMD library (`source/host/mmd`)

| Component | State | Operations | Correct when |
|---|---|---|---|
| Entry points, `acl_pcie.cpp` | `g_handle_to_device`, `unique_id`, the list of open devices | `aocl_mmd_open`, `close`, `reprogram`, get/set calls, the signal handler | a handle names one live object from open to close; a signal never reaches a deleted object |
| Device, `acl_pcie_device.cpp` | `m_being_programmed`, `m_segment`, interrupt mask, child objects | `service_interrupt`, `set_kernel_interrupt`, block reads and writes, `pr_reprogram`, `reprogram`, the version tests | interrupts are not served while the device is reprogrammed, and are again afterwards |
| Memory windows, `acl_pcie_mm_io.cpp`; DMA, `acl_pcie_dma_linux.cpp` | segment cache, transfer state | window moves, `read_block`, `write_block` | an access goes to the segment its address names |
| Host channel, `acl_pcie_hostch.cpp` | ring pointers shared with the board and the driver | create, destroy, `get_buffer`, `ack_buffer` | bytes arrive once, in order, and never overwrite bytes not yet acknowledged |
| Flash, JTAG and CvP programming | files and child processes | external tools | not a state machine of its own |

### The driver (`linux64/driver`)

| Component | State | Operations | Correct when |
|---|---|---|---|
| Partial reconfiguration, `aclpci_pr.c` | `pr_in_progress`, the freeze bridge, the semaphore | `aclpci_pr` | after every return, with or without an error, the kernel region is usable or known not to be, and interrupts flow |
| Interrupts, `aclpci.c` | the interrupt mask, `pr_in_progress`, signal number, saved user task | `probe`, `remove`, `aclpci_irq`, mask and unmask | a completion is never lost, and a board being reconfigured raises none |
| File interface, `aclpci_fileio.c` | segment register, semaphore, per-file handle | `open`, `close`, `read`, `write`, `aclpci_rw` | a transfer reaches the segment it asks for and leaves the window of the user as it was |
| SG-DMA, `aclpci_dma.c` | descriptor table, pinned pages, work queue, the two host channels | `lock`/`unlock_dma_buffer`, `aclpci_dma_update`, `wq_func`, `hostch_*` | every pinned page is unpinned; a transfer is reported done once, when it is |
| Commands, `aclpci_cmd.c` | user pages, retrain and AER bits | `aclpci_exec_cmd` | - |
| Queue, `aclpci_queue.c` | a ring of fixed size | init, push, pop, front | it is a FIFO; nothing calls it any more |

What is hard here: one process in system calls, an interrupt handler, a work queue and a
polling kernel thread share the state; error paths leave through `goto` and early
returns; a lost interrupt hangs the transfer.

The hazards, each at its line, are in `PROJECT.json`.

## 2. Plan

| # | Module | Question | State |
|---|---|---|---|
| 1 | `PRRLease` | abstract: what an application may rely on | done |
| 2 | `ScalerPipeline` | the three kinds of daemon and the applications; implements `PRRLease` | done |
| 3 | `ScalerPipelineProofs`, `ScalerLeaseProofs` | the safety properties and the refinement, for all constants | done |
| 4 | `HostTransfer` | abstract: what a host may rely on when it transfers a block | done |
| 5 | `DMAWalk`, `DriverDMA` | transfers, pinning, work queue, completion interrupt and signal, stop and close, `aclpci_pr` with its early returns; implements `HostTransfer` | done |
| 6 | `HostStream` | abstract: a bounded stream between the host and a kernel | done |
| 7 | `HostChannel` | ring pointers of MMD, driver and board, the polling work item and its restart; implements `HostStream` twice | done |
| 8 | `SegmentWindow` | block transfers through the memory window, `aclpci_rw`, three records of one register | done |
| 9 | `MmdDevice` | handle map, open, close, reprogram by both ways, kernel interrupts, the signal handler, Ctrl-C | done |
| 10 | `SchedulerPipeline` | the earlier scheduler: holder of a partition, order of the answers, its registries | done |
| 11 | `SchedulerProofs` | the safety properties of the earlier scheduler, for all constants | done |
| 12 | `MmdDeviceProofs`, `SegmentWindowProofs`, `HostChannelProofs`, `DriverDMAProofs` | every safety property of the MMD and the driver that a run checks, and both refinements, for all constants | done |
| 13 | `ScalerAlloc` | `allocInitPRR`, windows, `calcPRRThroughput` | if the code comes to use them |

Order: the Scaler is what the repository is about and its daemons interact most, so it
comes first; then what it stands on, from the part with the most error paths; then the
scheduler it replaced. Each module has an MC module of its own with two to four actors.

## 3. What is modelled

### 3.1 The request pipeline: `ScalerPipeline`

#### State

| Variable | Code |
|---|---|
| `app`, `device` | where a thread is in `MMDApp::run`, and `__Device.glob_prr_id` |
| `type`, `entryPRR`, `done` | the thread's `QEntry`: `type`, `glob_prr_id`, `is_done`. `getDevice` and `getProgram` each have an entry on their frame; a thread uses one at a time, so one per job is enough |
| `taskQ`, `prQ`, `prrQ` | the `std::queue`s of pointers; a pointer to an entry is the job that owns it |
| `tqPc`, `tqJob`, `prPc`, `prJob`, `prrPc`, `prrJob` | the daemons' program counters and the entry each popped |
| `rr` | the round-robin flags: one per service for `LocRR`, one for `GlobRR` (index `NoService`). The code lets them grow and takes the remainder on use; the model keeps the remainder |
| `status`, `programmed` | `Partition.status`, `programmed_with` |
| `config` | what the fabric really carries, which no variable of the program holds |
| `lost` | history: the regions that may carry something else than was asked for |
| `handleLive` | whether the handle in the registry is still a key of `g_handle_to_device` |
| `crashed` | `ACL_PCIE_ASSERT` has ended the process |

#### Actions

One action is one stretch of a thread between two accesses to state other threads use.

| Code | Actions, in program order |
|---|---|
| `MMDApp::run` | `SubmitDevice`, `ReturnDevice`, `SubmitProgram`, `ReturnProgram`, `RunKernel`, `ReleaseDevice`; `AppAborts` where an MMD call asserts on a dead handle |
| `TaskQueueManager::runDaemon` | `TaskPop`, then `TaskRoute` (GETDEV) or `TaskAnswer` / `TaskForward` (GETPRG), then `TaskStamp` |
| `PRQueueManager::runDaemon` | `PrPop`, `PrCheck`, `PrReprogram` / `PrFullChip` / `PrReprogramFails` / `PrAborts`, `PrRecord`, `PrAnswer` |
| `PRRQueueManager::runDaemon` | `PrrPop`, `PrrReady`, `PrrClaim`, `PrrGrant` |
| `determinPRR`, `incrRRFlag` | `Table`, `Flag`, `NextInstance`, used in `TaskRoute` |

`Aborted` is the stuttering of a process that has ended, so that deadlock of a living one
is still checked in every run.

The program runs with `LocRR` on the table `allocInitPRR` builds, one region per
service, no region twice (`PipelineInitial.cfg`). `GlobRR` is the other policy of
`determinPRR`; under it jobs of different services meet in one region, so the harder
runs and all proofs admit both, and any table of instances, overlapping ones included.

#### Abstractions

- `push`, `front`+`pop` of a `std::queue` are atomic. In the code only the task queue's
  producers take a lock; a consumer and a producer on a `std::deque` at once is undefined
  behaviour. The model says what the pipeline does when the container survives that; the hazard
  is listed as not covered.
- The Scaler's Makefile builds without optimisation, so a spin re-reads its flag.
- Bitstream files exist: `getServiceBin` and `loadFileIntoMemory` end the program if not.
- `aocl_mmd_reprogram` has three outcomes. `PrReprogram` reconfigures the entry's region and no other.
  `PrFullChip` is the JTAG way, which the MMD falls back to when the file does not fit the board's base design or
  Quartus version or lacks a section: it replaces what every region of the board carries, and reports a success although
  the entry's region may carry a base design, or what it had before. `PrReprogramFails` leaves any of these and
  reports a failure. `JtagFallback` and `ReprogramMayFail` say which of them an instance has; the steps behind them
  are in `MmdDevice` (3.5). A region that a programming has left with something else than its service, or has changed
  on behalf of another region, is in `lost` until it is loaded again.
- A reprogram that succeeds makes the registry's handle live or dead according to
  `HandleSurvives`. `aocl_mmd.h` allows both; `acl_pcie.cpp` always deletes the old
  key, which is `{FALSE}`.
- Arrival of jobs is arbitrary: the generator's rates and Zipf sequences only choose one.
  A job that has released its region may come again.
- Time stamps, logs, the throughput and the scaler's windows are left out: no step of the
  pipeline depends on them while `allocPRR` is not called.

#### `PRRLease`

Five actions: a job requests, is granted a free region its service may use, has the board programmed, starts and
finishes. Programming changes regions of the holder's board only, before its kernel starts, and what it spoils is
lost. `ImplementsLease` maps the pipeline to it: a job holds its region from the moment its
entry is marked done (`HeldBy`), even before it has noticed, until `setPRRStatus(READY)`.
Every queue and daemon step becomes a stutter.

### 3.2 Block transfers: `DMAWalk`, `DriverDMA`

`DMAWalk` holds the arithmetic of `aclpci_dma_update` and its helpers as pure operators: how much is
pinned at a time (`LockSize`), how a pinned stretch begins (`Begun`), and what is sent
next: a power of two of bytes at a ragged edge (`FirstSize`, `Piece`, the largest `PowerOfTwo` that fits) or a table of
whole pages (`WholePages`). Lengths are in units of the alignment the MMD demands. `Pages` are the pages the
transfers touch.

#### State

| Variable | Code |
|---|---|
| `host` | where the host is: in the MMD (`ready`, `calling`, `polling`, `waiting`) or in a system call (`pr`, `flush`, `drain`, `closing`); `off` when the device is closed |
| `ask`, `event`, `told` | the arguments of `read_write`; `m_event` is not NULL; `event_update_fn` has been called since the request |
| `signals` | signals sent with the DMA bit, not yet delivered |
| `dma` | `struct aclpci_dma`: `m_idle`, `m_host_addr` and `m_device_addr` (one count, `sent`), `m_bytes`, the last id, `m_page_last_id`, and the active, pre-pinned and done buffers |
| `pins` | the reference count of each user page |
| `flag` | the flag word of the last id in the descriptor table's header, which the board sets |
| `engine`, `lastPtr`, `copied`, `msi` | the board: tables handed over, its LAST_PTR register, what it has copied of the current transfer (history), an interrupt raised |
| `irq`, `work`, `wq` | the handler, the pending bit of the work item, the work queue's thread |
| `chan`, `armed`, `sync` | a host channel is open; `loop_counter > 0`; `*user_thread_sync` |
| `prInProgress`, `frozen`, `prPart` | `pr_in_progress`, the freeze registers, the argument of `aclpci_pr` |

#### Actions

| Code | Actions |
|---|---|
| `read_write_block`, `ACL_PCIE_DMA::read_write`, driver `read_write` | `Request`, `CallDriver`, `ReturnBlocking` or `ReturnEvent` |
| signal handler, `ACL_PCIE_DMA::service_interrupt` | `HandleSignal` |
| `aclpci_dma_hostch_create`, `_thread_sync` | `OpenChannel`, `SyncChannel` |
| `aclpci_pr` | `PrFrozen`, `PrBadController` (the early returns), `PrStart`, `PrFinish` |
| `aclpci_dma_stop`, `aclpci_close`, `aclpci_open` | `DmaStop`, `StopFlushed`, `StopDrained`, `Close`, `Open` |
| board | `EngineDone`, `KernelDone` |
| `aclpci_irq`, `aclpci_dma_service_interrupt` | `IrqEnter`, `IrqService`, `IrqQueue` |
| `aclpci_dma_update` | `WqTake`; `WqPollChannel`, `WqPollAgain`, `WqNothing`, `WqTransfer`; `WqFinish`, `WqSignal`; `WqBuffer`, `WqSendPiece` or `WqSendPages`, `WqUnpinDone`, `WqPrePin` |

#### Abstractions

- One process with one thread uses the device, as `linux64/driver/README` demands, and it
  asks for one transfer at a time, as the assertion in `read_write` demands. A signal
  interrupts it before its next step in user mode.
- Transfers go to the board. Those from it use a second table in the same way, except
  that the page table of a host channel always goes through the first.
- The two channels are one, opened and polled; their rings are in `HostChannel`. Whether
  the polling finds a pointer moved, and whether its counter has come down to zero, is any outcome.
- `m_idle` is read three times in the condition of the early returns; here once.
- The one-second limit in `aclpci_dma_stop` is taken to be longer than a table takes.
- Pinning succeeds, and a process stops the DMA before it closes: the hazards of both are listed.
- The copy of the data itself, verbose timing and the byte order of descriptors are left out.

#### `HostTransfer`

A request, moves, and a return that is possible only when all has moved; or the transfer is
broken off. `ImplementsTransfer` maps `moved` to what the board has copied, so the driver's own
counters are not taken at their word.

### 3.3 Host channels: `HostStream`, `HostChannel`

A channel is a ring in user memory with two pointers. The board writes its own pointer there,
but learns of the host's only from the driver's work item, which looks at both pointers, copies a
changed one to a register, and queues itself again until a counter has run down. Then it
clears a word by which the MMD knows that it must be started again.

| Variable | Code |
|---|---|
| `host`, `opens` | where the program is: in its own code, in `create_hostchannel`, in the flush or the freeing of `destroy_hostchannel`, in `sync_thread` |
| `mmd`, `mmdSync` | per channel `m_hostch_*_valid`, the queue, its size, the local pointer and what was offered by `get_buffer`; `m_sync_thread_valid` |
| `ring` | what is in user memory: both pointers and the cells |
| `drv`, `drvSync`, `sync`, `loop` | `push_valid`, `pull_valid` and the pointer last passed on; `thread_sync_valid`, `*user_thread_sync`, `loop_counter` |
| `work`, `wq`, `xfer` | the work item and its thread; a block transfer (`m_idle` is `xfer = "none"`) |
| `pinned`, `board` | buffers whose pages are pinned; the registers and pointers of the channel logic |
| `put`, `got` | number of the next unit each channel is sent, and has delivered (history) |

| Code | Actions |
|---|---|
| `create_hostchannel`, `launch_sync_thread`, `aclpci_dma_hostch_create` | `CreateChannel`, `DriverCreate` |
| `destroy_hostchannel`, `aclpci_dma_hostch_destroy` | `DestroyChannel`, `Flushed`, `FreeChannel` |
| `aclpci_close`, `aclpci_dma_finish` | `CloseDevice` |
| `get_buffer`, `ack_buffer`, `sync_thread` | `GetPush`, `GetPull`, `AckBuffer`, `SyncThread` |
| `aclpci_dma_update`, `hostch_push_update`, `hostch_pull_update` | `WqLook`, then `WqPollAgain`, `WqGiveUp`, `WqNothing` or `WqTransfer` |
| a block transfer | `StartTransfer`, `EngineDone` |
| the board | `BoardFetch`, `BoardStore` |

The command that closes a channel names the direction seen from the other side:
`Destroyed` and `Released` follow the registers the code really writes. A
cell holds the number of the unit it carries, modulo the size of the ring, so a unit lost,
repeated or read too early shows as `Blank`. `ChannelDepth` is what `create_hostchannel` makes of the depth it is
asked for: the next power of two between a page and the largest buffer; that these two sizes are powers of two
themselves is part of `ChannelAssumption`. `ImplementsStreams` maps `put` and `got` of each channel
to `HostStream`. `Crashed` is the stuttering of a kernel that has mapped a page it does not
have: the MMD keeps its word when the driver has dropped the driver's, and the next `ack_buffer` asks
for it.

Left out: allocation failures, failures of pinning, the descriptor tables of the page list,
the destructor of `ACL_PCIE_HOSTCH` (a program closes its channels first), Windows.

### 3.4 The memory window: `SegmentWindow`

Without the DMA the host sees global memory through 64 KB of BAR 4 and a register that says which
segment they show. `hwSegment` is that register, `drvSegment` the driver's
`global_mem_segment`, `mSegment` the MMD's `m_segment`; each writer skips the write when its own record
says so. `call[t]` is where a thread is in `read_write_block`, with its local variables.
The addresses are the real ones: windows of 65536 bytes, the kernels' registers from 0x4000,
the segment register at 0x0c870.

| Code | Actions |
|---|---|
| `read_write_block`, `read_write_block_bar` | `Begin`, `Piece`, `NextPiece`, `Finish` |
| `set_segment` | `SetSegment`, `WriteWindow` or `WindowLost`, `Remember` |
| `read_write_small_size` | `Byte`, `ByteLost` |
| block access of the MMD's I/O object | `Words`, `WordsLost` |
| `write_block` to a kernel's interface | `KernelWrite` |
| `aclpci_open` by another program | `OtherOpens` |
| `aclpci_rw` for the DMA's BAR, without the DMA | `RawAccess` |

The arithmetic is in operators: `DmaSize`, `CurSize`, `HeadSize`, `LargeBytes`, `DriverSegment` (the
driver's mask keeps bit 1 of the address; the board does not connect it), `InBar`.
`good` counts the bytes that went to their place in order; `clean` and
`upset` are history and say whether anything has come between a transfer and its window, or ever has.
`RawAccess` follows `aclpci_rw` to the letter: it moves the window to the segment of the first byte and checks the range against
all of BAR 4, so a request that crosses the end of its segment is served, and its rest goes to what lies
behind the window (`astray`); `raw.within` remembers whether the request stayed inside one segment.
The `Lost` actions are calls that a signal ends while they wait for the driver's semaphore; the MMD
counts their bytes as moved.

### 3.5 Devices and handles: `MmdDevice`

One board, its driver, and the threads of one process that open, close and reprogram it.

| Variable | Code |
|---|---|
| `uid`, `objs`, `map` | `unique_id`; the device objects with `m_being_programmed` and `kernel_interrupt`; `s_handle_map` |
| `thr` | each thread's call and its local variables |
| `drv` | the open count, whether the interrupt is requested, the saved mask, the signal's payload, `user_task`, `pr_in_progress` |
| `hw` | the board: interrupt enable and status, message raised, kernels running, base design, the version in its RAM and (history) the true one, the core of each region |
| `sigs`, `hand`, `end` | signals under way, the handler on each thread, how the process ended |
| `ghost` | history: what has happened that some properties except (see the comment at `Spoil`) |

| Code | Actions |
|---|---|
| `aocl_mmd_open`, constructor, `enable_interrupts`, `aclpci_open` | `OpenNumber`, `OpenConstruct`, `OpenSignal`, `OpenRecord` |
| `aocl_mmd_close`, destructor, `aclpci_close` | `Close`, `DeleteParts`, `DeleteDone`, `Discard` |
| `aocl_mmd_reprogram`, `reprogram`, `pr_reprogram` | `Reprogram`, then `PrBegin`, `PrEnd` or `PrNot`, then `SaveControl`, `Jtag`, `LoadControl`, and `Programmed` |
| `set_kernel_interrupt` | `SetHandler` |
| `aclpci_irq` | `Irq` |
| `pcie_linux_signal_handler`, `service_interrupt`, `unmask_kernel_irq` | `SignalTaken`, `Callback`, `UnmaskKernel` |
| `ctrl_c_handler`, `free_all_open_devices` | `CtrlC`, `FreeAll` |
| the runtime and the board | `Launch`, `KernelDone` |

`QuartusVerTest` is the comparison the code makes: the lengths and, by `strncmp`, all characters but the last. `Trunk` maps a
version to what is compared. `UseJtag` and `SkipVersion` are the two environment variables
(`ACL_PCIE_USE_JTAG_PROGRAMMING`, `ACL_SKIP_QUARTUS_VERSION_CHECK`) that the constructor reads.

Calls on one handle do not overlap (`Mine`): the MMD leaves that to its caller. Left out:
choosing the signal's number, the handler of SIGABRT, the search for a JTAG cable, calls of the driver that a
signal interrupts, and reading the board's state other than its tests.

### 3.6 The earlier scheduler: `SchedulerPipeline`

`registry` is the resource registry, `services` and `ids` the service registry and the ids the applications have, `live` and `opened` what the MMD does to handles, `IQ` and
`PRQ` the two queues, `task` and `pr` the two threads, `app[a]` an application with its entry.

| Code | Actions |
|---|---|
| `MMDApp::run` | `registerService` and `AddEntry`, `getHardware`, `getProgram`, `Programmed` (the second half of `getProgram`), `RunKernel` (the four run functions), `releaseHardware` |
| `runTaskQueue`, `schedule`, `determine_partition` | `popTaskQueue`, then `determine_partition` or `schedule` |
| `runPRQueue`, `popPRQueue` | `popPRQueue`, `PrDone` |

`alive` becomes false where the program asserts or dereferences a null pointer: a handle the MMD does
not know, a kernel call without a partition. `main` starts one application; the runs have two or three, as the
commented lines of `main` do.

Two places where threads race are steps of their own. `AddEntry` of the service registry reads the size
in one step and inserts in another, without a lock: two applications may get one id, and the second insert does nothing. And
where no partition fits, `schedule` sets the flag of the entry before it has written the answer: `popTaskQueue` leaves an
`Unwritten` entry behind, and `schedule` completes it unless its owner has gone on. What an uninitialised handle and
partition hold is any of the values that the code tells apart.

## 4. Runs

| Run | Instance | Checks | States |
|---|---|---|---|
| `pipeline` | 3 jobs, 2 services, 2 regions of a board, `GlobRR`, reprogramming may fail, rewrite the board, or do nothing | `TypeOK`, `MutualExclusion`, `StatusTracksHolder`, `EntryInOnePlace`, `RunsOwnService`, `OnlyHolderReprograms`, `ImplementsLease` | 1,152,450 |
| `pipeline_live` | 3 jobs, 2 services, 1 region, `GlobRR`, the same, handle may survive or not | `EveryJobRuns`, `EveryRegionReturns` | 19,162 |
| `pipeline_initial` | 3 jobs, 2 services, a region each on two boards, `LocRR`, the same | `EntryInOnePlace`, `EveryJobRuns` | 78,306 |
| `pipeline_handle` | 3 jobs, 2 regions of a board, `LocRR`, handle dies with a reprogram | `NoStaleHandle`, violated | |
| `dma` | 9 transfers with events, pages of 4 units, tables of 2, stretches of 4 pages, reconfiguration may fail | `TypeOK`, `PinnedWhileBusy`, `CopiesInOrder`, `NothingLeftPinned`, `ImplementsTransfer` | 438,701 |
| `dma_channel` | one transfer again and again, polled for, with a host channel | `NothingLeftPinned`, `TransfersReturn` | 76,522 |
| `hostch` | both channels, a ring of two and one of four units, three opens, transfers meanwhile | `TypeOK`, `BoardUsesPinned`, `PollsUntilIdle`, `ImplementsStreams` | 2,152,974 |
| `window` | 2 threads, blocks at awkward places, requests of the driver inside a segment and over its end, another program, one interrupted call, 4 partitions | `TypeOK`, `ExactWhenAlone`, `CopiesAreTrue`, `RawReaches` | 1,384,442 |
| `mmd` | 2 threads, 1 region, 2 opens, 2 kernel runs, Ctrl-C, files of two Quartus versions on a board of a third | `TypeOK`, `HandleNamesItsDevice`, `CompletionOnItsWay`, `CarefulHostIsSafe`, `CtrlCSparesProgramming`, `SameQuartus` | 2,591,896 |
| `mmd_reprogram` | one thread | `SuccessMeansProgrammed`, violated | |
| `scheduler` | 3 applications, 2 boards of 2 partitions, 2 requests each, failures | `TypeOK`, `OneHolder`, `RunMeansHeld`, `SomeoneServed` | 74,536 |
| `scheduler_wait` | 2 applications, no failures, every thread fair | `PartitionsComeBack`, violated | |

**What holds.** *Scaler.* Although the region's flag is tested and set in separate steps without a
lock, two jobs never hold one region: the region's own daemon is the only one
that sets RUNNING, and only the holder clears it. A RUNNING region always has somebody who will
clear it. A pointer to an entry is in one place while its owner waits and nowhere
otherwise. A kernel runs on its own bitstream, although two daemons look at the registry while a third may be
changing it, or else on a region that is lost: reprogrammed without getting what was asked for, or rewritten by a
programming of the whole board on behalf of another region. A board is only programmed while a holder of one of its regions waits
for it. Nobody starves.

*Transfers.* With events only and no host channel, a transfer returns when all of it has been copied, although
kernel interrupts enter the same handler at any time. The
board never reads a page that has been given back, not even when the host stops in the middle;
every unit is sent once from its own place, whatever the alignment. A host that polls always returns, even if
a host channel shares the work item. What the first two conditions are for is said in section 5 (`Plain`).

*Host channels.* Each channel delivers what it was given, in order, and never has more under way than the
ring holds, although the board learns of the host's pointer late, and although closing one channel
switches off the logic of the other. Memory that running logic uses is pinned, because each branch
also clears the control of its own channel. The polling of an open channel ends only when nothing has
changed for a whole count, whatever transfers come between.

*Window.* A block is exact, byte for byte, if nothing else uses the window during the transfer and `m_segment`
is true when it begins. Both copies stay true, and the driver's own accesses, as long as they stay inside one segment, reach the
memory they name, until one of these happens: transfers of two threads overlap, a call is interrupted, another program opens the
device, an access past the BAR is refused while the window is moved, or a kernel's register at 2160 of the third
partition is written, which is the window's own. After each of them the copies may differ. A write to a register of the fourth partition
lands in the window itself and counts as a disturbance of the transfers under way.

*Devices.* A handle names the object built for it, and no freed object but in the call that frees it,
unless calls that change the map overlap. No completion of a ready device is lost, although it is masked on
the board, signalled to whichever thread made the last request, and unmasked by the handler. The handler never
touches a dead object if the host closes and reprograms only idle devices, in the thread that used them last. Ctrl-C
ends no reprogram that had begun when it looked. A region is reconfigured only on a design whose
Quartus version differs from its own in the last character at most, unless the user skips the check or a failed full
programming has relabelled the board.

*Earlier scheduler.* A partition has one holder at a time, though ids are shared and an application may go on with an
entry nobody has written; and somebody is served before the process ends or the threads wait for each other. A partition
marked RUN without a holder is only found on a board whose handle the registry has lost.

**What does not** (each a finding in `PROJECT.json`, with the line it contradicts):

- `pipeline_handle`: the Scaler drops the handle that `aocl_mmd_reprogram` returns and keeps
  the one from start-up, which the MMD has discarded. The first use of it ends the process.
- `mmd_reprogram`: a reconfiguration that is not possible returns 0, like one that was done; together with an early
  return, or with a base design, `aocl_mmd_reprogram` reports a success and nothing was programmed.
- `scheduler_wait`: the arguments of the registry's update are shifted by one, so the registry
  never learns of the new handle. The partition is given back under a handle it does not know and stays RUN; the
  task thread waits for it for ever.

Eight more statements of the code's comments do not hold. Their configurations are kept beside the runs; TLC
finds each violated within seconds (`tlc -config <file> <module>`).

| Configuration | Module | Property | What happens |
|---|---|---|---|
| `PipelineRecord.cfg` | `MCScalerPipeline` | `AlreadyConfigured` | no reprogram has failed, and a region counts as configured with a service it does not carry (`queuemanager.cpp:114` of the Scaler) |
| `MmdQuartus.cfg` | `MCMmdDevice` | `ExactQuartus` | a region is reconfigured on a design of another Quartus version, which differs in the last character (`acl_pcie_device.cpp:1075`, 1314) |
| `DmaEvent.cfg` | `MCDriverDMA` | `EventMeansDone` | `m_idle` is set before the signal is sent: the late signal of a polled transfer is taken for the event of the next (`aocl_mmd.h:234-235`). The MMD mixes the two ways itself: `copy_block` passes no event (`acl_pcie_device.cpp:726-728`) |
| `DmaPoll.cfg` | `MCDriverDMA` | `IdleMeansCopied` | with a host channel open, two updates serve one transfer, and the driver says idle while the board still copies (`aclpci_dma.c:327`) |
| `WindowRequest.cfg` | `MCSegmentWindow` | `ServedThroughWindow` | a request that crosses the end of a segment goes on behind the window (`aclpci_fileio.c:529-530`) |
| `WindowKernel.cfg` | `MCSegmentWindow` | `KernelKeepsMemory` | the registers of the fourth partition, of four (`hw_pcie_constants.h:66`), lie where the window begins (lines 109-110) |
| `SchedulerIds.cfg` | `MCSchedulerPipeline` | `RegisteredUnderItsId` | two applications get one id, and one is not registered (`mmdapp.cpp:129`) |
| `SchedulerRegistry.cfg` | `MCSchedulerPipeline` | `RegistryFollowsBoard` | the cause of what `scheduler_wait` shows (`mmdapp.cpp:625`) |

Two others pass: `DmaBlocking.cfg` (`IdleMeansCopied` and `ImplementsTransfer` for the nine transfers of `dma` when the host polls,
616,273 states) and `MmdFiles.cfg` (`SameQuartus` with files of every kind on a board of two regions, 1,178,373 states).

**Why the bounds are enough.** Three jobs give the three roles that interact: one that holds a
region, one that waits at its daemon, one in the task queue or at the PR daemon; two of them share
a service, so both the short way (`TaskAnswer`) and a second PR request occur. Two
regions on one board share a PR daemon; on two boards two PR daemons work at once.
One region with two services is where reprogramming alternates and starvation would
show. Jobs return for ever, no counter is bounded, so the runs need no further bound. In `pipeline` the
handle survives: one that does not only ends the process sooner, which `pipeline_live` and `pipeline_initial` have.

A DMA transfer is interesting at its edges: the nine of `dma` start at, just after and just
before a page boundary and are shorter than a page, just short of what is pinned in one
stretch, and longer. They make the driver send single pieces, several pieces for one page, full and partly
filled tables, wrap its ids, pin ahead, and put a last page off to the next stretch (the mutants
`StartIdNoWrap`, `AfterPieceStuck` and `BegunOver` show that each is reached). Tables of two descriptors
and stretches of four pages keep the order of the real sizes (128, 256 or 4096).
`MaxTables` bounds how many tables the board may lag behind. In `dma` it is never reached, since
`CopiesInOrder` shows one table at most; in `dma_channel`, where the driver may run ahead,
it cuts off boards that are more than two tables behind.

In `hostch` a ring of two units and one of four wrap again and again, and programs move one unit or three at
once; three opens between open and close of the device are what it takes for the driver to keep an
earlier buffer, and for its word to be dropped under the MMD. Transfers start only until the first
channel is open (`TransferOpens`). In `window` the blocks begin and end in the middle of words and of
windows, have a share for the DMA or none, and one is interrupted at most; requests of the driver stay inside a segment, cross
its end, or leave the BAR. In `mmd` two opens are enough for
two handles, for a reopening, and for two threads that meet in the map: from such a meeting on
(`Apart` in `MCMmdDevice`) no state is followed, because no property speaks of it any more; the
two threads, and nothing else, are interchangeable (`Alike`). One kernel at a time is enough: completions of several regions
merge into one interrupt. The board's version differs from one file's in its last character and from the other's
altogether. In `scheduler` two applications compete for one partition and the third has no partition to go to;
each of the other run functions is the second one's by choice. Two requests each show what a
first request leaves behind. A fourth application multiplies the ways in which ids are shared, which no property but the type invariant tells apart.

**Fairness.** `FairSpec` asks weak fairness of each daemon and of each application thread
after it has submitted a request. They are threads that never block in the kernel (they
spin), so the operating system runs each of them again and again; within a thread one
step at most is enabled. No fairness is asked of `SubmitDevice`: whether a request
arrives is the workload's business. Reprogramming is assumed to return, with or
without success. Weak is enough: a daemon waits for a flag that stays set until it acts.

`DriverDMA`'s fairness is weak for the board (it runs the tables it has been given), for the interrupt
handler and the work queue's thread (the kernel runs both as long as there is something to do),
and for a host that polls or has a signal pending. None is asked of requests, stops, reconfigurations or kernels.

`SchedulerPipeline`'s `FairSpec` is weak fairness of the two threads and of each application, which spin
and never block. `HostChannel`, `SegmentWindow` and `MmdDevice` are checked for safety only.

## 5. Proofs

Every safety property, type invariant, action property and refinement that a passing run checks is also proved, for
all values of the constants: any finite or infinite sets of jobs, services, regions, threads and files, any table of
instances, any number of boards and partitions, any sizes of page, table, ring and block. The assumptions are
those the modules name (`PipelineAssumption`, `SchedulerAssumption`, `TransferAssumption`, `WalkAssumption`, ...), which only say what kind
of thing each constant is, and the hypotheses in the table.

| Theorem | Says | Module |
|---|---|---|
| `PipelineInvariant` | `Spec => []IInv` | `ScalerPipelineProofs` |
| `TypeCorrect` | `Spec => []TypeOK`, the range of the round-robin index included | `ScalerPipelineProofs` |
| `RegionsAreExclusive` | `Spec => []MutualExclusion` | `ScalerPipelineProofs` |
| `NoRegionIsLost` | `Spec => []StatusTracksHolder` | `ScalerPipelineProofs` |
| `NoRequestIsLost` | `Spec => []EntryInOnePlace` | `ScalerPipelineProofs` |
| `BoardsChangeForHolders` | `Spec => OnlyHolderReprograms` | `ScalerLeaseProofs` |
| `KernelsRunOwnService` | `Spec => []RunsOwnService` | `ScalerLeaseProofs` |
| `PipelineImplementsLease` | `Spec => ImplementsLease` | `ScalerLeaseProofs` |
| `SchedulerInvariant` | `Spec => []SInv` | `SchedulerProofs` |
| `PartitionsAreExclusive` | `Spec => []OneHolder` | `SchedulerProofs` |
| `MarksAreLostWithHandles` | `Spec => []RunMeansHeld` | `SchedulerProofs` |
| `SchedulerTypeCorrect` | `Spec => []TypeOK` | `SchedulerProofs` |
| `MmdTypeCorrect` | `Spec => []TypeOK` | `MmdDeviceProofs` |
| `MmdHandleNamesItsDevice` | `Spec => []HandleNamesItsDevice` | `MmdDeviceProofs` |
| `MmdCtrlCSparesProgramming` | `Spec => []CtrlCSparesProgramming` | `MmdDeviceProofs` |
| `MmdSameQuartus` | `Spec => []SameQuartus` | `MmdDeviceProofs` |
| `MmdCarefulHostIsSafe` | `Spec => []CarefulHostIsSafe` | `MmdDeviceProofs` |
| `MmdCompletionOnItsWay` | `Spec => []CompletionOnItsWay` | `MmdDeviceProofs` |
| `WindowTypeCorrect` | `Spec => []TypeOK` | `SegmentWindowProofs` |
| `BlocksAreExact` | `Spec => []ExactWhenAlone` | `SegmentWindowProofs` |
| `CopiesStayTrue` | `Spec => []CopiesAreTrue` | `SegmentWindowProofs` |
| `RequestsReach` | `Spec => []RawReaches` | `SegmentWindowProofs` |
| `ChannelTypeCorrect` | `Spec => []TypeOK` | `HostChannelProofs` |
| `BoardStaysPinned` | `Spec => []BoardUsesPinned` | `HostChannelProofs` |
| `PollingGoesOn` | `Spec => []PollsUntilIdle` | `HostChannelProofs` |
| `ChannelsAreStreams` | `Spec => ImplementsStreams`, both directions | `HostChannelProofs` |
| `NothingStaysPinned` | `Spec => []NothingLeftPinned` | `DriverDMAProofs` |
| `DmaTypeCorrect` | `Spec => []TypeOK`, if `Plain` | `DriverDMAProofs` |
| `PagesStayPinned` | `Spec => []PinnedWhileBusy`, if `Plain` | `DriverDMAProofs` |
| `UnitsInOrder` | `Spec => []CopiesInOrder`, if `Plain` | `DriverDMAProofs` |
| `IdleAnswersTruly` | `Spec => []IdleMeansCopied`, if `Plain` | `DriverDMAProofs` |
| `DmaImplementsTransfer` | `Spec => ImplementsTransfer`, if `Plain` | `DriverDMAProofs` |

The theorems about the Scaler admit every outcome of a reprogram: failures, programmings of the whole board, and successes
that load nothing.

**Scaler.** The only other assumption about it is `PipelineAssumption`: the constants are functions of the right kind,
every service has an instance (what `allocInitPRR` is for), and the null values
are outside the sets they complete.

None of the three safety properties is inductive. `MutualExclusion` breaks if a daemon grants a
region whose flag is READY while a job holds it, so it needs `StatusTracksHolder`;
that one breaks if the flag changes between test and set, so it needs `ClaimInv` (a daemon at
its claim still sees READY) and, for the release, `MutualExclusion`. Both need to know
that the entry a daemon answers belongs to a waiting job, asked for what this daemon
gives, and is in no other daemon's hands: `EntryInOnePlace`, `KindInv`, `AppInv`, `HandsInv`.
`IInv` is the conjunction, checked by TLC before it was proved.

The argument runs along `EntryInOnePlace`: `Spots` is the set of places a pointer can be, and
a lemma per action (`TaskPopStep`, `TaskRouteStep`, ...) says which spot it takes the entry
from and where to. `EntryMoves`, `EntryEnters`, `EntryLeaves` then prove the invariant
from those facts alone. `HeldByCases` does the same for the region a job holds, and
`OthersHold`, `GrantHands`, `ReleaseFrees` carry `NextStatus` and `NextMutex`.

**Bitstreams.** `RunsOwnService` needs to know why an answered GETPRG entry may be
trusted. `BitstreamInv` says it: of a region that is not lost the registry is right, except between a reprogram and
the record of it; a PR daemon past its reprogram has loaded what its entry asked for, or its region is lost;
and so with an answered job's region. A step that changes `config` is a PR
daemon's, and works for the job that holds the region (`PrWorksForHolder`, from `KindInv`, `AppInv` and
`EntryInOnePlace`), so by `MutualExclusion` nobody else's claim can be disturbed
unless the programming changes the region of another, which is lost then.
`BoardsChangeForHolders` is the same lemma as an action property.

**Refinement.** `RouteInv` says that an entry is only queued at a region its service may use; it is what
`Grant` of `PRRLease` demands. Each step then maps: `SubmitDevice` is `Request`,
`PrrGrant` is `Grant`, the three outcomes of a reprogram are `Program`, `ReturnProgram` is `Start` and `ReleaseDevice` is
`Finish` (`AppImplements`, `GrantImplements`, `ReprogramImplements`); every other step leaves `Phase`,
`HeldBy` and `config` alone (`OnlyTheseChangePhase`, `PhaseStays`).

**Earlier scheduler.** `OneHolder` needs that a held partition is marked (`HeldInv`), that the thread which
marks it works for an application that holds nothing yet, and that nobody but the holder takes the
mark away. The second is what the queues guarantee: whoever is in one waits for it, once
(`TaskInv`, `PrInv`, with the lemmas `Enters` and `Leaves`). The third holds for an odd reason, which the invariant
spells out (`HandleInv`, `EntryInv`): a registry entry keeps the handle of start-up, an application
that runs has a later one, so its release finds no board and marks nothing ready. The same fact gives the
exception in `RunMeansHeld`. So a repair of what `scheduler_wait` finds
would need these proofs to be made anew. `SInv` was checked by TLC on the instance of `scheduler` before it was proved. The type
invariant counts, so it rests on `SInv` and on `NInv`: who is in the service registry is there under its own id, a handle that is
given out is larger than all before, and whoever has a request under way has one left to count. `TwoQueues`
maps the places of both queues into the applications, one to one: nobody waits in both.

**Window.** `IndInv` joins the shape of a call with `CountInv` (a call never moved more than it went past),
`AloneInv` (a call nobody disturbed has moved all it went past, through a window that shows where it
is) and `CopiesInv` (the three records of the segment agree until something upsets them). The lemmas under "The
arithmetic" cut an address into segment and offset for every length. `RequestsReach` needs `CopiesInv` for the move of the window and the arithmetic for the
request inside it; of a request that crosses the end of its segment it says nothing.

**Devices.** `CoreInv` says who has which object: a device object is in one slot of the handle map or in the hands
of one call, and the driver counts as many opens as there are open files. On it rest `MapInv` (if opens never overlap, the number
is new and the slot names its device), `CtrlCInv`, `AloneInv` (one handle on the board), `CarefulInv` and `WatchInv`, each
on those before it. The exceptions these allow are the ones the properties name.

**Host channels.** `RingsInv` is the argument: `Structure` says which side knows which ring,
`PushFlow` and `PullFlow` that the cells between reader and writer hold the units under way in order,
`PushServed` and `PullServed` that the board has been told of no more than the host did. From it follow
`BoardUsesPinned` and, with every step of a host or board mapped to a step of `HostStream` or a stutter, `ChannelsAreStreams`.
`PollInv` is about the driver alone: while it has the word and a channel and has not run its counter down, the word is
cleared or the work item is on its way.

**DMA.** `PinInv` counts: the pins of a page are the buffers that have it. It holds without a hypothesis and gives
`NothingStaysPinned`, for every stretch, table and page. The others need `Plain`: no host channel, and not both
ways of waiting in one program. `PlainInv` adds `Known` (what the caller asked, how far the transfer is,
which stretch of the buffer each record covers; `BegunWalks`, `PieceWalks` and `PagesWalk` are its arithmetic),
`Control` (a completion is in one place at a time: table, flag, interrupt, work item or work queue) and `Events`. Then
the steps map to `Request`, `Move`, `Return` and `BreakOff` of the abstract transfer.

`Plain` is needed, not convenient. TLC finds `TypeOK`, `PinnedWhileBusy`, `CopiesInOrder` and `IdleMeansCopied`
violated with a host channel: the polling run of the work item goes on to the transfer when
`m_idle` is cleared, while the call that cleared it queues the item again, and two updates serve one
transfer. It finds some of them violated as well in a program that both polls and waits for events: `m_idle` is set before
the signal is sent, so the late signal of a polled transfer is taken for the event of the next one (`DmaEvent.cfg`, `DmaPoll.cfg`).
That an event comes when its transfer is done is therefore not among the theorems.
What remains with a host channel, `NothingLeftPinned`, the theorem and run `dma_channel` cover.

Only model-checked: the liveness properties `TransfersReturn`, `EveryJobRuns`, `EveryRegionReturns` and `SomeoneServed`
(the prover has no rule for fairness and `ENABLED`). Every invariant and action property of a passing run, and
every refinement, has its theorem.

## 6. Not modelled

- The Scaler's resource scaler (`resourcescaler.cpp`), time stamps and throughput: the call that would
  change the allocation is commented out, and nothing else depends on them.
- The Windows DMA code: the driver it calls is not in the repository.
- The JTAG cable search, flash and CvP programming: sequences of tool calls or register accesses of one
  process. Their outcomes are choices in `MmdDevice`.
- AER and link-retraining bits, saved PCI registers, the temperature sensor, shared memory
  (`mmap`), `probe` and `remove`: register I/O and start-up code.
- `aclpci_queue.c`: nothing uses it.
- Failures of allocation and of pinning; a process that is killed in the middle of a DMA.
- `std::queue` and `std::map` under concurrent use, which is undefined; the models say what the
  program does when the container survives it.
- The diagnostic, reprogram and test programs (sequential tools), plotting and trace scripts, build products
  kept in the tree.
