# Verification of the vcodec drivers

TLA+ models of the parts of this repository that decide *who owns what and
when*: the two kernel drivers of the VC9000D decoder (the VCMD command engine
with its pool of command buffers, and the core reservation without VCMD), the
user library that shares the cores among decoder instances, the frame buffers of
the multi-core HEVC decoder, and the linear memory allocator. TLC checks them
on small instances; TLAPS proves the invariants that matter most for every
number of buffers, threads, processes, devices, cores and chunks.

The models stand for a small part of the repository: of its 426 000 lines of
implementation most parse bit streams, fill registers, or repeat the same code
for another codec or another driver version, and nothing is claimed of them.
Sections 5 and 6 say what is left out.

Run a model with `tlc -config X.cfg M`, a proof with `tlapm M.tla`.

## 1. The system

A player decodes through the codec libraries (`VC9000D/software/source`), which
talk to the hardware through DWL (`dwl/dwl_linux_hw.c`), which talks to the
kernel driver through ioctls. There are two ways to the hardware:

* In VCMD mode the library writes a *command buffer* (cmdbuf) per picture and
  the driver strings the cmdbufs of all processes into a *work list* per device.
  The VCMD hardware runs a cmdbuf, and the JMP command at its end leads it to
  the next; a JMP whose RDY bit is 0 stalls the hardware until the driver sets
  the bit and rings the doorbell (RDY_CMDBUF_COUNT). Interrupts tell the driver
  how far it got.
* Without VCMD a decoder instance *reserves* a core, writes its registers and
  starts it. A single-core instance waits for its job itself; a multi-core
  instance goes on, and a *listener thread* per process waits for any core of
  the process and runs the callback of the instance, which releases the core.

On top, the multi-core HEVC decoder starts a picture before the last one is
written: a picture can be in the DPB, in the output queues and under the
hardware's hands at once, and reference counts in the frame buffer list tell
when its buffer may be used again.

| component | code | state | operations | talks to | modelled |
|---|---|---|---|---|---|
| cmdbuf pool | `subsys_driver/hantro_vcmd.c` 1024-1126 | si-list, its spinlock, `free_obj_sema` | acquire, return | called by reserve, release, link, drop, isr | yes |
| VCMD engine | `subsys_driver/hantro_vcmd.c`, `bidirect_list.c` | cmdbuf objects, work lists, device states, done lists, process accounts | reserve, link and run, wait, release, drop owner, close, isr, bus-error kthread | ioctls from DWL, interrupts, the pool | partly |
| linear memory | `driver/memalloc/memalloc.c` | chunk table under `mem_lock` | get, free, reset, close | ioctls from DWL | yes |
| normal-mode driver | `subsys_driver/hantro_dec.c` | `dec_core_sem`, `core_owner`, `dec_irq`, `hw_queue` | reserve, start, wait for a core or for any, release, close, isr | DWL, interrupts | partly |
| DWL, user side | `dwl/dwl_linux_hw.c` | device node per process: listener, callbacks, job counters, semaphores | reserve, set callback, enable, wait, release | both drivers, callbacks of the codecs | normal mode; of VCMD its call discipline |
| HEVC decoder, multi-core | `source/hevc/hevcdecapi.c`, `hevc_dpb.c`, `hevc_fb_mngr.c` | frame buffer list, DPB, output queues | decode, next picture, picture consumed, end of stream, abort, hardware callback | DWL, application threads | partly |
| decoder FIFO | `source/common/fifo.c` | three semaphores, ring buffer, abort flag | push, pop, count, abort | decoder and output threads | planned |
| input and buffer queues | `source/common/input_queue.c`, `bqueue.c` | reference and use counts, condition variables | get, return, count, abort | decoder threads, application | planned |
| A78/R52 mailbox | `vcodec/mailbox/*` | sessions, waiting nodes, circular queue | send and wait, acknowledge, dequeue | MHU, VPU firmware | no, see 5 |
| MHU v3 client | `vcodec/mhu_v3_client.c` | one receive buffer, a work item | rx callback, rx work | mailbox | no, see 5 |
| unified driver | `vcodec/vcd_vcmd_driver.c` and siblings | as the VCMD engine | the same plus registration | everything above | no (a fork of the engine) |
| encoder driver | `VC9000E/.../vcx_vcmd_driver.c` | as the VCMD engine | the same | EWL | no (a fork of the engine) |
| MMU, arbiter | `hantro_mmu.c`, `arbiter_drv.c` | page tables; grants | map, unmap; request, release | drivers | no |
| other codecs, OpenMAX | `source/*`, `OMX/*` | stream and picture state | parsing, register programming | DWL | no: data transformation |

What makes the modelled parts hard:

* **VCMD engine.** Five kinds of actor work on one list: threads in ioctls, the
  interrupt routine, the bus-error kthread, closing descriptors, and the
  hardware itself, which follows JMPs in memory the driver rewrites. A job is
  linked in one section under the device's spinlock and started, rung or left
  alone in a second one. A released cmdbuf must *stay* on the list while the
  hardware may still be reading its JMP, and somebody must remove it later,
  once. The interrupt routine hands a node to its client while it still stands
  on it. Drops and closes abort a device that runs other processes' jobs.
* **Pool.** A semaphore and a list that are two objects, updated one after the
  other by threads in parallel.
* **Allocator.** Only the first chunk of a buffer is marked; the others look
  free, and the scan is right only as long as it never stands inside a buffer.
* **Core reservation.** A permit, an entry in the owner table and a wake-up are
  given back in three steps. An interrupt is a bit per core, which says nothing
  of whose job ended. The listener counts jobs that other threads start, after
  they started them. A close releases whatever a dead process had.
* **HEVC frame buffers.** Three threads count a buffer's uses up and down in
  pieces; a slot of the DPB is free before its buffer is; pictures are queued
  for output unfinished and marked as broken later, wherever they are by then; a
  call that found no buffer returns, and keeps the pictures it has put out.

The properties that make each part correct are listed with the runs below; the
hazards they stand against are in `PROJECT.json`, each at its line.

## 2. Modules

| module | what it is |
|---|---|
| `CmdbufOwnership` | abstract: a cmdbuf is free or owned by one caller |
| `CmdbufPool` | the pool, one step per semaphore or list access; implements `CmdbufOwnership` |
| `CmdbufPoolProofs` | its theorems |
| `VcmdContract` | abstract: what the engine promises its processes, a command buffer from its reservation to its return |
| `Vcmd` | the engine: threads, interrupt routine, kthread, hardware; implements `VcmdContract` |
| `VcmdProofs` | type correctness and lock ownership of `Vcmd`, what a drop or close leaves |
| `VcmdListProofs` | its work lists, pool, done lists, wake-ups and accounts |
| `VcmdEngineProofs` | where the device, its memory and the interrupt routine are on the work list; that the engine keeps its contract |
| `Allocator` | abstract: a first-fit allocator whose requests are atomic |
| `Memalloc` | the chunk table and the loop of AllocMemory, one step per turn; implements `Allocator` |
| `MemallocProofs` | its theorems |
| `DecCores` | core reservation, interrupts, DWL's jobs and listener, the ends of processes |
| `DecCoresProofs` | permits, wake-ups and types of `DecCores`; that what is reported of a core is true, and the listener's counters |
| `FrameBuffers` | `hevc_fb_mngr.c`: the frame buffer list as a value and its functions |
| `HevcMultiCore` | decoding thread, cores, listener and output thread around one `FrameBuffers` |
| `HevcDpbProofs` | types and counts of the DPB |
| `HevcRefCountProofs` | users, flags and reference counts of the frame buffers |
| `MCCmdbufPool`, `MCVcmd`, `MCMemalloc`, `MCDecCores`, `MCHevcMultiCore` | instances for TLC |

`HevcMultiCore` is composed with the drivers by what they promise: its `core`
is a job that ends once and is then reported once to the callback of its own
instance, which is `ReportIsTrue` and `WaitsEnd` of `DecCores` and
`EveryJobReported` of `Vcmd`.

An operator named `X_Variant` (`CanDelink_Always`, `TooShort_OffByOne`, ...)
is `X` with a plausible bug. The specifications do not use it; replacing `X` by
it makes TLC find the property violated that `PROJECT.json` pairs with it, which
shows that the property depends on that piece of code.

### CmdbufPool

`sema` and `list` are `free_obj_sema` and `free_obj_list`; `pc` says where a
thread is between the two; `owner` is `obj->po`. `SemDown`, `ListGet` are the
halves of `acquire_cmdbuf`; `ReturnCall`, `ListPut`, `SemUp` the thirds of
`return_cmdbuf`. The contract's Take happens at `ListGet`, its Give at
`ReturnCall`.

### Vcmd

A step is one section under a spinlock, or one access outside of any. Variables
carry the names of the fields of `cmdbuf_obj`, `proc_obj` and `hantrovcmd_dev`.
A work list is a sequence; `stale` keeps the `next`/`prev` that
`bi_list_remove_node` leaves in a removed node, since the interrupt routine may
read them. `jmpNext` is the target of the JMP at the end of a cmdbuf (`Nil`:
RDY = 0), `memId` the id in `reg_mem`, the last cmdbuf the hardware completed.

| code | actions |
|---|---|
| reserve_cmdbuf | `ReserveCharge`, `ReserveWait`, `ReserveTake`, `ReserveInterrupted` |
| link_and_run_cmdbuf, select_vcmd | `LinkCall`, `LinkSem`, `LinkScan`, `LinkLeastLoaded`, `LinkKick`, `LinkPrev`, `LinkInterrupted` |
| wait_cmdbuf_ready, proc_get_done_job | `WaitAny`, `WaitJob`, `WaitGot`, `WaitNothing`, `WaitSleep`, `WaitInterrupted` |
| release_cmdbuf | `ReleaseCall`, `ReleaseAccount`, `ReleaseLock` |
| drop_owner, hantrovcmd_release, drop_release_cmdbufs, vcmd_abort | `DropCall`, `CloseCall`, `DropSem`, `DropDev`, `DropAbort`, `DropWait`, `DropPoll`, `DropRelock`, `DropWalk`, `DropStart`, `DropFind`, `DropReturn`, `DropEnd`, `DropInterrupted` |
| hantrovcmd_isr, isr_process_node, proc_add_done_job | `IsrEnter`, `IsrRead`, `IsrWalk`, `IsrAbort`, `IsrBusErr`, `IsrCmdErr`, `IsrDone`, `IsrStart` |
| _vcmd_bus_err_process | `KthreadBusErr` |
| the hardware (external) | `HwFinish`, `HwAbortStalled`, `HwError` |

Choices of the model:

* The hardware always raises an interrupt when it stalls at RDY = 0 and may
  raise one or not when it passes a JMP: the IE bit, by which the driver
  coalesces interrupts, is abstracted to that choice.
* Reading a JMP again after a doorbell is one step with the doorbell.
* `select_vcmd`'s choice of the least loaded device is any device of the core
  mask, so no property depends on the load estimate.
* The pool is atomic here (`ReturnCmdbuf`); that this is sound is what
  `CmdbufPool` and its refinement theorem are for.
* `"wild"` is the place a thread goes to when it would index `dev_ctx` with
  0xFFFF, the core id of a cmdbuf that was never linked.
* Clients behave as DWL does: a thread links or releases what it reserved
  before it reserves more, and without a listener thread waits for what it
  runs and releases it. `CloseCall` needs an owned cmdbuf, which only leaves
  out closes that do nothing.

`VcmdContract` knows nothing of lists, JMPs, locks or interrupts: a cmdbuf is
free, reserved, queued, reported, delivered or released; a job runs when those
queued before it on its device have run, and is reported when they have been.
`Stage` reads the stage off `po`, `phase`, `coreId` and `runDone`; `Earlier`,
the jobs to report first, off the work list. The contract has neither drops nor
closes, which take queued jobs away: `ImplementsContract` is checked and proved
without them.

Two bounds close windows between threads. `Smp = FALSE` is a uniprocessor
kernel: a pending interrupt runs before any thread goes on. `SerialCalls = TRUE`
makes link, release, drop and close calls exclude each other. They are there because
with all windows open the code violates the properties (the findings below);
with them closed everything else can still be checked. The theorems about
lists and devices need neither bound: they hold up to the first race (section 4).

### Memalloc

`reserved` and `filp` are the fields of `hlina_chunks[]`; `scan` is the state of
the loop in `AllocMemory` (who asked, how many chunks, `i`); `held` is what the
clients have and `answer` the last result, both history that the contract is
stated on. `SkipUsed`, `SkipGap`, `Take`, `Fail` are the four outcomes of a turn
of the loop. `FreeMemory` is called for any chunk by any file, so frees of a
chunk in the middle, double frees and frees of another client's buffer are
included. A bus address is a chunk number, the translation offset is left out.
`Sizes` has neither 0 nor sizes so large that the 32-bit count truncates: for
those the head of the "buffer" stays marked as free (a hazard with a note).
A hard reset is taken to void every client's buffers, as the code intends.

### DecCores

A step is one section of `owner_lock`, or one access outside of it; the
variables are those of `subsys_mgr` and of `DWLDecNode`.

| code | actions |
|---|---|
| ReserveDecoder, GetDecCore(Any) | `ReserveDown`, `GetDecCore` (one core of the scan; a scan that found none sleeps unless it was woken meanwhile) |
| DWLSetIRQCallback, DWLCreateMcListenerThread | `SetIRQCallback` |
| DecFlushRegs, DWLEnableHw | `EnableHw` (the start), `CountJob` (job_cnt, after it) |
| DWLWaitHwReady, WaitDecReadyAndRefreshRegs | `WaitHwReady`, `DecWait`, `SemWait` |
| ReleaseDecoder | `ReleaseHw`, `Released` (owner, then permit and wake-up) |
| hantrodec_isr | `Isr` |
| ThreadMCListener, CheckCoreIrq, callbacks | `CoreWait`, `Dispatch`, `CallbackReleases`, `CallbackDone` |
| hantrodec_release | `CloseFile`, `CloseCore`, `CloseCoreReleased` |
| the core (external) | `HwEnd` |

`jobs` is `job_cnt - job_done_cnt`, the only use of the two. `asic[k].by` is
history: whose job the core runs or ran. `KillAt` says at which stages of a job
a process may end, `EarlySync` whether a single-core instance may start before
a multi-core one of its process has created the listener. Both are there
because the code does not survive the rest (findings and hazards).

### FrameBuffers and HevcMultiCore

`FrameBuffers` has one operator per function of `hevc_fb_mngr.c`; each is a
section of its mutex and so part of one step. A buffer is `ALLOCATED` to
a slot of the DPB or `FREE`, may be output, temporary output or under the
hardware, and has a count; `free_buffers` is counted apart.

| code | actions |
|---|---|
| HevcDecDecode: slice header, HevcSetRefPics | `DecodePicture`, `OutputPicture`, `IdrFlushed` |
| HevcDpbUpdateOutputList, CheckMaxLatency, FlushDpb | `OutputPicture`, one picture a step, while `MoreToOutput` |
| HevcAllocateDpbImage | `AllocateDpbImage`, `GetFreeBuffer`, `Retry` |
| HevcRunAsic, HevcMCSetHwRdyCallback, HevcSCMarkOutputPicInfo | `RunAsic`, `SCCheckRefs`, `SCMarkOutputPicInfo` |
| FinalizeOutputAll, HevcMCPushOutputAll | `Finalize`, `PushOutputPic`, `PushOutputDone` |
| HevcDecEndOfStream | `EndOfStream`, `EosCoresDone` |
| HevcDecAbort, SwAbortMCDec, HevcDecAbortAfter | `Abort`, `AbortCores`, `AbortAfter` |
| the core and HevcMCHwRdyCallback | `HwReady`, `ReleaseCore` |
| HevcDecNextPicture, PeekOutputPic | `PeekWaits`, `PeekOutputPic`, `NextPictureAborted`, `NextPictureEnd` |
| HevcDecPictureConsumed | `PictureConsumed` |

The stream is any sequence of IDR pictures (with or without output of prior
pictures) and trailing pictures that keep any of the references; picture order
counts are left to it, so any displayable picture may be the next to show.
`broken` is history. Out of scope: post-processor, change of resolution,
latency limits in the sequence parameters, concealment, more references than
`real_size`.

## 3. What TLC checks

| run | instance | states | question |
|---|---|---|---|
| `MCCmdbufPool` | 3 threads, 3 cmdbufs | 1 347 | Do the two-step accesses keep permits and nodes together, lose nothing, hand out nothing twice? |
| `MCVcmdSync` | 1 thread, 2 cmdbufs, SMP, JMP and END, command and bus errors | 12 319 | Does the hardware stay on its list, is a stopped device restarted, is every job reported? |
| `MCVcmdMulti` | 2 threads of 1 process, 3 cmdbufs, command errors | 350 745 | Do lists, flags, pool, done lists, accounts, wake-ups and locks stay consistent? Does the engine keep its contract? |
| `MCVcmdDrop` | a client that drops and a listener, signals | 27 746 | Do drops end, strand nobody, leave only done cmdbufs? |
| `MCVcmdClose` | 2 processes on 2 devices, one closes | 1 968 733 | Do the other process's jobs survive? |
| `MCMemalloc` | 2 clients, 5 chunks of 4 bytes, sizes 1, 4, 5, 12 | 143 753 | Is the scan a first-fit allocator, does it end, does the table agree with the clients? |
| `MCDecCores` | 2 cores; 2 multi-core instances and a single-core one in a process, 1 in another (one core only); processes end before a start | 15 312 | Do permits, wake-ups, interrupts and job counts stay exact, and does every wait end? |
| `MCHevcMultiCore` | 2 cores, 3 slots, 4 buffers, seeks | 1 377 366 | Are counts exact, is nothing overwritten or delivered unfinished, is a retry or a sleeper always answered? |

**Bounds, and why they are enough.** The races in this code need two threads
and the interrupt routine; three cmdbufs are the smallest number for a list with
a predecessor, a node and a successor, and for a job beyond the one each device
keeps for its JMP. (`Objs` must exceed the number of devices plus what the
clients need at once, or the clients wait for the pool for ever: the real number
is 256.) Two devices are enough for a drop to abort one and leave the other. Two
processes are enough for another process's jobs to be on the list that is
aborted. `MaxOwned`, `MaxWorkload`, `Workloads` bound what a process has at a
time, and are chosen so that the limit is reached. `MCVcmdDrop` uses workload 0,
which takes the accounting leak (a finding) out of the way of the other
properties. Five chunks hold two buffers with a gap between and behind them;
the sizes make requests of 1, 2 and 3 chunks, on both sides of the chunk size.
Object symmetry is used in the safety runs only. Two cores are enough for one
core's job to be taken for another's and for a scan to miss a core behind it;
the masks make a client wait with a core free that is not for it; a third client
shares the process of two others, so that its listener serves both kinds. (Three
cores with four clients, 228 000 states, hold the safety properties too, but are
too slow for `WaitsEnd`.) The HEVC instance has the fewest buffers that
`HevcDecAddBuffer` starts with (`dpb_size + 2`), so that a decode call often
finds none, and two jobs in flight that may use each other's buffers.

**Fairness, and why the code justifies it.** `Spec` of `Vcmd` is fair to threads
inside a call (strongly: semaphores and spinlocks of the kernel are queues, and
a call that is enabled again and again gets its turn), to raised interrupts,
the kthread and the hardware. It says nothing of user code. `ClientSpec` adds
that clients wait for jobs they run, as DWL does; without it a job could be done
and never be asked for. `CmdbufPool` and `Memalloc` are fair to steps inside a
call only; `PermitsComeBack` therefore says that unless threads take and return
cmdbufs for ever, there comes a time from which the semaphore has all the permits
of the cmdbufs nobody owns. `DecCores` is weakly fair to threads inside a call, the cores and the
interrupt routine, and strongly to the listener's taking of a core that is
ready: `CheckCoreIrq` scans from core 0 each time, so with weak fairness alone a
core that is ready again at every turn could starve the others for ever, which a
decode that takes thousands of times longer than a turn cannot do.
`HevcMultiCore` states no fairness: its liveness is too expensive to check.
`BufferWillCome` and the check for deadlock say what of it can be said of a
state: a retried call has somebody who will answer it, and nobody is stuck.

**Properties by theme.** Lists and hardware: `WorkListsSound` (which includes
that only a node kept for its JMP stays after its release), `HwOnWorkList`,
`WalkReachesCurrent`. Ownership: `PoolExact` (with what a free cmdbuf must not
be), `WorkloadExact`, `DropLeavesOnlyDone`, `PermitsExact`, `RefCountsExact`,
`NeverOverwrites`, `DpbCountsExact`. Results: `DoneIsTrue`, `DoneInOrder`,
`DoneListsSound`, `ImplementsContract`, `EveryJobReported`, `ReportIsTrue`, `JobCountExact`,
`DeliveredIsDone`. Progress: `NoLostWakeup` (three of them), `SomebodyStarts`,
`DropsEnd`, `WaitsEnd`, `BufferWillCome`. Locks: `LockOwners`. Each is stated
with a comment in its module.

### Findings

Four runs expect a violation; each checks one statement of the code's own
comments and TLC's trace shows how the code breaks it.

| run | property | what happens |
|---|---|---|
| `MCVcmdDoubleReturn` | `PoolExact` | A release sets `cmdbuf_need_remove` before it takes the lock. A link that follows on the list sees the mark, removes and returns the node; the release then returns it again. |
| `MCDecCoresMixed` | `WaitsEnd` | A single-core instance starts its job and waits in DEC_WAIT, as there is no listener. A multi-core instance of its process then creates one and counts its own job; CORE_WAIT takes the first core of the file that is ready, which is the single-core instance's. It posts `sc_dec_rdy_sem`, on which nobody waits, and DEC_WAIT never returns. |
| `MCHevcErrorMark` | `CorruptIsMarked` | The core ends with an error between `HevcSCMarkOutputPicInfo`'s look at the references and its write (hevcdecapi.c 2215-2222): the listener marks the slot, the decoding thread writes "no error" over it, and the picture is output as good. A second way needs no such race: a picture that is no reference is already in the output fifo and its slot reused when the core ends. The listener then finds it neither in `out_buf` nor in the DPB, so `current_pic_id` stays 0 and `MarkOutputPicInfo` matches nothing. |
| `MCHevcSeekVcmd` | `ReleaseFindsListUnused` | A seek under VCMD drops the instance's jobs (`SwAbortMCDec`, `DWLDropCmdbufs`). Nobody runs their callback, which alone clears the hardware's mark, counts the references down and pushes the token of `fifo_core`. |

Other traces were found while modelling and have no run of their own; with these
values of the constants (and, in the first six, of `Vcmd`, `SerialCalls = TRUE`)
TLC shows each of them.

| violated | constants | what happens |
|---|---|---|
| `HwOnWorkList` | 3 cmdbufs, threads t1 and t2 (a listener) of one process, workload 1, limits 2, JMP only, SMP | `select_vcmd` appends a job and unlocks; the doorbell comes later. In between the interrupt routine takes the predecessor, which now has a successor, off the list although the hardware is stalled at its JMP. |
| `WalkReachesCurrent` | the same | The interrupt routine reports a node and then reads its `next`; meanwhile the client has released it and reserved it again, which clears `next`. |
| `WorkloadExact` | 2 cmdbufs, t1 drops, t2 listens, workload 1, limits 2, not SMP | DROP_OWNER returns cmdbufs without `return_process_resource`. |
| `DoneListsSound` | 3 cmdbufs, t1 and t2 (a listener) of one process, workload 1, limits 2, JMP and END, SMP | The END of a cmdbuf that an earlier interrupt has already reported arrives late. The interrupt routine finds it in `reg_mem`; meanwhile it is released and reserved again, which clears `cmdbuf_run_done`, and is reported as done before its new client has linked it. |
| `PoolExact` | 3 cmdbufs, 2 processes, 1 device, workload 0, `MaxOwned` 2, JMP only, command and bus errors, signals, p1 closes, not SMP | The kthread restarts the device of a drop or close between `vcmd_abort` and the relock; the device is left alone and the last loop returns a cmdbuf that is still linked. |
| `DropsEnd` | 2 cmdbufs, 2 processes, workload and limits 1, bus errors, p1 closes, not SMP | A bus error makes the device idle while a close waits for its abort; only the ABORT branch wakes `abort_waitq`. |
| `PermitsExact` of `DecCores` | `KillAt` with "scan" | A signal that ends a wait for a core keeps the permit. |
| `ReportIsTrue`, `JobCountExact` | `KillAt` with "run" | The core of a dead process is released while it runs; its next owner gets its interrupt. |
| `RefCountsExact` | `SeekPoints` with "retry" | A seek after DEC_NO_DECODING_BUFFER: what the failed call made final output stays counted. |

## 4. What is proved

All constants are arbitrary; the assumptions are the named ASSUMEs of the
modules, which TLC evaluates in the runs.

**Pool** (`ObjsFinite`, `ThreadsFinite`, `NobodyIsNoThread`,
`InitOrderListsObjs`). The invariant is types /\ `PermitsMatchNodes` /\
`OnePlace`. `NoNullNode` is not inductive alone: that a thread past the
semaphore finds a node needs the count of all threads there, and that the count
survives needs that nodes are not duplicated. From it: `TypeCorrect`,
`NeverNullNode`, `PermitsBalance`, `BuffersInOnePlace` (no cmdbuf is in two
places, none is lost), and
`Refinement`, that the pool implements `CmdbufOwnership`.

**Vcmd** (all assumptions of the module). `TypeCorrect` proves `TypeOK`,
which besides the types has what is non-NULL where it is used: a linked cmdbuf
has a core, a device that is not off has an executing cmdbuf, the walk has a
current one, a call that uses its cmdbuf or device has it. `TypeOK` is
inductive; the proof has one lemma per action. `LocksOwned` proves
`LockOwners`, inductive given `TypeOK`: each spinlock is held exactly while the
interrupt routine or one thread is in a section of it, the module semaphore
exactly while one thread links, drops or closes; no exit forgets to unlock.

`DropsLeaveOnlyDone` proves the action property `DropLeavesOnlyDone`, on any
number of CPUs, with signals, errors and overlapping calls, under `OneDriver`
alone: a decoder instance is driven by one thread, and only a listener of it may
be in a call meanwhile. (A second driver could reserve a cmdbuf behind the
drop's loop.) The loop looks at each cmdbuf once, without a lock. `DropInv` says
that what it has passed stays passed (`SeenOk`): not the owner's, or left
because it was done, and done is not taken back while a client has the cmdbuf. A
close needs besides that no thread of its process is in a call (`ClosesAlone`).

`VcmdListProofs` proves who has a cmdbuf, for any number of cmdbufs, threads,
listeners, processes and devices, on any number of CPUs, with calls that
overlap, signals, command and bus errors, END and JMP. It assumes two things.
`NoDropCalls`: nobody drops or closes. And no step so far is a `ListRace`: the
theorems have the form `Safety /\ [][~ListRace]_vars => []P`, and a behaviour of
`Safety` may stop anywhere, so they speak of every state before the first race.
The code does race, so this cannot be left out; what is proved is that nothing
but these two steps breaks the lists:

| race | what it is | where it is seen |
|---|---|---|
| `ReturnedInUse` | a cmdbuf is returned while a release or link call still has a pointer to it | `MCVcmdDoubleReturn`: the second return comes later |
| `ReservedInUse` | a free cmdbuf is reserved while the interrupt routine stands at it or is to arrive at it | `WalkReachesCurrent` in the table above |

`UsedByCall` and `UsedByIsr` name the cmdbufs a call, or the interrupt routine,
has a pointer to. `ListInv` is inductive and has nine parts.
`ListsExact` (on the list of its device, once, exactly while linked) needs to
know that what the interrupt routine takes off is on that list, so `IsrSound`
follows its walk through the `next` pointer of a node that is off the list
already, and `CallsSound` the link call that looks at the `prev` of a job which
was reported before it could. `KeptAtEnd` says that a released cmdbuf that
stays for its JMP is the last of its list, or the one before the job a link call
has just added: that call removes it in its second section. `PoolSound` and
`DoneSound` need `LifeSound`, that what the driver knows of a cmdbuf (core, done,
marked, linked) agrees with what its client may do with it, and `SleepSound`,
that who sleeps has `in_wait` set. From it: `WorkListsExact`, `PoolIsExact`,
`DoneListsExact`, and with one more induction `NoWakeupLost`.

`WorkloadIsExact` needs besides that no signal interrupts a reservation, which
keeps its charge. `Accounts` says that `total_workload` is the sum of the
workloads of a process's cmdbufs and of the requests that wait (`Balanced`), and
that a released cmdbuf is either charged no more or still to be given back by
the call that marks it (`GivenBack`): so neither that call nor a later removal
gives back twice. The sum is the fold that `WorkloadExact` uses; that it is what
one expects is proved from the definition of the fold, by induction on the least
counterexample among the sizes of sets (`FoldExists`, `FoldUnique`,
`SumChanged`).

`VcmdEngineProofs` relates the list to the hardware. The driver never tells the
device what to run: it edits JMPs while the device follows them, and learns late,
from interrupts that may be merged, how far the device has come. The theorems
hold up to the first `EngineRace`: a `ListRace`, or `ReservedInHw`, that a free
cmdbuf is reserved while the device stalls at its JMP or an interrupt that names
it is not read yet (rows `HwOnWorkList` and `DoneListsSound` of the table lead
there). Any number of CPUs, threads and devices and overlapping calls are
allowed; in particular the interrupt routine walks a list whose nodes are
released, returned and, once it is past them, reserved again under it.

None of `DoneIsTrue`, `DoneInOrder`, `WalkReachesCurrent` and `SomebodyStarts` is
inductive; they hang on one order of positions on the list. In `HwInv`, for each
device, what is reported is a beginning of the list (`DonePrefix`); the walk of
the interrupt routine stands at the first buffer behind it (`WalkOk`), at or
before the current buffer it is to arrive at (`CurrOk`), which is at or before
what the device has written to memory (`MemOk`), which is before the buffer the
device is in, and all before that has run (`RunOk`, `BehindOk`). `ChainOk` says
that the JMPs link the buffers as the list does. `StallOk` says that a device
stalls at the end of the list, or at a JMP to the last buffer of it, and then
the call that linked this buffer is about to ring. `PowerOk` is what a stopped
device can still raise, and `StartOk` who starts it. From it `ReportedHasRun`,
`ReportedInOrder`, `WalkArrives` and `NoDeviceForgotten`.

`HwOnWorkList` itself is not a theorem: with two threads on SMP it is false
without any race (table above). What remains is `HwNearItsList`, proved by
`DeviceStaysNearItsList`: a device that is on is in a buffer of its list, or it
stalls at the JMP of one just taken off it and a link call is about to ring.

`UniprocessorHasNoRace` shows where no race can happen: on one CPU, where an
interrupt is served before any thread goes on, and if link and release calls do
not overlap (`OneCpu`), no step of `Vcmd` is an `EngineRace`. There all these
theorems speak of every reachable state.

`EngineRefinesContract` puts these together: until the first `EngineRace`, `Vcmd`
implements `VcmdContract`. The driver's steps that the contract sees are

| step of `Vcmd` | step of the contract | why it is allowed |
|---|---|---|
| `ReserveTake` | Reserve | a cmdbuf of the pool is free and on no list (`PoolSound`) |
| the link section, on whichever device (`AddJob`) | Queue | the job is at the end of its list, behind exactly the jobs that are not done (`ListsExact`) |
| `HwFinish` | Run | all before the buffer the device is in has run (`RunOk`, `BehindOk`) |
| the report of a node by the interrupt routine | Report | the walk stands at the first job that is not done, and that one has run if its status is good (`NextToReport`, `DoneIsTrue`) |
| `WaitGot` | Deliver | who waits for a job is in the process that has it (`UsersKnown`) |
| `ReleaseCall` | Release, or ReleaseAtOnce if it is on no list | only what is reserved or delivered is released |
| the return of a node that leaves its list | Return | its client has marked it, so it is released (`LifeSound`) |

and all others stutter. One more invariant is needed: `UsersKnown`, that a
cmdbuf a client still uses belongs to that client's process. What the contract
says and the invariants do not is about pairs of states: that nothing is
reported, delivered or returned twice, that a job's place in the queue is
settled when it is linked, and that a node taken from the list changes no order
among those that stay.

**Memalloc** (`ChunksAssumption`, `SizesAssumption`, `NoneAssumption`).
`BuffersDisjoint` is not inductive: a scan that stood inside a buffer would see
free chunks. The invariant `IInv` adds `Shape` (no head lies inside a buffer,
heads have owners), `HeldIsTable` (the clients' buffers are the heads of the
table) and `Passed` (what ends before `i` ends at or before it, and no start
below `i` would have fitted). From it: `TypeCorrect`, `Disjoint`, `TableAgrees`,
and `FirstFit`, that the loop implements `Allocator`. In the refinement
`SkipUsed`, `SkipGap` and `AllocCall` stutter, `Take` grants and `Fail` refuses.

**DecCores** (`CoresAssumption`, `ClientsAssumption`, `ScopeAssumption`).
`DecCoresProofs`: `IInv` is types, `DeadWhileClosed` (a client is dead only
while its file closes), `Wakes` and `Balance`. `Wakes` strengthens
`NoLostWakeup`, which is not inductive: a scan that passed a core when it was
taken, and would go to sleep now that it is free, must have been marked as woken
or have its wake-up still to come. `Balance` is `PermitsExact` as an inequality:
signals lose permits, they never make one. From it: `TypeCorrect`,
`PermitsBalance` (`PermitsExact`, if "scan" is not in `KillAt`), and
`NobodyForgotten`. The second part adds `JobInv`: a finished job is known in one
place at a time, the bit in `dec_irq`, the listener, the semaphore or the client,
and where it is says where its owner is; `ClosePassed` carries this through the
loop of a close. From it `ReportsTrue` (`ReportIsTrue`, if "run" is not in
`KillAt`). `CountInv` adds what `JobCountExact` needs: the counters hold only if
nothing was started before there was a listener (`ListenerFirst`: in a process
with multi-core instances a single-core one is idle until then, no core has a
callback, and nobody takes interrupts in DEC_WAIT). From it `JobsCounted`
(`JobCountExact`, if also `EarlySync` is FALSE; `MCDecCoresMixed` shows what
happens otherwise). Only the safety part of `Spec` is used.

**HevcMultiCore** (`ConstantsAssumption`), in two layers. `HevcDpbProofs`:
`DpbInv` is types, `DpbExact` (which slots are busy, that `fullness` and
`num_out_pics_buffered` count them), `RefsFit`, `SlotChosen` and `OutBufFits`.
`DpbCountsExact` is not inductive: that a slot is free when bumping ends needs
how many references the slice header may leave, and that `out_buf` never
overflows needs what a call starts with. From it `TypeCorrect` and
`DpbCountsAreExact`, for all values of the constants, with VCMD or without,
wherever the application seeks. `HevcRefCountProofs` needs `SafeSeeks`: the
application seeks between two pictures only, and not under VCMD. These are the
seeks after which the code keeps its counts; `MCHevcSeekVcmd` is a finding about
the one excluded kind, the table above shows the other. Under it `RefInv` holds:
slots hold different buffers (`SlotsRight`), a buffer is on its way to the
application at most once (`OutputsRight`), its flags say where it is
(`FlagsRight`, `PhaseRight`, `DisplayRight`), one core at most writes it and
then it is marked (`HwRight`), a job counts what it reads (`RefsHeld`), and
`n_ref_count` is the sum of these uses (`CountsRight`). The parts hang together:
the count is only as good as the flags it is taken down with, and a flag is only
right if a buffer is in one queue at a time. From it `RefCountsAreExact`,
`DeliveredPicturesAreDone`, `NoWakeupIsLost`, `ABufferWillCome`,
`ReleaseNeedNotWait` (what `MCHevcSeekVcmd` finds violated holds under
`SafeSeeks`), and the action property `NeverOverwritten`.

**Only model-checked.** Liveness (`PermitsComeBack`, `EveryJobReported`,
`DropsEnd`, `ScanEnds`, `WaitsEnd`): fairness and ENABLED are out of the prover's
reach. Every safety property of a passing run but `HwOnWorkList` is proved for
all values of the constants, under the assumptions named above. Of `Vcmd`, drops
and closes are only model-checked (`MCVcmdDrop`, `MCVcmdClose`) for all but
types, locks and `DropLeavesOnlyDone`, and so is what may happen after a race;
beyond those instances the table above shows what fails.

## 5. Not modelled, and why

* Of the engine: TIMEOUT interrupt and its timer, the watchdog, arbiter
  interrupts (compile-time options); slice decoding and immediate aborts;
  insertion of high-priority jobs; suspend and resume; several module types;
  polling mode; a close that a signal interrupts; the poll of `vcmd_abort` that
  gives up after ten seconds; the hardware's register values and cmdbuf
  contents. The hazards of these are listed with a note.
* Of the allocator: `mmap`, the PCI set-up, sizes of 0 and near 2^64.
* Of the normal-mode driver and DWL: watchdog and software timeouts, power
  management, the list of formats, register ioctls, slices; the unlocked test of
  the owner in DEC_RELEASE (`hantro_dec.c` 2509) is part of its step.
* Of the HEVC decoder: see the scope in `HevcMultiCore`. A reservation that fails
  (`hevc_asic.c` 582) is a hazard with a note; the walk of
  `HevcMCMarkOutputPicInfo` over `out_buf` wraps at `dpb_size + 1` (line 2133),
  the ring at `MAX_DPB_SIZE + 1`: not seen, as `out_buf` is a sequence here.
* The mailbox and its MHU client: built only with `MAILBOX_CLIENT`, and
  unfinished. They queue addresses of messages on a caller's stack, copy
  contents on release and free nodes others wait on; nearly every step would be
  undefined behaviour, and a model would say that and nothing else.
* The other codecs have a variant of the same frame buffer list; OpenMAX and test
  benches transform data and have little shared state.
* The other components of section 1, until their turn.

## 6. Plan

1. Done: `CmdbufPool` and `Vcmd` with `CmdbufOwnership`; the pool's theorems,
   types, locks, lists, wake-ups, accounts and drops of the engine, its device and
   interrupt routine, and that it implements `VcmdContract`; `Memalloc` with `Allocator` and its theorems; `DecCores`
   with permits, wake-ups, interrupts and job counts proved; `FrameBuffers` and
   `HevcMultiCore` with the DPB, the reference counts and `NeverOverwrites` proved.
2. Proofs: the engine with closes, of processes that share no device's list.
3. Engine, extended: high-priority insertion, several module types (with the
   semaphore that is raised for the wrong type), suspend and resume, timeouts,
   interrupted close; drops and closes in `VcmdContract`.
4. `Fifo` against an abstract bounded queue: set-abort posts the
   critical-section and read semaphores whether or not somebody waits, so that
   after clear-abort two threads may be in the section, and a pop may take from
   an empty ring (`fifo.c` 108, 162).
5. The post-processor's buffers (`input_queue.c`) in `HevcMultiCore`.

Runs stay few: a new component gets one run for its promise and one for a
finding at most.
