# My_LDD3 in TLA+

The repository holds the example drivers of *Linux Device Drivers, 3rd edition*
in the form its author studied them: the reference `scull` driver
(`03_Scull/Reference`), the author's own rewrites of it, and a set of small
teaching modules and programs. These modules specify the drivers that keep
state between calls, check them with TLC on small instances and prove the most
important facts with TLAPS for every instance.

Contents: [inventory](#inventory) · [modules](#modules) ·
[ScullPipe](#scullpipe-pipec) · [ScullDev](#sculldev-scull_mainc) ·
[ScullAccess](#scullaccess-accessc) ·
[ScullModule](#scullmodule-initialisation-and-cleanup) ·
[the small parts](#the-small-parts) · [runs](#runs) · [fairness](#fairness) ·
[proofs](#proofs) · [mutants](#mutants) · [not modelled](#not-modelled) ·
[plan](#plan)

## Inventory

There is no documentation besides the comments and no test; comments and the
code itself are the reference. Everything called from the kernel (mutexes, wait
queues, `kmalloc`, user copies, signals) is external and modelled by what the
callers rely on.

| component | state | operations | interacts with | hard behaviour | what makes it correct |
|---|---|---|---|---|---|
| **scullpipe** `Reference/pipe.c` | ring buffer, `rp`/`wp`, open counts, mutex, two wait queues, SIGIO list | open, release, read, write, poll, fasync, `SCULL_P_IOCTSIZE` | processes through wait queues, signals; the parameter `scull_p_buffer` set through any scull device | blocking, tests of the pointers without the mutex, wake-ups after the mutex is dropped, an open that resets a pipe in use, a size changed between opens | a FIFO of bytes; no lost wake-up; the mutex released on every path; the buffer alive while open; pointers inside it |
| **scull, bare device** `Reference/scull_main.c` 57-82, 248-397, 530-560 | list of quantum sets, `quantum`, `qset`, `size`, mutex; each file's position | open (trims when write-only), read, write, llseek | the driver-wide `scull_quantum`, `scull_qset` | sizes read before the mutex is taken, allocations that fail half-way, holes, `size` read by llseek without the mutex | a sparse file; every array and quantum has the size the device says; nothing outside an allocation is touched |
| **scull ioctl** `scull_main.c` 403-526 | `scull_quantum`, `scull_qset`, `scull_p_buffer` | reset, Set, Tell, Get, Query, eXchange, sHift | all devices | no lock at all; a faulting Set; values unchecked | X and H are atomic (scull.h:150-151); Query's answer is positive |
| **access control** `Reference/access.c` | per device: an atomic counter, or a count and an owner under a spinlock and a wait queue, or a list of devices | open and release of scullsingle, sculluid, scullwuid, scullpriv | read/write of the bare device | counter that is transiently negative, waiting with an unlocked test, waking after unlock, trimming without the mutex | the advertised exclusion; no lost wake-up; a device is trimmed by nobody while it is used |
| **initialisation and cleanup** `scull_main.c` 575-680, `pipe.c` 330-390, `access.c` 325-413 | which regions, devices and memory exist | module init with a failure at each point, exit | all of the above | cleanup after a partial init | cleanup undoes exactly what init did ("must not fail if nothing was initialised") |
| **/proc and seq_file dumps** `scull_main.c` 83-235, `04_Debug/scull_debug/scull_debug.c`, `misc-modules/seq.c` | an iterator position | start, next, stop, show | devices, under their mutex | a list loaded before the mutex, a page that is full, a signal in between, the last index | every device shown once before the end, none beyond the array; a list scanned is the device's |
| **the author's scull** `03_Scull/scull_main_03.c`, `04_Debug/scull_debug/scull_debug_main.c` (same code) | as scull, with a mutex and a semaphore | init, exit, open, read, write, llseek, trim | – | the semaphore is never initialised: its first caller dies with its inner lock and the next spin. `s_pos`/`q_pos`, never computed, and a trim that frees the wrong block are behind it, out of reach | nobody is blocked but by a process that died on a semaphore; files and mutexes survive it |
| **the author's scull with pipe and access** `05_Concurrent/*.c` | as the reference | – | – | drafts: they do not compile | – |
| **globalmem** `03_Scull/globalmem/globalmem.c` | one array, file positions | read, write, seek, ioctl clear | the kernel, which copies `f_pos` in and out around read and write | no lock: threads that share a file race for its position | no byte outside the array is copied; positions stay in it |
| **sleepy, complete** `misc-modules` | a flag and a wait queue; a completion | read, write | – | the flag cleared by the first reader woken, or by one a signal has woken; readers that come between a `complete` and the one it woke | no sleeper beside a flag or a completion that is announced and not taken |
| **jit** `misc-modules/jit.c` | a data block per reader, timer or tasklet; `jiffies` | read of the /proc files | timer/tasklet context | the reader frees the block when it sees the count reach zero; a signal leaves the timer armed; `jiffies` wraps | the callback finds its block, file and module; calls end; no delay is too short |
| **jiq** `misc-modules/jiq.c` | one shared `jiq_data` | read of the /proc files | work queue, tasklet, timer | the shared block overwritten by a second reader; a callback left over from an interrupted one | a reader that is alone is woken and prints to its own file |
| **silly** `misc-modules/silly.c` | I/O memory window | read and write in four modes | hardware | size checks on unsigned counts, units and alignment; a read that faults has read the memory and moves the position by `-EFAULT` | transfers stay in the window and move what they report |
| **client programs** `04_Debug/Reference/misc-progs` | `gotdata` in `asynctest` | signal handler, main loop | scullpipe through SIGIO | data that comes before FASYNC is set, a signal between read and reset or during a read, more data than one read takes | no notification is lost: where data is slept beside, the reason is a known one |
| **fragments** `hello*`, `jit_06`, `kdatasize`, `kdataalign`, `set_level`, `set_console`, … | none | – | – | – | – |

## Modules

| module | what it is |
|---|---|
| `PipeFifo` | what a scullpipe promises: a bounded queue of bytes. Abstract, no locks, pointers or memory |
| `ScullPipe` | `pipe.c`, operation by operation; the properties; the refinement mapping to `PipeFifo` |
| `MCScullPipe` | the model values and the symmetry TLC runs `ScullPipe` with |
| `ScullPipeProofs` | the inductive invariant of `ScullPipe` and the safety theorems that follow from it; no reader's wake-up is lost, and a writer's only to an open |
| `ScullPipeFifoProofs` | the counters are the numbers of open files; `ScullPipe` implements `PipeFifo` |
| `ScullFile` | what a scull device promises: a sparse file. Abstract, no lists, arrays or quanta |
| `ScullDev` | the bare device: open with its trim, read, write, llseek, and what ioctl stores; the refinement mapping to `ScullFile` |
| `ScullDriver` | the bare device and `scull_ioctl` in one state space |
| `MCScullDev`, `MCScullDriver` | the processes of the instances of `ScullDev` and `ScullDriver` |
| `ScullDevProofs` | the inductive invariant of `ScullDev`, facts about divisions and lists, the safety theorems |
| `ScullDevFileProofs` | `ScullDev` implements `ScullFile`; theorems about `ScullDriver` |
| `AccessRules` | what the four devices of `access.c` promise: who may have a file beside whom. Abstract, no counters, locks or queues |
| `ScullAccess` | open and release of scullsingle, sculluid, scullwuid and scullpriv; the refinement mapping to `AccessRules` |
| `MCScullAccess` | the users and terminals of its instance |
| `ScullAccessProofs` | its inductive invariant and the exclusion theorems, from the sizes of sets of processes; `ScullAccess` implements `AccessRules` |
| `ScullModule` | loading and unloading: the init and cleanup functions of all three parts, with the devices and `/proc` in use meanwhile |
| `ScullModuleProofs` | its inductive invariant and the safety theorems |
| `ScullIoctl` | `scull_ioctl` on the two settings that no lock protects |
| `SeqFiles` | the files in `/proc` read through seq_file, beside writers and trims |
| `Scull03` | the author's first scull |
| `GlobalMem` | threads that share a file of globalmem |
| `Sleepy`, `Complete` | a flag with a wait queue; a completion |
| `Jit`, `JitDelay` | the timer and tasklet files of `jit.c`; its four ways to wait for a time |
| `Jiq` | the readers of `jiq.c` and the `jiq_data` they share |
| `Silly` | transfers to and from I/O memory |
| `AsyncTest` | the loop of `asynctest.c` and its signal handler |
| `SmallParts` | extends `ScullModule` and composes it with instances of the eleven modules above |
| `SmallPartsProofs` | theorems about ioctl, jit, globalmem, silly, the author's scull and the files in `/proc` |
| `SmallPartsWaitProofs` | theorems about sleepy, complete, asynctest, the delays of jit, and jiq; the types of all parts |

Which module composes which:

```
ScullPipe    --refines-->  PipeFifo
ScullDev     --refines-->  ScullFile
ScullAccess  --refines-->  AccessRules
ScullDriver  EXTENDS  ScullDev
             INSTANCE ScullIoctl
             --refines-->  ScullDev, ScullIoctl
SmallParts  EXTENDS  ScullModule
            INSTANCE Jit, JitDelay, Jiq, ScullIoctl, SeqFiles, Sleepy, Complete,
                     Scull03, GlobalMem, Silly, AsyncTest
```

In all of them a step is what the code does between two places where another
process can see or change what it touches. `pc[p]` names the place process `p`
is at; its prefix tells the call (`o_` open, `c_` close, `r_` read, ...). A
process has at most one file and is in at most one call, so that `f_mode`,
`f_flags`, uids and terminal are attributes of processes; more files are more
processes. What the mutex or a spinlock hides from everyone is one step; what
others look at without the lock is a step of its own, and that is where the
hazards are.

## ScullPipe (`pipe.c`)

| in the module | in the code |
|---|---|
| `mutex`, `LockBalanced`'s `Locked` places | `dev->mutex` and the code between `mutex_lock*` and `mutex_unlock` |
| `buffer`, `alloc`, `buffersize`, `rp`, `wp` | the fields of `struct scull_pipe`; pointers are offsets, `end` is `buffersize`, `alloc` what `kmalloc` was asked for |
| `inq`, `outq` | the wait queues: who is queued and has not been woken |
| `Call`, `MutexLock`, `LockInterrupted` | entering a call; `mutex_lock`, and `mutex_lock_interruptible` giving up |
| `OpenAlloc`, `OpenSet`, `OpenReset`, `Close`, `CloseFree` | `scull_p_open` 59-93, `scull_p_release` 97-115 |
| `ReadEmpty`, `ReadPrepare`, `TestLoad`, `ReadTest`, `Woken` | the `while (rp == wp)` loop of `scull_p_read` with `wait_event_interruptible` taken apart |
| `ReadCopy`, `ReadWrap`, `ReadWake`, `ReadFault` | the rest of `scull_p_read` |
| `WriteFull` ... `WriteFinishWait` | `scull_getwritespace`, an explicit `prepare_to_wait` / `schedule` / `finish_wait` |
| `WriteCopy`, `WriteWrap`, `WriteWake`, `WriteAsync`, `WriteFault` | the rest of `scull_p_write` |
| `PollScan`, `PollWoken`, `Fasync`, `IoctlSize` | `scull_p_poll`, `scull_p_fasync`, `SCULL_P_IOCTSIZE` |

- The unlocked tests load `rp` first, then `wp`, in two steps. An open stores
  `wp`, then `rp`; a copy and the wrap behind it are two stores to one pointer.
- `wait_event_interruptible` queues the process, tests, then looks for a
  signal, then sleeps. Its first test, before it queues, only saves work and is
  left out: it leads to the same places as the second.
- poll(2) of a reader waits for `POLLIN`, that of the others for `POLLOUT`;
  `poll_wait` puts the process on both queues in either case.
- Memory beyond the allocation behaves like memory: the model goes on, and
  `InsideAllocation` reports it. Sizes below 1 are not considered.
- `reset` is a history variable: for whom on `outq` an open has moved the
  pointers. The code has nothing like it.

`PipeFifo` is the promise: a queue of at most `Capacity` bytes, appended to,
taken from, and emptied by an open or by the last close. An open counts for it
from its last store on.

## ScullDev (`scull_main.c`)

| in the module | in the code |
|---|---|
| `data` | the list of `struct scull_qset`, its arrays and quanta; `<<>>` is NULL, lengths are what `kmalloc` was asked for |
| `quantum`, `qset`, `size`, `mutex` | `struct scull_dev` |
| `scull_quantum`, `scull_qset` | the driver-wide settings |
| `args` | the locals `quantum` and `qset` of `scull_read` and `scull_write` |
| `Open`, `Trim`, `TrimQuantum`, `TrimQset` | `scull_open` 246-263, `scull_trim` 57-82, in three steps since reads and writes load the sizes without the mutex |
| `LoadQuantum`, `LoadQset` | lines 307 and 351 |
| `Where`, `Followed`, `Allocated`, `Stored` | the divisions, `scull_follow`, the allocations, the copy |
| `ReadNothing`, `ReadCopy`, `ReadFault` | the three ways `scull_read` goes to `out` |
| `WriteNoMem`, `WriteCopy`, `WriteFault` | those of `scull_write` |
| `Oops` | a division by zero, or an access outside an array or a quantum |
| `Seek`, `Ioctl` | `scull_llseek`; the stores of `scull_ioctl` |

- Every allocation may fail, and those made before stay. A read, too, makes
  `scull_follow` append list items.
- After an `Oops` the process is gone and the mutex is held for ever. What the
  stray access destroys is not modelled.
- `llseek` goes to any of `Seeks`: with `whence` and `off` the caller reaches
  every position, so what `SEEK_END` reads without the mutex makes no difference.
- `Ioctl` is every command that stores: any process may be the capable one. A
  `__get_user` that faults stores zero, `Quanta` says whether that happens.
- Not considered: negative sizes and the overflow of `quantum * qset`; a write
  of zero bytes beyond the end (it would extend `size`); the leak of quanta when
  an array is longer than `qset` says.

`ScullFile` is the promise: a file with positions, where what was written is
read, what was not is a hole, a failed copy leaves junk where it was going to
write, and a write-only open truncates. The refinement holds as long as no call
works with sizes the device has no more; `DevStale` shows that the code does not
see to that once somebody changes the settings.

`ScullDriver` replaces `Ioctl`, where any process stores anything, by the steps of
`ScullIoctl`: two stores of a reset with other calls in between, an exchange in
three steps, and nobody but the capable beyond a reset. A process is in a call of
the file or in an ioctl. `changed` is history: a capable process has changed a
setting. The settings start at `InitQuantum` and `InitQset` (`Initial` in
`ScullIoctl`), a reset installs `DefaultQuantum` and `DefaultQset` (`Default`). They are the same unless the module is loaded
with parameters (`scull_main.c:48-49`); if they are not, a reset changes the sizes for
whoever asks. `UnprivilegedHarmless` is checked and proved for a module without
parameters only.

## ScullAccess (`access.c`)

| in the module | in the code |
|---|---|
| `available`, `OpenSingle`, `OpenBusy`, `CloseSingle` | `scull_s_available`: `atomic_dec_and_test`, and the increment of the one who lost, a step later |
| `count`, `owner`, `OpenUser`, `CloseUser` | sculluid: one critical section each |
| `TryOpen`, `CountOpen`, `OpenDenied` | the locked part of `scull_w_open`; the store of the owner and that of the count are two steps, since the sleepers' test sees them |
| `WaitPrepare`, `TestCount`, `TestOwner`, `Woken`, `Interrupted` | `wait_event_interruptible(scull_w_wait, scull_w_available())`, which loads the count, then the owner, without the lock |
| `CloseWait`, `CloseWake` | `scull_w_release`: the wake-up comes after the unlock |
| `list`, `OpenFound`, `OpenNew`, `OpenSleep`, `OpenSlept` | `scull_c_lookfor_device` under `scull_c_lock` |
| `Trimmed`, `UseDevice`, `Used` | the trim of a write-only open; a read or write holding `dev->mutex` |

- A behaviour is about one device and one build, chosen at the start. The four
  devices share nothing, so nothing is lost by not mixing them.
- On a uniprocessor build without kernel preemption `spin_lock` is empty; that
  matters only where the holder sleeps, in `kmalloc(GFP_KERNEL)` at line 259. With
  several processors the holder sleeps with the lock held and the others spin.
  `slept` records for which terminals that happened without a lock.
- A spinning process is one whose action waits for `spin` to be free.
- Both loads of `scull_w_owner` in one test are one, as the compiler makes them.

`AccessRules` is the promise: one file at a time; the files of one user, and of the
capable, until the last is closed; one device for each terminal, the newest if there
are more. An open counts for it from where the code can no longer fail, a release
from where the count or the counter has given it back; an open that fails or waits
is no step. What the owner field holds while nobody has a file is no part of it.


## ScullModule (initialisation and cleanup)

| in the module | in the code |
|---|---|
| `stage` | where `scull_init_module`, `scull_p_init`, `scull_access_init` or a cleanup has come to |
| `regions`, `arrays` | what `register_chrdev_region` and `kmalloc` have given to each part |
| `tried`, `live` | devices whose set-up function has been called; those whose `cdev_add` has succeeded |
| `content` | the memory hanging on a device: quanta, a pipe's buffer, the clones of scullpriv |
| `LoadRegion`, `LoadAlloc`, `SetupDevice`, `SetupDone` | `scull_init_module`; the loops over the devices of all three parts |
| `PipeRegion`, `PipeAlloc`, `AccessRegion`, `CreateProc` | `scull_p_init`, `scull_access_init`, `scull_create_proc` |
| `Open`, `Write`, `Close`, `Dump`, `DumpDone` | processes: the devices as far as memory and references go; the three `show` functions of `/proc` |
| `Unload`, `CleanupScull`, `RemoveProc`, `CleanupPipe`, `CleanupAccess` | `rmmod`, `scull_cleanup_module`, `scull_p_cleanup`, `scull_access_cleanup` |

- A registration that fails at the very start leaves nothing changed and is not
  a step. The order of the devices within a loop does not matter and is left open.
- The kernel's part: an open takes a reference to the module and fails once it is
  being unloaded; unloading needs that no device is open; `remove_proc_entry`
  waits for those who are reading, who hold no such reference.
- `scullmem` and `scullseq` count as one file. Without `SCULL_DEBUG` there is
  none, which is as if every `proc_create` failed.
- What a process does with an open device is here only whether the device has
  memory; the rest is in the other modules.

## The small parts

`SmallParts` extends `ScullModule` and instantiates eleven more modules, each of
which has its own state. They share nothing, as the drivers they model share
nothing: a behaviour is about one part, chosen at the start (`which`), and the
others stay where they begin (`Others`). One run and one specification,
`PartsSpec`, then do for all of them, and the theorems are about `PartsSpec`. The
invariants of the parts are stated in their own modules.

### ScullIoctl (`scull_main.c` 403-507)

| in the module | in the code |
|---|---|
| `setting` | `scull_quantum`, `scull_qset` |
| `Reset` | `SCULL_IOCRESET`: two stores, no privilege asked |
| `Set` | Set and Tell; `__get_user` stores zero when it fails |
| `Load`, `Replace`, `Reply`, `Fail` | eXchange and sHift: `tmp = scull_quantum`, the store, the answer; an exchange that cannot read its argument has stored zero |
| `replaced`, `overtaken` | history: what the store has replaced; whether another store came between |

Get and Query only look. The author's `scull_ioctl` has the same commands.

### SeqFiles (`scull_main.c` 88-206, `scull_debug.c`, `seq.c`)

| in the module | in the code |
|---|---|
| `index`, `i` | `seq_file.index`; the device or number the iterator is at |
| `Start`, `Over` | `start`: where each of the four ends; `single_open` for `scullmem` |
| `Load`, `Lock`, `Scan`, `Interrupted` | the `show` functions: `d->data` is loaded before the mutex in `scull_read_mem_proc_show` only |
| `Overflow`, `Dropped` | the text of a device does not fit: the kernel drops it and shows the device anew in the next read; `scullmem`, one single item, begins anew |
| `Count` | `ct_seq_show`, `ct_seq_next`, and `ct_seq_stop`, which frees |
| `Replace` | a writer or a trim under the mutex of the device |
| `cut`, `shown` | history: the dump of `scullmem` came to `limit` before its last device (`scull_main.c:91`, `93`); how many have been shown |

A read may end after any device (the page is full) and the next goes on from
`index`. The text is left out, and lseek on these files.

### Sleepy, Complete

| in the module | in the code |
|---|---|
| `Prepare`, `Test`, `Wake` | `wait_event_interruptible(wq, flag != 0)` taken apart |
| `Clear` | `flag = 0`, which nobody makes depend on how the wait ended |
| `Write`, `WakeUp` | `flag = 1`; `wake_up_interruptible` |
| `complete_read`, `complete_write` | `wait_for_completion`, `complete`: one step each under the lock of the completion; a reader that has been woken looks again |

### Jit (`jit.c`: jitimer, jitasklet, jitasklethi), JitDelay (jitbusy, jitsched, jitqueue, jitschedto)

| in the module | in the code |
|---|---|
| `mem[b]` | a `struct jit_data`: free, in use, or freed while its callback is still at work in it |
| `Show` | `kmalloc` up to `add_timer` / `tasklet_schedule` |
| `Prepare`, `Test`, `Wake`, `Finish` | `wait_event_interruptible(data->wait, !data->loops)`, then `-ERESTARTSYS` or `kfree` |
| `PrintLine`, `Count`, `WakeUp`, `Unlock` | `jit_timer_fn` / `jit_tasklet_fn`; `wake_up` touches the queue, which is in the block, until it has released its lock |
| `left` | history: blocks whose reader a signal took away |
| `jiffies`, `Tick`, `time_before` | the clock, modulo `Wrap`, and the test by sign |
| `Begin`, `Ready`, `End` | the four ways: two loops that look at the clock, two timeouts |

### Jiq (`jiq.c`)

| in the module | in the code |
|---|---|
| `m`, `wait_cond`, `jiq_wait` | `jiq_data.m`, the condition, the one wait queue |
| `Begin` | the stores of a `show` function to the shared `jiq_data`; `timer_setup` on a timer that may be armed |
| `PrintFirst`, `Prepare`, `Start`, `Wake`, `End` | the rest of it: the wq files queue themselves, start the work and call `schedule()` once; the others wait for `wait_cond`; the timer file ends with `del_timer_sync` |
| `Run`, `PrintLine` | `jiq_print` takes the seq_file from `jiq_data`, prints, and starts itself again unless the page is full |
| `past` | history: two readers have met, or a signal has come, since all was quiet |

### Scull03 (`scull_main_03.c`)

| in the module | in the code |
|---|---|
| `mutex` | `dev->mutex`, which open takes to trim |
| `locked` | the semaphores that `memset` alone has filled and whose inner lock a dead process holds |
| `LoadModule`, `Setup`, `Unload` | `scull_init_module`, `scull_setup_cdev` (a failure is only logged), `scull_cleanup_module` |
| `Open`, `OpenTrim`, `Unlock` | `scull_open`: up to the mutex, and the trim of an empty device with the unlock |
| `Down` | read and write as far as `down_interruptible`: the first caller dies, the next spins |
| `Close`, `Release` | the end of a file, by close or with its process |

No read or write returns from `down_interruptible`, so no device ever has memory.
What lies behind the semaphore (copies, `scull_follow`, what trim does with a list)
and the position of llseek are left out because no call gets there.

### GlobalMem, Silly, AsyncTest

| in the module | in the code |
|---|---|
| `Fetch`, `Copy`, `Store` | read and write: the kernel's load of `f_pos`, the copy, the store of `f_pos` |
| `SeekSet`, `SeekTest`, `SeekAdd` | `globalmem_llseek`; `SEEK_CUR` tests and adds in two steps, `SEEK_SET` cuts the offset to `unsigned int` |
| `Cut`, `Unsigned` | `unsigned long p`, `unsigned int count` |
| `isa_addr`, `Cut` (silly) | `ISA_BASE + *f_pos` as an `unsigned long`; the cut at `ISA_MAX`, of a `size_t` |
| `Unit`, `Accessed` | the mode downgraded by alignment; which bytes each mode touches |
| `Transfer` | the whole call. `"fault"` is the read that `copy_to_user` lets down: it has read the memory and adds `-EFAULT` to `*f_pos`, which the kernel stores or not |
| `Said` | what the caller has been told was transferred |
| `silly_pread`, `silly_pwrite` | the same at a position the caller names |
| `SetAsync` | `F_SETOWN` and FASYNC; an `Arrive` before it tells nobody |
| `Arrive`, `sighandler`, `Sleep`, `Test`, `Read`, `Reset` | the rest of `asynctest.c` statement by statement, the handler between any two; it ends a `sleep`, and a `read` that waits (`sa_flags` is 0) |
| `early`, `more`, `interrupted`, `missed` | history: the four reasons to sleep beside data |


## Runs

| run | shows | instance and bounds |
|---|---|---|
| `PipeSafety` | mutex, buffer, pointers, wake-ups: `TypeOK`, `LockBalanced`, `BufferWhileOpen`, `RingOK`, `NoLostReader`, `StrandedOnlyByOpen` | `a`, `b` read and write (interchangeable), `c` writes and asks for SIGIO; a buffer of 3 (two bytes fit), counts of 2: reads and writes that are cut at the end, at `rp`, and a pointer at the end before it wraps |
| `PipeFifo` | `ScullPipe` implements `PipeFifo` | two processes, one non-blocking, one signalled; two byte values, so that order and identity matter; counts 1 and 2 |
| `PipeLive` | `DataWakesReader`, `SignalEndsWrite` | a reader and a writer, two buffer sizes, no symmetry |
| `PipeStranded` | *violation*: `NoStrandedWriter` | see below |
| `PipeResize` | *violation*: `InsideAllocation` | buffer sizes 2 and 3 |
| `DevFile` | `ScullDriver` without a capable process implements `ScullFile`; `UnprivilegedHarmless` | one process that reads, writes and resets, one that writes, trims and resets; quanta of 2, arrays of 2, positions to 5: the second place of an array, the second list item, the middle of a quantum. `Quanta` and `Qsets` are 0 to 2, so that a change nobody should make would show |
| `DevSizes` | `LockBalanced`, `OnlyStaleWritesMix`, `OopsExplained` | quantum 0 or 2, qset 1 or 2, changed at any time; positions to 3 |
| `DevStale` | *violation*: `CurrentSizes` | quantum and qset 1 or 2 |
| `Access` | the exclusion of the four devices, no lost wake-up: `SingleExclusive`, `AvailableExact`, `SameUser`, `NoLostOpener`, `OneDevicePerTty`, `OpenersWake`; `ScullAccess` implements `AccessRules` | four processes: `a` (not blocking) and `b` (after su, write-only) of one user, `c` (signalled) of another, `d` root; `a` and `c` at one terminal, `b` at a second, `d` without; all four devices, both builds |
| `AccessTrim` | *violation*: `TrimExcludesIO` | the same |
| `Parts` | loading and unloading, and the eleven small parts: see the next table | one instance for all of them |
| `ModuleDump` | *violation*: `DumpsSeeDevices` | `ScullModule` alone, as in `Parts` |

The properties of `Parts`; a behaviour is of one part, and `PartsTypeOK` is the types of
that one:

| part | property | what it says |
|---|---|---|
| loading | `NothingLeft`, `InUseStays`, `StrayOnlyAccess`, `DumpsExplained` | a module that is not loaded holds nothing; no failure takes a device away from its users; cleanup asks what exists, but in `access.c`; readers of `/proc` find their array, but in scull's cleanup |
| ioctl | `OldValueKept` | an exchange hands back what it replaced, unless another store came between |
| /proc | `ScansOwnList`, `EachOnce` | the list scanned is the device's, unless loaded before the mutex; each device is shown once, in order, and none is left out when the file ends; the debug version shows one more, and `scullmem` may stop at its limit |
| sleepy | `FlagNoticed` | no reader sleeps beside a flag that has been announced |
| complete | `CompletionsCovered` | while a reader sleeps, each completion has a reader on its way |
| jit | `OutlivesExplained`, `CallsEnd` | what a callback uses is there, signals excepted; every call ends |
| jit, delays | `DelayHonoured` | no delay is too short, wherever `jiffies` wraps |
| jiq | `AloneUndisturbed` | readers that come one at a time are woken and, without signals, no callback prints to a file that is gone |
| author's scull | `OnlyTheDeadBlock` | who spins does so for the lock of a process that died on the same device; nothing else blocks, and no file outlives its device |
| globalmem | `CopiesInside`, `PositionExplained` | no byte outside is copied; the position leaves the file only by a race of two threads |
| silly | `TransfersExplained` | transfers stay in the window wherever a failed read has put the position; they move what they report, but for `iowrite8`, and report what they move, but for `-EFAULT` |
| asynctest | `DataNoticed` | it sleeps beside data for four reasons and no other |

Bounds are constants: `BufMax`, `Sizes`, `Counts`, `MaxPos`, `Seeks`, `Quanta`,
`Qsets`. `ScullAccess` and `ScullModule` need none: counters,
lists and sets are bounded by the processes and the devices. Each hazard takes at most three
processes: one to hold or sleep, one to make the change, one to come between
them. Sizes are the smallest at which every boundary is met off by one on both
sides. In `Parts`:

- loading: two devices of scull (one may be set up and the other not), a pipe and
  scullpriv; two processes; any number of loads and unloads;
- `Loops` 2: a callback that starts itself again and one that does not; two blocks
  for two readers, so that a block left by a signal lives on beside the next call;
- `Wrap` 8 and `Delay` 3: every `j1` before, at and after the wrap of the clock.
  `elapsed` stops at `Wrap`;
- `MaxProc` 2 of the files of jiq at once, chosen at each load (two readers are in
  at most two), one kind of work, one reader that gets signals;
- three processes for sleepy (a sleeper, a reader that takes the flag, a writer);
  four for complete, with `MaxDone` 4 completions nobody has read for: a sleeper, one
  woken, and readers that come in between;
- `N` 2 devices and two lists for the dumps: the last index, the one behind it, and a
  list that is freed and handed out to the other device; `MaxCount` bounds the
  endless counter of `seq.c`;
- globalmem: `Size` 2, `UInt` 4 (so that an offset of 5 and a count of 6 are cut) and
  `ULong` 1024 (no sum wraps, as none does in 64 bits); `MaxPos` stops a position that
  races push further and further;
- ioctl: the settings start at one model value and a reset installs another one, so
  that a reset shows;
- silly: a window of 8 from a `Base` of 16, two units of the largest mode; counts to 5,
  positions to one beyond the window, and down to -3 by an `Efault` of 3; `Largest` 16, so that a count that has wrapped is too much for
  `kmalloc`;
- asynctest: `Chunk` 2 and at most 5 bytes waiting: more than two reads' worth.

`CHECK_DEADLOCK FALSE` appears where the system may stop: readers sleep
for ever when nobody writes, an open may strand everyone (`PipeStranded`), an
oops keeps the mutex, and in `Parts` readers of `sleepy`, `complete`, `jiq` and the
author's scull may all sleep or spin for good. `Access` and `ModuleDump` are checked
for deadlock.

What the runs found in the code:

- **An open strands writers** (`pipe.c:83`). Open resets both pointers, which
  frees the whole buffer, and wakes nobody: a writer that sleeps on `outq` sleeps
  on until somebody reads. Readers find the buffer empty and sleep as well.
  `StrandedOnlyByOpen` says that this is the only way to lose a writer's wake-up.
- **A resize outgrows the buffer** (`pipe.c:81`). `buffersize` and `end` follow
  `scull_p_buffer` at every open, the allocation only at the first.
- **Sizes loaded too early** (`scull_main.c:307`, `351`). Read and write take
  `quantum` and `qset` before they wait for the mutex. When a write-only open
  trims meanwhile, the write allocates with sizes the device no longer has. A
  later read, write or trim goes by the new sizes and leaves the allocation.
- **Trim without the mutex** (`access.c:125`, `193`, `296`). The open of a device
  that others may have open frees its memory under their reads and writes. Only
  scullsingle is safe from it, by `SingleExclusive`.
- **The devices go before their files in /proc** (`scull_main.c:591`, debug
  builds). Somebody reading `/proc/scullmem` while the module is unloaded goes over
  an array that has been freed; `scull_p_cleanup` has the order right, as
  `DumpsExplained` says.
- `scull_access_cleanup` deletes devices that were never set up when loading
  failed early (`access.c:399`), against "required to never fail, even if nothing
  was initialized first"; the kernel warns and goes on. `StrayOnlyAccess` says that
  the other cleanups ask first.
- On a uniprocessor build two opens of scullpriv at one terminal may give it two
  devices (`access.c:259`); `OneDevicePerTty` says that nothing else does.
- An open of a free scullsingle can fail with `EBUSY`, when it meets an open
  that has failed and has not yet given back what it took. `AvailableExact` says
  that this passes.
- **ioctl.** "X: switch G and S atomically" (`scull.h:150-151`) does not hold:
  `OldValueKept` is what does. `SCULL_IOCRESET` asks for no privilege, though the comment
  at `scull_main_03.c:301` has only authorised users change the values.
- **`/proc/scullmem`** loads `d->data` before the mutex (`scull_main.c:95`): after a
  trim in between it scans a list that has been freed. It stops for good, before the last device, where its text
  passes `limit` (`scull_main.c:91`). The iterator of `scull_debug.c:84` hands out the
  device behind the last one.
- **sleepy.** That a write wakes all sleeping processes (the comment at
  `05_Concurrent/sleepy.c:2-3`) is true of the wake-up and not of the readers: the first one clears the flag and the others go
  back to sleep. A reader that a signal has woken clears a flag it has not seen.
- **jit.** A signal makes the call return with the timer armed: the block is never
  freed, and the callback goes on printing to a seq_file that is released, also after the
  module has been unloaded (`jit.c:212`). A reader that finds `loops` at zero frees the
  block before the callback has called `wake_up` on the queue inside it (`jit.c:166`);
  `OutlivesExplained` says that nothing but this wake-up is late.
- **jiq.** Two readers overwrite each other's `jiq_data`. A second reader of the timer
  file initialises a timer that is armed, and the `del_timer_sync` of either may leave the
  other asleep. `jitimer` is the name of a file of `jit.c` as well.
- **The author's scull.** No read or write gets past the semaphore: the first one of
  a device kills its process, the next one spins for ever and pins the module. The
  positions that are never computed and the trim that frees the wrong block are behind
  it and never reached. `OnlyTheDeadBlock` says that the damage goes no further.
- **globalmem.** `SEEK_CUR` by two threads of one file can put `f_pos` below zero or
  beyond the end; reads and writes then see a huge unsigned position and do nothing.
  `SEEK_SET` cuts its offset to 32 bits: a huge one is accepted as a small one.
- **silly.** `count < 0` (a `size_t`) is never true: beyond the window a read gets
  `-ENOMEM` and not end of file. Minors above 3 leak the buffer. In modes 1 and 2 a write
  puts out the low byte of each unit with `iowrite8` (lines 215, 224) against "minor 1 uses
  ioread16/iowrite16" (line 48), and reports all of them. The result of `ioremap` is not
  looked at. A read that `copy_to_user` lets down returns `-EFAULT`, but has read the I/O
  memory, and adds `-EFAULT` to the position, which may go below zero; whether it is
  stored depends on the kernel, which then refuses the file's reads and writes until it
  is opened again.
- **asynctest.** A signal is lost between the test of `gotdata` and `sleep`, and between
  the read and the reset; one that interrupts the read is forgotten by the reset, with
  the data still there; data that is there before FASYNC is set sends none. The source
  names the fifth way itself ("buggy: if avail data is more than 4kbytes"). `DataNoticed`
  counts the first two as one.

## Fairness

`PipeLive` and `Access` assume weak fairness of what each process does inside a
system call: the scheduler runs whoever can run. `PipeLive` adds strong fairness
of taking the mutex: kernel mutexes hand over to their waiters in order, so that
a waiter gets a mutex that is released again and again. `Parts` assumes weak fairness of
the readers of jit inside their calls and of its callbacks (`jit!Fairness`): timers
expire and tasklets are run. No fairness makes a process call anything, or a signal
arrive, or an open file be closed. Everything else is safety and assumes no fairness.

## Proofs

TLAPS checks the theorems for every set of processes, every buffer size,
settings, users and terminals that the named assumptions of the modules admit.

- **ScullPipe.** `IInv` is `TypeOK`, `LockBalanced`, `RingOK` and `OpeningOK`.
  `TypeOK` alone is not inductive: that a copy leaves `rp` inside the buffer
  needs `rp <= buffersize` before it, which holds because pointers move only
  under the mutex (`LockBalanced`) and because between an open's stores
  (`OpeningOK`) nobody else is past the mutex. `NoReaderWakeupLost` strengthens
  `NoLostReader` by what a queued process between its two loads has seen: the
  pointer it holds is current, or already shows data, or a wake-up is due.
  `OnlyOpenStrandsWriters` does the same for `spacefree`, for the sleepers no
  open has interfered with; there the wrap of a pointer between the loads counts.
- **The pipe as a queue.** `BufferOutlivesFiles`: the counters are cardinalities of
  the sets of open files (the processes are finitely many), and an open allocates
  exactly where there is no buffer (`AllocInv`). `ImplementsDeviceFifo` is the refinement
  `Spec => ImplementsFifo`: every step of `ScullPipe` is a step of `PipeFifo` or a
  stutter. It rests on three lemmas about a ring of any size: what a length modulo
  the size is (`RingLength`), taking from the front (`RingTaken`), adding where there is
  room (`RingAdded`). `AcceptedFits` connects the driver's `spacefree` with "where
  there is room". What the invariant needs besides `IInv` and `AllocInv` (`FifoInv`) is
  that a write which ends at the end of the buffer leaves the first cell free: `rp` and
  `wp` are then never both about to wrap, when full and empty would look alike. The
  cells are those the pointers name; that they all belong to the driver is
  `InsideAllocation`, which `PipeResize` refutes. `KeptSizeInside`: without an
  ioctl that changes the size it holds.
- **ScullDev.** `IInv` is `TypeOK`, `LockBalanced` and the emptiness of a device
  that is being trimmed. `WhereInside` (two divisions put a position inside an
  array and a quantum of the sizes divided by) and `AllocatedInside` (what a
  write allocates has the sizes it was called with) give `OopsExplained` and
  `OnlyStaleWritesMix`: with current sizes every access is inside.
- **The device as a file.** `FreshCallsImplementFile`:
  `Spec /\ []NobodyStale => ImplementsFile`. `NobodyStale` says that no read or write
  that has the mutex works with sizes other than the device's; without it the
  implication is false, as `DevStale` shows, and the settings may change otherwise.
  `Contents`, the mapping, is a function from positions to cells of a list of lists of
  lists. That a step changes just the cells it should is three lemmas: `WhereApart`
  (different positions have different cells), `WhereNext` (the next position in a
  quantum is the next cell), `StoredCell` (of the nested list only the cells of
  the copy change); `AllocatedCells` says of following and allocating that they
  only turn holes into junk. `FileInv` is what the states need: all memory has the
  device's sizes (`CurrentSizes`), a device with a size of zero has none, and only who
  opens write-only trims. Three corollaries: no oops where sizes are not zero
  (`FreshCallsNeverOops`), memory of the right sizes (`FreshCallsKeepSizes`), and
  `KeptSettings`, where the hypothesis is about the settings and no longer about
  the calls: if they keep their values nobody is ever stale, since every trim and
  every load finds the value of the start (`KeptInv`).
- **The device and its ioctl.** `DriverImplementsParts`: `ScullDriver` implements
  `ScullDev` and `ScullIoctl`, so that every theorem about either is true of the
  whole. What has to be shown is that a step of `scull_ioctl` stores to one setting at
  most (`IoctlStores`). `NobodyElseHarms` adds that somebody without privilege can only
  install defaults, and `UnprivilegedFile` follows by `KeptInv`. Both assume a module
  without parameters.
- **ScullAccess.** The counters are cardinalities: `CountOK` and `HolderOK` say of
  which sets. `TypeOK` (no count below zero) and `SingleExclusive` (the counter is
  1 only when its set is empty) follow; `OwnerOK` needs that no one is between
  the store of the owner and that of the count, which is `SpinOK`. `WakeOK`
  extends `NoLostOpener` to who has loaded a count that is out of date.
  `CodeFollowsRules` is the refinement of `AccessRules`: every step is one of the
  rules' or a stutter. It needs that a count or counter is zero or one exactly when
  nobody has a file (`NobodyCounted`), and that whoever has stored the owner on a free
  device is still the owner when the count goes up (`GrabOK`). `SingleTrimsAlone`:
  on scullsingle the trim without the mutex, which `AccessTrim` refutes for the others,
  meets nobody.
- **ScullModule.** `IInv` says at which stages which arrays exist and that what has
  been set up lies in them (`ArraysOK`), that pipes have numbers without an array
  only while they ask for one (`RegionsOK`), that files in `/proc` belong to arrays
  that exist (`ProcOK`), and that memory and open files hang on live devices
  (`UsersOK`). `NothingLeft` is not inductive without them: cleanup frees what it
  finds, so one must know that it finds everything.
- **SmallParts.** Each theorem is about `PartsSpec`; a step of another part leaves
  the variables of this one alone, so each invariant is about one part.
  `IoctlInv`: whoever is about to store still has the setting in `tmp`, unless
  overtaken. `JitInv`: a block is in use by exactly one call, its counter is what the
  stage of its callback says, and a sleeping reader's callback has not finished; the
  interesting half is that a block that has been freed has a callback past its
  count. `MemInv`: a thread between fetch and store has a count cut by its own
  position. `SillyInv`: what is accessed is what is left of the count when it is cut
  at the address, and units that divide both. `Scull03Inv`: files are open exactly on
  live devices, a semaphore is locked only on one of those, and the holder of a mutex is
  in the trim of that device. `SeqInv`: the index is what has been shown, in each of
  four ways to count and wherever a page ends, so that the end comes after the last. `SleepyInv` and `CompleteInv` are the two wake-up arguments, the second one
  counting readers. `AsyncTestInv` (data that is waiting is explained from the read to the
  sleep, not only in `sleep`), `JitDelayInv` (the distance between the clock and
  `j1`, modulo `Wrap`), `JiqInv`: who is alone owns `m`, what is pending is its own or a
  left-over, and a left-over is there only after a signal. `PartsTypes`: in every behaviour,
  which is of one part, the variables of that part have their types; those that are not inductive take a strengthening of their
  own, as `SeqBounds`: who counts in `/proc` is where the iterator has left it.

Two of the theorems are about types that no run checks by themselves, those of
`ScullDev` and `ScullAccess`; they are part of the invariants all the others use.

Model-checked only: liveness (`DataWakesReader`, `SignalEndsWrite`, `OpenersWake`,
`CallsEnd`) and anything with ENABLED, which TLAPS cannot prove. Every other
property of a passing run is a theorem, two of them with hypotheses: `ImplementsFile`
and `UnprivilegedHarmless`, as described above. None of the modules has a recursive
definition.

## Mutants

Each property of a passing run has been seen to fail on a mutated module: an
operator named `...Mutant` in the module replaces the one next to it. They are
plausible bugs: a count that is not cut, a mutex or an atomic counter that is
not given back, a wake-up that wakes one sleeper or none, a full buffer that
looks empty, an array of the wrong length, the rest of a division forgotten, an
owner stored at every open, a spinlock dropped over an allocation, numbers that
are not given back, a `file_operations` without an owner, a cleanup that does not
ask, an error path that does not return; in the small parts a test made before
queueing, a condition off by one, a completion that wakes nobody when one is left
over, a comparison of clocks that forgets the wrap, an iterator that ends one early,
a list scanned without its mutex, a signed position, a range tested on one side, a
unit that ignores alignment, a privilege nobody asks for, a flag that asks for two
signals, an exchange that answers with the default, a transfer that is not cut.

## Not modelled

- `05_Concurrent/scull_main_05.c`, `scull_pipe_05.c`, `access.c` and
  `06_Time/jit_main_06.c` do not compile (undeclared `dev_rp`, `wq`, `dowm`, ...); they
  are drafts of the reference files, which are the ones modelled. The copies of
  `sleepy.c` and `complete.c` there do not compile either.
- `hello`, `kdatasize`, `kdataalign`, `set_level`, `set_console`, `nbtest`,
  `polltest`, `load50`, `mapper`, `mapcmp`: straight-line programs without state; and
  `jit_currentime`, which prints four clocks.
- The bytes of globalmem and the ioctl that clears them; the bytes of silly.
- The layout of the `/proc` dumps, `printk`, `cdev` and `kobject` internals.
- Sizes below 1 in the pipe and negative sizes in scull: see the modules' sections.

## Plan

What is left, in the order of its worth:

1. The trim of `scull_u_open` and its like in `ScullDev`: `ScullAccess` says when it
   comes without the mutex, not what a read or write under way then finds. A
   composition of the two would say which of the refinement survives.
2. The size of the pipe's buffer set through `ScullDriver`'s ioctl, which serves all
   devices (`SCULL_P_IOCTSIZE`, `scull_main.c:512`), and whether the owners of a pipe can
   tell.
3. A promise for `Sleepy`, `Complete` and the three ways of `Jit` to wait, of which the
   wake-up arguments proved so far are the safety half.
4. The quanta a trim leaks when an array is longer than `dev->qset` says: they
   need a count of what has been allocated, which `ScullDev` does not keep.
