----------------------------- MODULE ScullPipe -----------------------------
(***************************************************************************)
(* The scullpipe device of pipe.c: one struct scull_pipe and the processes *)
(* that use it.  A process has at most one file on the device and is in at *)
(* most one system call, so f_mode and f_flags are attributes of processes.*)
(*                                                                         *)
(* A step is what the code does between two places where another process   *)
(* can see or change what it touches: operations on the mutex and on the   *)
(* wait queues, the two loads of a test made without the mutex, and, since *)
(* those tests look at rp and wp while somebody else holds the mutex, each *)
(* separate store to rp and wp.  Pointers are offsets from dev->buffer;    *)
(* dev->end is buffersize, with which it is always assigned.               *)
(***************************************************************************)
EXTENDS Integers, Sequences, FiniteSets

CONSTANTS
  Readers,      \* the processes that open with FMODE_READ
  Writers,      \* the processes that open with FMODE_WRITE
  NonBlock,     \* the processes that open with O_NONBLOCK
  Async,        \* the processes that set FASYNC now and then
  Signalled,    \* the processes others send signals to
  Values,       \* the byte values written
  Junk,         \* a byte nobody wrote: fresh memory, the rest of a failed copy
  BufMax,       \* the largest buffer size considered
  Sizes,        \* the values scull_p_buffer may be given
  InitSize,     \* its value when the module is loaded
  Counts,       \* the counts passed to read and write
  NoProc        \* the owner of a mutex that is free

Procs == Readers \cup Writers

ASSUME ProcsAssumption ==
  IsFiniteSet(Procs) /\ NoProc \notin Procs /\ UNION {NonBlock, Async, Signalled} \subseteq Procs
ASSUME BytesAssumption == Junk \notin Values
ASSUME SizesAssumption ==
  BufMax \in Nat /\ Sizes \subseteq 1 .. BufMax /\ InitSize \in Sizes
ASSUME CountsAssumption == Counts \subseteq Nat

VARIABLES
  mutex,        \* the process that holds dev->mutex, or NoProc
  buffer,       \* the bytes from dev->buffer on
  alloc,        \* how many of them kmalloc gave; 0 when dev->buffer is NULL
  buffersize, rp, wp, nreaders, nwriters,
  inq, outq,    \* the wait queues: who is on them has not been woken yet
  reset,        \* history: the members of outq for whom an open has moved the
                \* pointers since they queued (nothing in the code reads it)
  async_queue,  \* the processes that asked for SIGIO
  scull_p_buffer,
  pc,           \* where each process is
  seen,         \* seen[p]: dev->rp as an unlocked test of p has loaded it
  sig,          \* the processes with a signal pending
  ubuf          \* ubuf[p]: the bytes the read in progress has copied to p

mem    == <<buffer, alloc, buffersize>>
ptrs   == <<rp, wp>>
opens  == <<nreaders, nwriters>>
waits  == <<inq, outq, reset>>
params == <<async_queue, scull_p_buffer>>
calls  == <<pc, sig, ubuf>>
vars   == <<mutex, mem, ptrs, opens, waits, params, seen, calls>>

Outside == {"closed", "idle"}                    \* in user space
Locked  == {"o_alloc", "o_set", "o_rp", "c_cs", "r_cs", "r_wrap", "w_cs",
            "w_wrap", "p_cs"}                    \* with the mutex held
Pcs == Outside \cup Locked \cup
       {"o_lock", "c_lock", "p_lock", "p_sleep",
        "r_lock", "r_prep", "r_test", "r_test2", "r_sleep", "r_wake",
        "w_lock", "w_prep", "w_test", "w_test2", "w_sleep", "w_fin",
        "w_wake", "w_async"}

Init ==
  /\ mutex = NoProc
  /\ buffer = [i \in 0 .. BufMax - 1 |-> Junk] /\ alloc = 0 /\ buffersize = 0
  /\ rp = 0 /\ wp = 0 /\ nreaders = 0 /\ nwriters = 0
  /\ inq = {} /\ outq = {} /\ reset = {}
  /\ async_queue = {} /\ scull_p_buffer = InitSize
  /\ pc = [p \in Procs |-> "closed"] /\ seen = [p \in Procs |-> 0]
  /\ sig = {} /\ ubuf = [p \in Procs |-> <<>>]

-----------------------------------------------------------------------------
(* Operators named ...Mutant are the bugs the README tells of: no action uses *)
(* them, a mutated copy of the module puts each in its original's place.      *)

UncappedMutant(a, b) == a
Min2(a, b) == IF a <= b THEN a ELSE b

Goto(p, from, to) == pc[p] = from /\ pc' = [pc EXCEPT ![p] = to]
Step(p, from, to) == Goto(p, from, to) /\ UNCHANGED <<sig, ubuf>>

\* Back to user space: pending signals are delivered, what was read is the
\* program's own from here on.
Return(p, from, to) ==
  Goto(p, from, to) /\ sig' = sig \ {p} /\ ubuf' = [ubuf EXCEPT ![p] = <<>>]

ForgottenMutant == UNCHANGED mutex
Unlock == mutex' = NoProc

NeverMutant(p) == FALSE
signal_pending(p) == p \in sig

\* wake_up_interruptible: every sleeper of this driver is woken, none of them
\* being exclusive.
WakeOneMutant(q) == IF q = {} THEN {} ELSE q \ {CHOOSE p \in q : TRUE}
ForgottenWakeMutant(q) == q
wake_up(q) == {}

ReadersOnlyMutant == nreaders' = 0
LastClose == nreaders' + nwriters' = 0

\* spacefree(dev) where dev->rp was loaded as r.  It is -1 at a moment when
\* one pointer is at the end, about to wrap onto the other.
FullMutant(r) ==
  IF r = wp THEN buffersize ELSE (r + buffersize - wp) % buffersize
SpaceFrom(r) ==
  IF r = wp THEN buffersize - 1 ELSE ((r + buffersize - wp) % buffersize) - 1
SpaceFree == SpaceFrom(rp)

Stored(at, b) ==
  [i \in DOMAIN buffer |->
     IF i \in at .. (at + Len(b) - 1) THEN b[i - at + 1] ELSE buffer[i]]

-----------------------------------------------------------------------------
(* Where calls begin, and the mutex. *)

Call(p) ==
  /\ \/ Step(p, "closed", "o_lock")
     \/ p \in Readers /\ Step(p, "idle", "r_lock")
     \/ p \in Writers /\ Step(p, "idle", "w_lock")
     \/ Step(p, "idle", "p_lock")
  /\ UNCHANGED <<mutex, mem, ptrs, opens, waits, params, seen>>

MutexLock(p) ==
  /\ mutex = NoProc /\ mutex' = p
  /\ \/ Step(p, "o_lock", IF alloc = 0 THEN "o_alloc" ELSE "o_set")
     \/ Step(p, "c_lock", "c_cs")
     \/ Step(p, "r_lock", "r_cs")
     \/ Step(p, "w_lock", "w_cs")
     \/ Step(p, "p_lock", "p_cs")
  /\ UNCHANGED <<mem, ptrs, opens, waits, params, seen>>

\* mutex_lock_interruptible gives up (-ERESTARTSYS) only when it has to wait;
\* release and poll use mutex_lock, which does not give up.
LockInterrupted(p) ==
  /\ mutex # NoProc /\ signal_pending(p)
  /\ \/ Return(p, "o_lock", "closed")
     \/ Return(p, "r_lock", "idle")
     \/ Return(p, "w_lock", "idle")
  /\ UNCHANGED <<mutex, mem, ptrs, opens, waits, params, seen>>

-----------------------------------------------------------------------------
(* scull_p_open and scull_p_release *)

OpenAlloc(p) ==
  \/ /\ Step(p, "o_alloc", "o_set")
     /\ alloc' = scull_p_buffer /\ buffer' = [i \in DOMAIN buffer |-> Junk]
     /\ UNCHANGED <<mutex, buffersize, ptrs, opens, waits, params, seen>>
  \/ /\ Return(p, "o_alloc", "closed") /\ Unlock               \* -ENOMEM
     /\ UNCHANGED <<mem, ptrs, opens, waits, params, seen>>

\* rp = wp = buffer stores wp first, then rp.
OpenSet(p) ==
  /\ Step(p, "o_set", "o_rp")
  /\ buffersize' = scull_p_buffer /\ wp' = 0
  /\ reset' = outq
  /\ UNCHANGED <<mutex, buffer, alloc, rp, opens, inq, outq, params, seen>>

OpenReset(p) ==
  /\ Return(p, "o_rp", "idle") /\ Unlock
  /\ rp' = 0
  /\ nreaders' = IF p \in Readers THEN nreaders + 1 ELSE nreaders
  /\ nwriters' = IF p \in Writers THEN nwriters + 1 ELSE nwriters
  /\ reset' = outq
  /\ UNCHANGED <<mem, wp, inq, outq, params, seen>>

Close(p) ==
  /\ Step(p, "idle", "c_lock")
  /\ async_queue' = async_queue \ {p}
  /\ UNCHANGED <<mutex, mem, ptrs, opens, waits, scull_p_buffer, seen>>

CloseFree(p) ==
  /\ Return(p, "c_cs", "closed") /\ Unlock
  /\ nreaders' = IF p \in Readers THEN nreaders - 1 ELSE nreaders
  /\ nwriters' = IF p \in Writers THEN nwriters - 1 ELSE nwriters
  /\ alloc' = IF LastClose THEN 0 ELSE alloc
  /\ UNCHANGED <<buffer, buffersize, ptrs, waits, params, seen>>

-----------------------------------------------------------------------------
(* scull_p_read; the wait is wait_event_interruptible(inq, rp != wp) *)

ReadEmpty(p) ==
  /\ rp = wp
  /\ IF p \in NonBlock THEN Return(p, "r_cs", "idle")           \* -EAGAIN
                       ELSE Step(p, "r_cs", "r_prep")
  /\ Unlock
  /\ UNCHANGED <<mem, ptrs, opens, waits, params, seen>>

ReadPrepare(p) ==
  /\ Step(p, "r_prep", "r_test")
  /\ inq' = inq \cup {p}
  /\ UNCHANGED <<mutex, mem, ptrs, opens, outq, reset, params, seen>>

ReadTest(p) ==
  /\ IF seen[p] # wp
       THEN Step(p, "r_test2", "r_lock") /\ inq' = inq \ {p}
       ELSE IF signal_pending(p)
              THEN Return(p, "r_test2", "idle") /\ inq' = inq \ {p}
              ELSE Step(p, "r_test2", "r_sleep") /\ inq' = inq
  /\ seen' = [seen EXCEPT ![p] = 0]
  /\ UNCHANGED <<mutex, mem, ptrs, opens, outq, reset, params>>

\* What one read returns ends at wp, or at the end of the buffer.
ReadCopy(p) ==
  /\ rp # wp /\ Goto(p, "r_cs", "r_wrap")
  /\ \E n \in Counts :
       LET count == Min2(n, IF wp > rp THEN wp - rp ELSE buffersize - rp) IN
         /\ ubuf' = [ubuf EXCEPT ![p] = [i \in 1 .. count |-> buffer[rp + i - 1]]]
         /\ rp' = rp + count
  /\ UNCHANGED <<mutex, mem, wp, opens, waits, params, seen, sig>>

ReadFault(p) ==
  /\ rp # wp /\ Return(p, "r_cs", "idle") /\ Unlock             \* -EFAULT
  /\ UNCHANGED <<mem, ptrs, opens, waits, params, seen>>

ReadWrap(p) ==
  /\ Step(p, "r_wrap", "r_wake") /\ Unlock
  /\ rp' = IF rp = buffersize THEN 0 ELSE rp
  /\ UNCHANGED <<mem, wp, opens, waits, params, seen>>

ReadWake(p) ==
  /\ Return(p, "r_wake", "idle")
  /\ outq' = wake_up(outq) /\ reset' = reset \cap outq'
  /\ UNCHANGED <<mutex, mem, ptrs, opens, inq, params, seen>>

-----------------------------------------------------------------------------
(* scull_p_write and scull_getwritespace *)

WriteFull(p) ==
  /\ SpaceFree = 0
  /\ IF p \in NonBlock THEN Return(p, "w_cs", "idle")           \* -EAGAIN
                       ELSE Step(p, "w_cs", "w_prep")
  /\ Unlock
  /\ UNCHANGED <<mem, ptrs, opens, waits, params, seen>>

WritePrepare(p) ==
  /\ Step(p, "w_prep", "w_test")
  /\ outq' = outq \cup {p} /\ reset' = reset \ {p}
  /\ UNCHANGED <<mutex, mem, ptrs, opens, inq, params, seen>>

WriteTest(p) ==
  /\ Step(p, "w_test2", IF SpaceFrom(seen[p]) = 0 THEN "w_sleep" ELSE "w_fin")
  /\ seen' = [seen EXCEPT ![p] = 0]
  /\ UNCHANGED <<mutex, mem, ptrs, opens, waits, params>>

WriteFinishWait(p) ==
  /\ IF signal_pending(p) THEN Return(p, "w_fin", "idle")               \* -ERESTARTSYS
                          ELSE Step(p, "w_fin", "w_lock")
  /\ outq' = outq \ {p} /\ reset' = reset \ {p}
  /\ UNCHANGED <<mutex, mem, ptrs, opens, inq, params, seen>>

\* How much of a write of n bytes is accepted: what is free, up to the end of
\* the buffer or to the byte before rp.
Accepted(n) ==
  Min2(Min2(n, SpaceFree), IF wp >= rp THEN buffersize - wp ELSE rp - wp - 1)

WriteCopy(p) ==
  /\ SpaceFree # 0 /\ Step(p, "w_cs", "w_wrap")
  /\ \E n \in Counts : \E bytes \in [1 .. Accepted(n) -> Values] :
       buffer' = Stored(wp, bytes) /\ wp' = wp + Accepted(n)
  /\ UNCHANGED <<mutex, alloc, buffersize, rp, opens, waits, params, seen>>

\* A copy_from_user that fails has overwritten the free space it was given.
WriteFault(p) ==
  /\ SpaceFree # 0 /\ Return(p, "w_cs", "idle") /\ Unlock       \* -EFAULT
  /\ \E n \in Counts : buffer' = Stored(wp, [i \in 1 .. Accepted(n) |-> Junk])
  /\ UNCHANGED <<alloc, buffersize, ptrs, opens, waits, params, seen>>

WriteWrap(p) ==
  /\ Step(p, "w_wrap", "w_wake") /\ Unlock
  /\ wp' = IF wp = buffersize THEN 0 ELSE wp
  /\ UNCHANGED <<mem, rp, opens, waits, params, seen>>

WriteWake(p) ==
  /\ Step(p, "w_wake", "w_async")
  /\ inq' = wake_up(inq)
  /\ UNCHANGED <<mutex, mem, ptrs, opens, outq, reset, params, seen>>

\* SIGIO to everyone registered; a process in user space takes it at once.
WriteAsync(p) ==
  /\ Goto(p, "w_async", "idle")
  /\ sig' = (sig \cup {q \in async_queue : pc[q] \notin Outside}) \ {p}
  /\ ubuf' = [ubuf EXCEPT ![p] = <<>>]
  /\ UNCHANGED <<mutex, mem, ptrs, opens, waits, params, seen>>

-----------------------------------------------------------------------------
(* What reads and writes share: the first load of an unlocked test, and the *)
(* end of schedule().                                                       *)

TestLoad(p) ==
  /\ Step(p, "r_test", "r_test2") \/ Step(p, "w_test", "w_test2")
  /\ seen' = [seen EXCEPT ![p] = rp]
  /\ UNCHANGED <<mutex, mem, ptrs, opens, waits, params>>

Woken(p) ==
  /\ \/ (p \notin inq \/ signal_pending(p)) /\ Step(p, "r_sleep", "r_prep")
     \/ (p \notin outq \/ signal_pending(p)) /\ Step(p, "w_sleep", "w_fin")
  /\ UNCHANGED <<mutex, mem, ptrs, opens, waits, params, seen>>

-----------------------------------------------------------------------------
(* scull_p_poll, as poll(2) calls it: readers wait for POLLIN, the others    *)
(* for POLLOUT; the two poll_wait calls put the process on both queues.      *)

PollScan(p) ==
  /\ Unlock
  /\ IF IF p \in Readers THEN rp # wp ELSE SpaceFree # 0
       THEN Return(p, "p_cs", "idle") /\ inq' = inq \ {p} /\ outq' = outq \ {p}
       ELSE /\ Step(p, "p_cs", "p_sleep")
            /\ inq' = inq \cup {p} /\ outq' = outq \cup {p}
  /\ reset' = reset \ {p}
  /\ UNCHANGED <<mem, ptrs, opens, params, seen>>

PollWoken(p) ==
  /\ IF signal_pending(p)
       THEN /\ Return(p, "p_sleep", "idle")                     \* -EINTR
            /\ inq' = inq \ {p} /\ outq' = outq \ {p} /\ reset' = reset \ {p}
       ELSE /\ p \notin inq \/ p \notin outq
            /\ Step(p, "p_sleep", "p_lock")
            /\ UNCHANGED waits
  /\ UNCHANGED <<mutex, mem, ptrs, opens, params, seen>>

-----------------------------------------------------------------------------
(* The calls that take no mutex, and signals from elsewhere. *)

\* scull_p_fasync: fasync_helper adds the file to the list or removes it.
Fasync(p) ==
  /\ p \in Async
  /\ pc[p] = "idle"
  /\ async_queue' \in {async_queue \cup {p}, async_queue \ {p}}
  /\ UNCHANGED <<mutex, mem, ptrs, opens, waits, scull_p_buffer, seen, calls>>

\* scull_ioctl, SCULL_P_IOCTSIZE
IoctlSize(p) ==
  /\ pc[p] = "idle"
  /\ scull_p_buffer' \in Sizes
  /\ UNCHANGED <<mutex, mem, ptrs, opens, waits, async_queue, seen, calls>>

\* A signal for a process inside a system call.
Signal(p) ==
  /\ p \in Signalled
  /\ pc[p] \notin Outside
  /\ sig' = sig \cup {p}
  /\ UNCHANGED <<mutex, mem, ptrs, opens, waits, params, seen, pc, ubuf>>

-----------------------------------------------------------------------------
\* What a process does once it has entered a system call.
Kernel(p) ==
  \/ MutexLock(p) \/ LockInterrupted(p) \/ TestLoad(p) \/ Woken(p)
  \/ OpenAlloc(p) \/ OpenSet(p) \/ OpenReset(p) \/ CloseFree(p)
  \/ ReadEmpty(p) \/ ReadPrepare(p) \/ ReadTest(p)
  \/ ReadCopy(p) \/ ReadFault(p) \/ ReadWrap(p) \/ ReadWake(p)
  \/ WriteFull(p) \/ WritePrepare(p) \/ WriteTest(p) \/ WriteFinishWait(p)
  \/ WriteCopy(p) \/ WriteFault(p) \/ WriteWrap(p) \/ WriteWake(p)
  \/ WriteAsync(p) \/ PollScan(p) \/ PollWoken(p)

Next == \E p \in Procs :
  Kernel(p) \/ Call(p) \/ Close(p) \/ Fasync(p) \/ IoctlSize(p) \/ Signal(p)

Spec == Init /\ [][Next]_vars

\* The scheduler runs every process that can run, and a mutex that is released
\* again and again is not refused to a waiter for ever.  Nobody has to make a
\* call, and no signal has to arrive.
Fairness == \A p \in Procs : WF_vars(Kernel(p)) /\ SF_vars(MutexLock(p))
FairSpec == Spec /\ Fairness

-----------------------------------------------------------------------------
TypeOK ==
  /\ mutex \in Procs \cup {NoProc}
  /\ buffer \in [0 .. BufMax - 1 -> Values \cup {Junk}]
  /\ alloc \in 0 .. BufMax /\ buffersize \in 0 .. BufMax
  /\ rp \in 0 .. BufMax /\ wp \in 0 .. BufMax
  /\ nreaders \in Int /\ nwriters \in Int
  /\ inq \subseteq Procs /\ outq \subseteq Procs /\ reset \subseteq outq
  /\ async_queue \subseteq Procs /\ scull_p_buffer \in Sizes
  /\ pc \in [Procs -> Pcs] /\ seen \in [Procs -> 0 .. BufMax]
  /\ sig \subseteq Procs /\ ubuf \in [Procs -> Seq(Values \cup {Junk})]

\* The mutex is held exactly on the paths that are meant to hold it: every
\* return of every call, the error returns of scull_getwritespace included,
\* has released it, and nobody reaches the buffer without it.
LockBalanced == \A p \in Procs : pc[p] \in Locked <=> mutex = p

\* The file is open: open has counted it, release has not yet.
Unopened == {"closed", "o_lock", "o_alloc", "o_set", "o_rp"}
IsOpen(p) == pc[p] \notin Unopened
SomeOpen == \E p \in Procs : IsOpen(p)

\* The counters are the numbers of open files, so that the buffer exists as
\* long as anyone can reach it and is freed by the last release: while a file
\* is open there is a buffer, and when the mutex is free there is none without.
BufferWhileOpen ==
  /\ nreaders = Cardinality({p \in Readers : IsOpen(p)})
  /\ nwriters = Cardinality({p \in Writers : IsOpen(p)})
  /\ SomeOpen => alloc > 0
  /\ mutex = NoProc /\ alloc > 0 => SomeOpen

\* Some process has reached one of the places S.
At(S) == \E p \in Procs : pc[p] \in S

\* While anyone has the device open, both pointers are in the buffer; one of
\* them is at its end only between the store that moved it there and the next.
RingOK ==
  SomeOpen /\ ~At({"o_rp"}) =>
    /\ buffersize > 0 /\ rp <= buffersize /\ wp <= buffersize
    /\ rp = buffersize => At({"r_wrap"})
    /\ wp = buffersize => At({"w_wrap"})

\* No lost wake-up for readers: a process asleep in read or poll while there
\* is something to read has been woken, or a writer (or an open about to empty
\* the buffer) is still on its way to the wake-up.  The tests of
\* wait_event_interruptible are made without the mutex.
AsleepForData(p) == pc[p] = "r_sleep" \/ (pc[p] = "p_sleep" /\ p \in Readers)
NoLostReader ==
  \A p \in inq : AsleepForData(p) => rp = wp \/ At({"w_wrap", "w_wake", "o_rp"})

AsleepForSpace(p) == pc[p] = "w_sleep" \/ (pc[p] = "p_sleep" /\ p \notin Readers)
Stranded(p) ==
  /\ p \in outq /\ AsleepForSpace(p) /\ SpaceFree > 0
  /\ ~At({"r_wrap", "r_wake", "o_rp"})

\* Writers that sleep while there is space are the ones an open stranded.
StrandedOnlyByOpen == \A p \in Procs : Stranded(p) => p \in reset

\* The promise of scull_getwritespace ("Wait for space for writing") and of
\* the end of scull_p_read ("finally, awake any writers"): a writer sleeps
\* only while there is no space, or until the reader that made some wakes it.
NoStrandedWriter == \A p \in Procs : ~Stranded(p)

\* dev->end is the end of dev->buffer (struct scull_pipe: "begin of buf, end
\* of buf"): the pointers never leave the memory that kmalloc gave.
InsideAllocation == SomeOpen => buffersize <= alloc

\* A process asleep in read does not stay so while there is something to read.
DataWakesReader ==
  \A p \in Readers :
    (pc[p] = "r_sleep" /\ rp # wp) ~> (pc[p] # "r_sleep" \/ rp = wp)

\* A blocking write that a signal has reached returns, whatever the readers
\* and the other writers do: no loop in scull_getwritespace goes past it.
Writing(p) == pc[p] \in {"w_lock", "w_cs", "w_prep", "w_test", "w_test2",
                         "w_sleep", "w_fin", "w_wrap", "w_wake", "w_async"}
SignalEndsWrite ==
  \A p \in Writers : (Writing(p) /\ p \in sig) ~> ~Writing(p)

-----------------------------------------------------------------------------
(* The bytes between rp and wp, and what PipeFifo sees of a state: an open    *)
(* counts, and empties the queue, once it has reached its last store.         *)

Unread == (wp + buffersize - rp) % buffersize
Contents ==
  IF ~SomeOpen \/ At({"o_rp"}) THEN <<>>
  ELSE [i \in 1 .. Unread |-> buffer[(rp + i - 1) % buffersize]]

Fifo == INSTANCE PipeFifo WITH
          Capacity <- BufMax - 1,
          users    <- {p \in Procs : IsOpen(p) \/ pc[p] = "o_rp"},
          queue    <- Contents,
          taken    <- ubuf

\* The device is a queue: the bytes written are read once and in order, none
\* is invented, lost or changed, calls that fail move none, and only an open
\* or the last close drops what is left.
ImplementsFifo == Fifo!Spec
=============================================================================
