----------------------------- MODULE ScullDev -----------------------------
(***************************************************************************)
(* The bare scull device of scull_main.c: one struct scull_dev, the        *)
(* settings all devices share, and the processes that use them.  A process *)
(* has at most one file on the device and is in at most one system call.   *)
(*                                                                         *)
(* The device is a list of quantum sets: data[i][s] is the quantum at      *)
(* place s of the i-th array, the empty sequence standing for NULL, for an *)
(* array as for a quantum.  Arrays and quanta have the lengths kmalloc was *)
(* asked for.  What the mutex protects is one step; the loads and stores   *)
(* of quantum, qset and size that others see without it are steps too.     *)
(***************************************************************************)
EXTENDS Integers, Sequences, FiniteSets

CONSTANTS
  Procs,        \* the processes
  WriteOnly,    \* those that open O_WRONLY; the others open O_RDWR
  Values,       \* the byte values written
  Junk,         \* a byte nobody wrote: fresh memory, the rest of a failed copy
  Hole,         \* reads as nothing
  Quanta,       \* the values scull_quantum is given; 0 if a Set may fault
  Qsets,        \* the values scull_qset is given
  InitQuantum, InitQset,  \* the module parameters, SCULL_QUANTUM and SCULL_QSET without
  Counts,       \* the counts passed to read and write
  MaxPos,       \* no file position goes beyond this
  Seeks,        \* the positions llseek goes to
  NoProc        \* the owner of a mutex that is free

ASSUME ProcsAssumption == NoProc \notin Procs /\ WriteOnly \subseteq Procs
ASSUME BytesAssumption == Junk \notin Values /\ Hole \notin Values \cup {Junk}
ASSUME SettingsAssumption ==
  /\ Quanta \subseteq Nat /\ InitQuantum \in Quanta \ {0}
  /\ Qsets \subseteq Nat /\ InitQset \in Qsets \ {0}
ASSUME CountsAssumption == 
  Counts \subseteq Nat \ {0} /\ MaxPos \in Nat /\ Seeks \subseteq 0 .. MaxPos

VARIABLES
  mutex,        \* the process that holds dev->mutex, or NoProc
  data, quantum, qset, size,           \* the other fields of struct scull_dev
  scull_quantum, scull_qset,
  f_pos,        \* f_pos[p]: the position of p's file
  pc,           \* where each process is
  args,         \* args[p]: quantum and qset as the read or write in progress
                \* has loaded them
  ubuf          \* ubuf[p]: what the read in progress has copied to p

dev      == <<data, quantum, qset, size>>
settings == <<scull_quantum, scull_qset>>
file     == <<f_pos, args, ubuf>>
vars     == <<mutex, dev, settings, file, pc>>

Outside == {"closed", "idle"}
Locked  == {"trim", "trim_q", "trim_s", "read", "write", "out", "oops"}
InCall  == {"r_qset", "r_lock", "w_qset", "w_lock", "read", "write"}
Pcs     == Outside \cup Locked \cup InCall \cup {"t_lock"}

NoArgs == [quantum |-> 0, qset |-> 0]        \* outside a read or write

Init ==
  /\ mutex = NoProc
  /\ data = <<>> /\ size = 0
  /\ scull_quantum = InitQuantum /\ scull_qset = InitQset
  /\ quantum = scull_quantum /\ qset = scull_qset
  /\ f_pos = [p \in Procs |-> 0] /\ pc = [p \in Procs |-> "closed"]
  /\ args = [p \in Procs |-> NoArgs]
  /\ ubuf = [p \in Procs |-> <<>>]

-----------------------------------------------------------------------------
(* Operators named ...Mutant are the bugs the README tells of: no action uses *)
(* them, a mutated copy of the module puts each in its original's place.      *)

Min2(a, b) == IF a <= b THEN a ELSE b

Step(p, from, to) == pc[p] = from /\ pc' = [pc EXCEPT ![p] = to]
ForgottenMutant == UNCHANGED mutex
Unlock == mutex' = NoProc

\* Item, place in its array and place in the quantum of a file position, as
\* scull_read and scull_write compute them; items and places count from 1.
\* With a size of zero the division traps.
NoRestMutant(k, q, s) ==
  [item |-> k \div (q * s) + 1, s |-> k \div q + 1, q |-> k % q]
Where(k, q, s) ==
  LET itemsize == q * s
      rest     == k % itemsize
  IN  [item |-> k \div itemsize + 1, s |-> rest \div q + 1, q |-> rest % q]

itemsize(p) == args[p].quantum * args[p].qset
At(p) == Where(f_pos[p], args[p].quantum, args[p].qset)

\* How much of a count stays inside the quantum.
InQuantum(p, n) == Min2(n, args[p].quantum - At(p).q)

\* scull_follow: the list with empty items appended until it has n.
Followed(n) ==
  [i \in 1 .. IF n > Len(data) THEN n ELSE Len(data) |->
     IF i <= Len(data) THEN data[i] ELSE <<>>]

\* The rest of what scull_write allocates: the array, then the quantum.
ShortMutant(list, at, s) ==
  IF list[at.item] # <<>> THEN list
  ELSE [list EXCEPT ![at.item] = [i \in 1 .. at.s |-> <<>>]]
WithArray(list, at, s) ==
  IF list[at.item] # <<>> THEN list
  ELSE [list EXCEPT ![at.item] = [i \in 1 .. s |-> <<>>]]
WithQuantum(list, at, q) ==
  IF at.s \notin DOMAIN list[at.item] \/ list[at.item][at.s] # <<>> THEN list
  ELSE [list EXCEPT ![at.item][at.s] = [i \in 1 .. q |-> Junk]]
Allocated(p) ==
  WithQuantum(WithArray(Followed(At(p).item), At(p), args[p].qset),
              At(p), args[p].quantum)

\* n bytes at that place lie in memory that was allocated for them.
Inside(list, at, n) ==
  at.s <= Len(list[at.item]) /\ at.q + n <= Len(list[at.item][at.s])

Stored(list, at, bytes) ==
  [list EXCEPT ![at.item][at.s] =
     [i \in DOMAIN @ |->
        IF i \in at.q + 1 .. at.q + Len(bytes) THEN bytes[i - at.q] ELSE @[i]]]

-----------------------------------------------------------------------------
(* scull_open, scull_release and scull_trim *)

Open(p) ==
  /\ Step(p, "closed", IF p \in WriteOnly THEN "t_lock" ELSE "idle")
  /\ UNCHANGED <<mutex, dev, settings, file>>

\* The next struct file starts at position 0.
Close(p) ==
  /\ Step(p, "idle", "closed")
  /\ f_pos' = [f_pos EXCEPT ![p] = 0]
  /\ UNCHANGED <<mutex, dev, settings, args, ubuf>>

MutexLock(p) ==
  /\ mutex = NoProc /\ mutex' = p
  /\ \/ Step(p, "t_lock", "trim")
     \/ Step(p, "r_lock", "read")
     \/ Step(p, "w_lock", "write")
  /\ UNCHANGED <<dev, settings, file>>

\* mutex_lock_interruptible gives up on a signal, when it has to wait.
LockInterrupted(p) ==
  /\ mutex # NoProc
  /\ \/ Step(p, "t_lock", "closed")
     \/ Step(p, "r_lock", "idle")
     \/ Step(p, "w_lock", "idle")
  /\ args' = [args EXCEPT ![p] = NoArgs]
  /\ UNCHANGED <<mutex, dev, settings, f_pos, ubuf>>

\* The loop of scull_trim goes over dev->qset places of every array.
Trim(p) ==
  /\ \A i \in DOMAIN data : data[i] = <<>> \/ qset <= Len(data[i])
  /\ Step(p, "trim", "trim_q")
  /\ data' = <<>> /\ size' = 0
  /\ UNCHANGED <<mutex, quantum, qset, settings, file>>

TrimQuantum(p) ==
  /\ Step(p, "trim_q", "trim_s")
  /\ quantum' = scull_quantum
  /\ UNCHANGED <<mutex, data, qset, size, settings, file>>

TrimQset(p) ==
  /\ Step(p, "trim_s", "idle") /\ Unlock
  /\ qset' = scull_qset
  /\ UNCHANGED <<data, quantum, size, settings, file>>

-----------------------------------------------------------------------------
(* scull_read and scull_write: the sizes are loaded before the mutex is taken *)

LoadQuantum(p) ==
  /\ Step(p, "idle", "w_qset") \/ (p \notin WriteOnly /\ Step(p, "idle", "r_qset"))
  /\ args' = [args EXCEPT ![p].quantum = quantum]
  /\ UNCHANGED <<mutex, dev, settings, f_pos, ubuf>>

LoadQset(p) ==
  /\ Step(p, "r_qset", "r_lock") \/ Step(p, "w_qset", "w_lock")
  /\ args' = [args EXCEPT ![p].qset = qset]
  /\ UNCHANGED <<mutex, dev, settings, f_pos, ubuf>>

\* Nothing there: the end of the file, a list item that cannot be allocated, a
\* hole.  Going there has appended list items all the same.
ReadNothing(p) ==
  /\ Step(p, "read", "out")
  /\ \/ f_pos[p] >= size /\ UNCHANGED data
     \/ /\ f_pos[p] < size /\ itemsize(p) # 0
        /\ \/ \E n \in Len(data) .. At(p).item - 1 : data' = Followed(n)
           \/ /\ data' = Followed(At(p).item)
              /\ \/ data'[At(p).item] = <<>>
                 \/ /\ At(p).s <= Len(data'[At(p).item])
                    /\ data'[At(p).item][At(p).s] = <<>>
  /\ ubuf' = [ubuf EXCEPT ![p] = <<Hole>>]
  /\ UNCHANGED <<mutex, quantum, qset, size, settings, f_pos, args>>

\* What one read of n bytes returns ends with the file and with the quantum.
UncutMutant(p, n) == InQuantum(p, n)
Readable(p, n) == InQuantum(p, Min2(n, size - f_pos[p]))

ReadCopy(p) ==
  /\ Step(p, "read", "out")
  /\ f_pos[p] < size /\ itemsize(p) # 0 /\ At(p).item <= Len(data)
  /\ \E n \in Counts :
       LET count == Readable(p, n)
           at    == At(p)
       IN  /\ Inside(data, at, count)
           /\ ubuf' = [ubuf EXCEPT ![p] =
                         [i \in 1 .. count |-> data[at.item][at.s][at.q + i]]]
           /\ f_pos' = [f_pos EXCEPT ![p] = @ + count]
  /\ UNCHANGED <<mutex, dev, settings, args>>

\* -EFAULT
ReadFault(p) ==
  /\ Step(p, "read", "out")
  /\ f_pos[p] < size /\ itemsize(p) # 0 /\ At(p).item <= Len(data)
  /\ \E n \in Counts : Inside(data, At(p), Readable(p, n))
  /\ UNCHANGED <<mutex, dev, settings, file>>

\* -ENOMEM: one of the allocations fails, those before it stay.
WriteNoMem(p) ==
  LET at == At(p) IN
  /\ Step(p, "write", "out") /\ itemsize(p) # 0
  /\ \/ \E n \in Len(data) .. at.item - 1 : data' = Followed(n)
     \/ data' = Followed(at.item) /\ data'[at.item] = <<>>
     \/ /\ data' = WithArray(Followed(at.item), at, args[p].qset)
        /\ at.s <= Len(data'[at.item]) /\ data'[at.item][at.s] = <<>>
  /\ UNCHANGED <<mutex, quantum, qset, size, settings, file>>

\* Nobody asks to write beyond MaxPos.
Writable(p) == {InQuantum(p, Min2(n, MaxPos - f_pos[p])) : n \in Counts} \ {0}

WriteCopy(p) ==
  /\ Step(p, "write", "out") /\ itemsize(p) # 0
  /\ \E count \in Writable(p) :
       LET end == f_pos[p] + count
       IN  /\ Inside(Allocated(p), At(p), count)
           /\ \E bytes \in [1 .. count -> Values] :
                data' = Stored(Allocated(p), At(p), bytes)
           /\ f_pos' = [f_pos EXCEPT ![p] = end]
           /\ size' = IF size < end THEN end ELSE size
  /\ UNCHANGED <<mutex, quantum, qset, settings, args, ubuf>>

\* -EFAULT: a copy_from_user that fails has overwritten what it was given.
WriteFault(p) ==
  /\ Step(p, "write", "out") /\ itemsize(p) # 0
  /\ \E count \in Writable(p) :
         /\ Inside(Allocated(p), At(p), count)
         /\ data' = Stored(Allocated(p), At(p), [i \in 1 .. count |-> Junk])
  /\ UNCHANGED <<mutex, quantum, qset, size, settings, file>>

\* The label out.
Out(p) ==
  /\ Step(p, "out", "idle") /\ Unlock
  /\ ubuf' = [ubuf EXCEPT ![p] = <<>>] /\ args' = [args EXCEPT ![p] = NoArgs]
  /\ UNCHANGED <<dev, settings, f_pos>>

\* A call that divides by zero, or goes outside an array or a quantum, does
\* not come back, and keeps the mutex.  What it destroys is not modelled.
Oops(p) ==
  /\ \/ /\ pc[p] = "trim"
        /\ \E i \in DOMAIN data : data[i] # <<>> /\ qset > Len(data[i])
     \/ pc[p] = "write" /\ itemsize(p) = 0
     \/ pc[p] = "read" /\ itemsize(p) = 0 /\ f_pos[p] < size
     \/ /\ pc[p] = "write" /\ itemsize(p) # 0
        /\ \E count \in Writable(p) : ~Inside(Allocated(p), At(p), count)
     \/ /\ pc[p] = "read" /\ itemsize(p) # 0 /\ f_pos[p] < size
        /\ At(p).item <= Len(data) /\ data[At(p).item] # <<>>
        /\ IF At(p).s > Len(data[At(p).item]) THEN TRUE
           ELSE /\ data[At(p).item][At(p).s] # <<>>
                /\ \E n \in Counts : ~Inside(data, At(p), Readable(p, n))
  /\ pc' = [pc EXCEPT ![p] = "oops"]
  /\ UNCHANGED <<mutex, dev, settings, file>>

-----------------------------------------------------------------------------
\* scull_llseek: whence and off make any position but a negative one.
Seek(p) ==
  /\ pc[p] = "idle"
  /\ \E k \in Seeks : f_pos' = [f_pos EXCEPT ![p] = k]
  /\ UNCHANGED <<mutex, dev, settings, pc, args, ubuf>>

\* scull_ioctl, what it stores: Set, Tell, eXchange and sHift store a value,
\* zero when a Set or an eXchange faults; RESET stores the defaults.
Ioctl(p) ==
  /\ pc[p] = "idle"
  /\ \/ scull_quantum' \in Quanta /\ UNCHANGED scull_qset
     \/ scull_qset' \in Qsets /\ UNCHANGED scull_quantum
     \/ scull_quantum' = InitQuantum /\ scull_qset' = InitQset
  /\ UNCHANGED <<mutex, dev, file, pc>>

Kernel(p) ==
  \/ MutexLock(p) \/ LockInterrupted(p)
  \/ Trim(p) \/ TrimQuantum(p) \/ TrimQset(p) \/ LoadQset(p)
  \/ ReadNothing(p) \/ ReadCopy(p) \/ ReadFault(p)
  \/ WriteNoMem(p) \/ WriteCopy(p) \/ WriteFault(p)
  \/ Out(p) \/ Oops(p)

Next == \E p \in Procs :
  Kernel(p) \/ Open(p) \/ Close(p) \/ LoadQuantum(p) \/ Seek(p) \/ Ioctl(p)

Spec == Init /\ [][Next]_vars

-----------------------------------------------------------------------------
Bytes == Values \cup {Junk}

TypeOK ==
  /\ mutex \in Procs \cup {NoProc}
  /\ data \in Seq(Seq(Seq(Bytes)))
  /\ quantum \in Quanta /\ qset \in Qsets /\ size \in 0 .. MaxPos
  /\ scull_quantum \in Quanta /\ scull_qset \in Qsets
  /\ f_pos \in [Procs -> 0 .. MaxPos] /\ pc \in [Procs -> Pcs]
  /\ args \in [Procs -> [quantum : Nat, qset : Nat]]
  /\ ubuf \in [Procs -> Seq(Bytes \cup {Hole})]

\* The mutex is held exactly between the lock and the label out, or for ever
\* by a process that an oops has ended.
LockBalanced == \A p \in Procs : pc[p] \in Locked <=> mutex = p

\* "The current quantum size" and "the current array size" (scull.h) are the
\* sizes of every quantum and of every array of the device.
CurrentSizes ==
  \A i \in DOMAIN data :
    data[i] # <<>> =>
      /\ Len(data[i]) = qset
      /\ \A s \in DOMAIN data[i] : data[i][s] = <<>> \/ Len(data[i][s]) = quantum

\* The call in progress works with sizes the device has no more.
Stale(p) == args[p].quantum # quantum \/ args[p].qset # qset

\* Arrays and quanta of a wrong size come only from a write that loaded the
\* sizes before it had the mutex, while a trim installed others.
OnlyStaleWritesMix ==
  [][CurrentSizes /\ ~CurrentSizes' => \E p \in Procs : pc[p] = "write" /\ Stale(p)]_vars

\* Nothing but a size of zero, sizes loaded too early, or what such a write
\* has left behind makes a call leave its memory or divide by zero.
OopsExplained ==
  [][\A p \in Procs :
       pc[p] # "oops" /\ pc'[p] = "oops" =>
         \/ ~CurrentSizes
         \/ pc[p] # "trim" /\ (Stale(p) \/ itemsize(p) = 0)]_vars

\* While the sizes do not change no call divides by zero or goes outside an array or a
\* quantum, so none ends with the mutex held: whatever scull_follow and the
\* allocations of scull_write leave behind when they fail.
NeverOops == \A p \in Procs : pc[p] # "oops"

-----------------------------------------------------------------------------
\* What is at position k of the device.
ByteAt(k) ==
  LET at == Where(k, quantum, qset) IN
  IF at.item \in DOMAIN data /\ data[at.item] # <<>> /\ data[at.item][at.s] # <<>>
  THEN data[at.item][at.s][at.q + 1] ELSE Hole
Contents == [k \in 0 .. MaxPos - 1 |-> ByteAt(k)]

File == INSTANCE ScullFile WITH
          length  <- size,
          content <- Contents,
          pos     <- f_pos,
          got     <- ubuf

\* While the sizes do not change the device is a file: a read returns what was
\* written at its position, whatever was allocated where and whichever calls
\* failed half-way, and nothing only at the end and at holes.
ImplementsFile == File!Spec
=============================================================================
