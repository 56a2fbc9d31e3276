----------------------------- MODULE GlobalMem -----------------------------
(***************************************************************************)
(* globalmem.c: threads that share one open file of a memory of Size       *)
(* bytes.  read(2) and write(2) hand the driver a copy of filp->f_pos and  *)
(* store it afterwards; llseek works on filp->f_pos itself; there is no    *)
(* lock.  MEM_CLEAR and the bytes are left out: they change no position.   *)
(***************************************************************************)
EXTENDS Integers

CONSTANTS
  Threads,
  Size,             \* GLOBALMEM_SIZE
  UInt, ULong,      \* 2^32 and 2^64
  Sizes, Offsets,   \* what the callers pass
  MaxPos            \* bound: how far the position goes astray

VARIABLES
  loaded, live,   \* the module; its device
  open,
  f_pos,
  pc, p, count,   \* where a thread is; its position and how far it moves it
  checked,        \* history: f_pos when a seek tested it
  raced           \* history: another thread moved f_pos between a test and its use

vars == <<loaded, live, open, f_pos, pc, p, count, checked, raced>>
module == <<loaded, live, open>>

Init ==
  /\ loaded = FALSE /\ live = FALSE /\ open = FALSE /\ f_pos = 0
  /\ pc = [t \in Threads |-> "out"] /\ p = [t \in Threads |-> 0]
  /\ count = [t \in Threads |-> 0] /\ checked = [t \in Threads |-> 0] /\ raced = FALSE

-----------------------------------------------------------------------------
\* unsigned long p = *ppos
SignedMutant(n) == n
Unsigned(n) == n % ULong

\* The test of SEEK_CUR.
HighOnlyMutant(n) == n <= Size
InRange(n) == n <= Size /\ n >= 0

Goto(t, from, to) == pc[t] = from /\ pc' = [pc EXCEPT ![t] = to]

Forget(t) == p' = [p EXCEPT ![t] = 0] /\ count' = [count EXCEPT ![t] = 0]

\* What count is cut down to: to unsigned int, and to the end of the memory.
Cut(size, n) == IF size % UInt > Size - n THEN Size - n ELSE size % UInt

-----------------------------------------------------------------------------
\* globalmem_init; without a number or memory nothing changes, and without cdev_add
\* there is a module but no device.
Load ==
  /\ ~loaded /\ loaded' = TRUE /\ live' \in BOOLEAN
  /\ UNCHANGED <<open, f_pos, pc, p, count, checked, raced>>

Exit ==
  /\ loaded /\ ~open /\ loaded' = FALSE /\ live' = FALSE
  /\ UNCHANGED <<open, f_pos, pc, p, count, checked, raced>>

Open ==
  /\ live /\ ~open /\ open' = TRUE
  /\ UNCHANGED <<loaded, live, f_pos, pc, p, count, checked, raced>>

Release ==
  /\ open /\ \A t \in Threads : pc[t] = "out"
  /\ open' = FALSE /\ f_pos' = 0 /\ raced' = FALSE
  /\ UNCHANGED <<loaded, live, pc, p, count, checked>>

\* globalmem_read and globalmem_write up to the copy.
Fetch(t) ==
  /\ open /\ p' = [p EXCEPT ![t] = f_pos]
  /\ IF Unsigned(f_pos) >= Size
     THEN Goto(t, "out", "store") /\ count' = [count EXCEPT ![t] = 0]
     ELSE /\ Goto(t, "out", "copy")
          /\ \E s \in Sizes : count' = [count EXCEPT ![t] = Cut(s, f_pos)]
  /\ UNCHANGED <<module, f_pos, checked, raced>>

Copy(t) ==
  /\ \/ Goto(t, "copy", "store") /\ UNCHANGED <<p, count>>
     \/ Goto(t, "copy", "out") /\ Forget(t)       \* -EFAULT
  /\ UNCHANGED <<module, f_pos, checked, raced>>

Store(t) ==
  /\ Goto(t, "store", "out") /\ Forget(t)
  /\ f_pos' = p[t] + count[t] /\ f_pos' \in -MaxPos..MaxPos
  /\ UNCHANGED <<module, checked, raced>>

SeekSet(t) ==
  /\ open /\ pc[t] = "out"
  /\ \E o \in Offsets : o >= 0 /\ o % UInt <= Size /\ f_pos' = o % UInt
  /\ raced' = (raced /\ \E u \in Threads : pc[u] # "out")
  /\ UNCHANGED <<module, pc, p, count, checked>>

\* SEEK_CUR: the test, and the load and the store of f_pos += offset.
SeekTest(t) ==
  /\ open /\ Goto(t, "out", "add")
  /\ \E o \in Offsets : InRange(f_pos + o) /\ count' = [count EXCEPT ![t] = o]
  /\ checked' = [checked EXCEPT ![t] = f_pos]
  /\ UNCHANGED <<module, f_pos, p, raced>>

SeekAdd(t) ==
  /\ Goto(t, "add", "store") /\ p' = [p EXCEPT ![t] = f_pos]
  /\ raced' = (raced \/ f_pos # checked[t]) /\ checked' = [checked EXCEPT ![t] = 0]
  /\ UNCHANGED <<module, f_pos, count>>

Next ==
  \/ Load \/ Exit \/ Open \/ Release
  \/ \E t \in Threads :
       Fetch(t) \/ Copy(t) \/ Store(t) \/ SeekSet(t) \/ SeekTest(t) \/ SeekAdd(t)

-----------------------------------------------------------------------------
TypeOK ==
  /\ loaded \in BOOLEAN /\ live \in BOOLEAN /\ open \in BOOLEAN /\ raced \in BOOLEAN
  /\ f_pos \in -MaxPos..MaxPos
  /\ pc \in [Threads -> {"out", "copy", "store", "add"}]
  /\ p \in [Threads -> -MaxPos..MaxPos] /\ checked \in [Threads -> -MaxPos..MaxPos]
  /\ count \in [Threads -> Int]

\* Wherever the position has got to, no byte outside of the memory is copied.
CopiesInside ==
  \A t \in Threads : pc[t] = "copy" => p[t] >= 0 /\ p[t] + count[t] <= Size

\* The position is within the file, unless a SEEK_CUR was made to add its offset
\* to another position than the one it had tested.
PositionExplained == f_pos \in 0..Size \/ raced
=============================================================================
