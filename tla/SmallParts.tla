----------------------------- MODULE SmallParts -----------------------------
(***************************************************************************)
(* One specification for the parts of the repository that are small: the   *)
(* loading of scull (this module extends ScullModule and keeps its         *)
(* definitions) and, beside it, instances of eleven modules that share     *)
(* nothing with it or with each other.  A behaviour is one of one part,    *)
(* chosen at the start; the others stay where they begin.                  *)
(***************************************************************************)
EXTENDS ScullModule

CONSTANTS
  None, Gone,
  Blocks, Loops,                           \* jit
  Wrap, Delay,                             \* jitdelay
  Works, MaxProc, Signalled,               \* jiq
  Capable, Values, Zero,                   \* ioctl
  Quantum0, Qset0, QuantumDefault, QsetDefault,
  N, Lists, MaxCount,                      \* seq
  Sleepers,                                \* sleepy
  Waiters, MaxDone,                        \* complete
  Devs03,                                  \* scull03
  Size, UInt, ULong, Sizes, Ahead, Back, MaxPos,   \* globalmem
  Base, Window, Efault, Largest, MaxBytes, \* silly
  Chunk, MaxAvail                          \* asynctest

ASSUME LoopsAssumption  == Loops \in Nat \ {0} /\ None \notin Blocks
ASSUME MemoryAssumption ==
  /\ Size \in Nat \ {0} /\ UInt \in Nat /\ ULong \in Nat /\ Size < UInt /\ UInt < ULong
  /\ Sizes \subseteq Nat /\ Ahead \subseteq Nat /\ Back \subseteq Nat
  /\ MaxPos \in Nat /\ Size <= MaxPos /\ Size + MaxPos <= ULong

ASSUME DelayAssumption   == Wrap \in Nat \ {0} /\ Delay \in Nat /\ Delay + Delay <= Wrap
ASSUME NumbersAssumption == N \in Nat \ {0} /\ MaxCount \in Nat
ASSUME WaitersAssumption == IsFiniteSet(Waiters) /\ MaxDone \in Nat
ASSUME WindowAssumption  ==
  /\ Base \in Nat /\ Window \in Nat /\ Efault \in Nat /\ Largest \in Nat /\ MaxBytes \in Nat
  /\ Largest + 1 < ULong /\ Base + Window + 1 < ULong
ASSUME NamesAssumption   ==
  /\ None \notin Procs \cup Devs03 /\ Gone \notin Procs /\ None # Gone
  /\ Works \cap {"timer", "tasklet"} = {}
ASSUME ChunkAssumption   == Chunk \in Nat /\ MaxAvail \in Nat

VARIABLE which    \* the part

VARIABLES
  jit_loaded, jit_pc, jit_data, mem, loops, callback, jit_wait, jit_signals, left,
  jiffies, show, j0, j1, elapsed, delay_hurried,
  jiq_proc, jiq_pc, jiq_file, m, wait_cond, pending, printing, jiq_wait, jiq_signals,
  past,
  setting, ioctl_pc, on, tmp, replaced, overtaken,
  seq_data, kind, seq_pc, index, i, qs, seq_pos, changed, shown, cut,
  sleepy_loaded, sleepy_pc, flag, wq, sleepy_signals,
  complete_loaded, done, complete_wait, woken,
  stage03, live03, file03, pc03, mutex, locked,
  gm_loaded, gm_live, gm_open, gm_f_pos, gm_pc, gm_p, count, checked, raced,
  silly_loaded, silly_open, silly_f_pos, call, range, moved, leaked,
  at_pc, gotdata, avail, sigio, early, more, interrupted, missed

jit == INSTANCE Jit WITH
  Readers <- Procs, loaded <- jit_loaded, pc <- jit_pc, data <- jit_data, wait <- jit_wait,
  signals <- jit_signals

jitdelay == INSTANCE JitDelay WITH hurried <- delay_hurried

jiq == INSTANCE Jiq WITH
  Readers <- Procs, proc <- jiq_proc, pc <- jiq_pc, file <- jiq_file, signals <- jiq_signals

Setting(q, n) == [s \in {"scull_quantum", "scull_qset"} |-> IF s = "scull_quantum" THEN q ELSE n]

ioctl == INSTANCE ScullIoctl WITH
  pc <- ioctl_pc, Initial <- Setting(Quantum0, Qset0),
  Default <- Setting(QuantumDefault, QsetDefault)

seq == INSTANCE SeqFiles WITH Readers <- Procs, data <- seq_data, pc <- seq_pc, pos <- seq_pos

sleepy == INSTANCE Sleepy WITH
  Procs <- Sleepers, loaded <- sleepy_loaded, pc <- sleepy_pc, signals <- sleepy_signals

complete == INSTANCE Complete WITH
  Procs <- Waiters, loaded <- complete_loaded, wait <- complete_wait

scull03 == INSTANCE Scull03 WITH
  Devs <- Devs03, stage <- stage03, live <- live03, file <- file03, pc <- pc03

globalmem == INSTANCE GlobalMem WITH
  Threads <- Procs, Offsets <- Ahead \cup {-n : n \in Back}, loaded <- gm_loaded,
  live <- gm_live, open <- gm_open, f_pos <- gm_f_pos, pc <- gm_pc, p <- gm_p

silly == INSTANCE Silly WITH
  MaxCount <- MaxBytes, loaded <- silly_loaded, open <- silly_open, f_pos <- silly_f_pos

asynctest == INSTANCE AsyncTest WITH pc <- at_pc

-----------------------------------------------------------------------------
Part == {"module", "jit", "jitdelay", "jiq", "ioctl", "seq", "sleepy", "complete", "scull03",
         "globalmem", "silly", "asynctest"}

\* What stays when part w takes a step.
Others(w) ==
  /\ which = w /\ UNCHANGED which
  /\ w # "module"    => UNCHANGED <<stage, regions, arrays, tried, live, content, open, proc, dumps>>
  /\ w # "jit"       => UNCHANGED <<jit_loaded, jit_pc, jit_data, mem, loops, callback, jit_wait,
                                    jit_signals, left>>
  /\ w # "jitdelay"  => UNCHANGED <<jiffies, show, j0, j1, elapsed, delay_hurried>>
  /\ w # "jiq"       => UNCHANGED <<jiq_proc, jiq_pc, jiq_file, m, wait_cond, pending, printing,
                                    jiq_wait, jiq_signals, past>>
  /\ w # "ioctl"     => UNCHANGED <<setting, ioctl_pc, on, tmp, replaced, overtaken>>
  /\ w # "seq"       => UNCHANGED <<seq_data, kind, seq_pc, index, i, qs, seq_pos, changed, shown,
                                    cut>>
  /\ w # "sleepy"    => UNCHANGED <<sleepy_loaded, sleepy_pc, flag, wq, sleepy_signals>>
  /\ w # "complete"  => UNCHANGED <<complete_loaded, done, complete_wait, woken>>
  /\ w # "scull03"   => UNCHANGED <<stage03, live03, file03, pc03, mutex, locked>>
  /\ w # "globalmem" => UNCHANGED <<gm_loaded, gm_live, gm_open, gm_f_pos, gm_pc, gm_p, count,
                                    checked, raced>>
  /\ w # "silly"     => UNCHANGED <<silly_loaded, silly_open, silly_f_pos, call, range, moved, leaked>>
  /\ w # "asynctest" => UNCHANGED <<at_pc, gotdata, avail, sigio, early, more, interrupted, missed>>

PartsInit ==
  /\ which \in Part
  /\ Init /\ jit!Init /\ jitdelay!Init /\ jiq!Init /\ ioctl!Init /\ seq!Init /\ sleepy!Init
  /\ complete!Init /\ scull03!Init /\ globalmem!Init /\ silly!Init /\ asynctest!Init

PartsNext ==
  \/ Others("module")    /\ Next
  \/ Others("jit")       /\ jit!Next
  \/ Others("jitdelay")  /\ jitdelay!Next
  \/ Others("jiq")       /\ jiq!Next
  \/ Others("ioctl")     /\ ioctl!Next
  \/ Others("seq")       /\ seq!Next
  \/ Others("sleepy")    /\ sleepy!Next
  \/ Others("complete")  /\ complete!Next
  \/ Others("scull03")   /\ scull03!Next
  \/ Others("globalmem") /\ globalmem!Next
  \/ Others("silly")     /\ silly!Next
  \/ Others("asynctest") /\ asynctest!Next

all == <<which, vars, jit!vars, jitdelay!vars, jiq!vars, ioctl!vars, seq!vars, sleepy!vars,
         complete!vars, scull03!vars, globalmem!vars, silly!vars, asynctest!vars>>

PartsSpec == PartsInit /\ [][PartsNext]_all /\ jit!Fairness

-----------------------------------------------------------------------------
\* The variables of the part the behaviour is about have their types.
PartsTypeOK ==
  /\ which \in Part
  /\ which = "module"    => TypeOK
  /\ which = "jit"       => jit!TypeOK
  /\ which = "jitdelay"  => jitdelay!TypeOK
  /\ which = "jiq"       => jiq!TypeOK
  /\ which = "ioctl"     => ioctl!TypeOK
  /\ which = "seq"       => seq!TypeOK
  /\ which = "sleepy"    => sleepy!TypeOK
  /\ which = "complete"  => complete!TypeOK
  /\ which = "scull03"   => scull03!TypeOK
  /\ which = "globalmem" => globalmem!TypeOK
  /\ which = "silly"     => silly!TypeOK
  /\ which = "asynctest" => asynctest!TypeOK

\* Each of these is stated in the module of its part.

\* jit: the callback works only on what its reader keeps alive, signals excepted.
OutlivesExplained == jit!OutlivesExplained
\* jit: a reader in a call gets out of it.
CallsEnd == jit!CallsEnd
\* jit: nobody returns before delay ticks have passed, signals excepted.
DelayHonoured == jitdelay!DelayHonoured
\* jiq: a reader that is alone is not left asleep, nor its file printed to too late.
AloneUndisturbed == jiq!AloneUndisturbed
\* scull_ioctl: an exchange hands back what it replaced, unless overtaken.
OldValueKept == ioctl!OldValueKept
\* /proc: the list being scanned is the device's, unless loaded before the mutex.
ScansOwnList == seq!ScansOwnList
\* /proc: a file shows every device once, in order, but for scullmem at its limit.
EachOnce == seq!EachOnce
\* sleepy: no reader sleeps beside a flag that has been announced.
FlagNoticed == sleepy!FlagNoticed
\* complete: every completion has a reader on its way, if one waits.
CompletionsCovered == complete!CompletionsCovered
\* The author's scull: nobody is blocked for ever but by the dead holder of a lock.
OnlyTheDeadBlock == scull03!OnlyTheDeadBlock
\* globalmem: no byte outside of the memory is copied.
CopiesInside == globalmem!CopiesInside
\* globalmem: the position is within the file, unless two threads raced.
PositionExplained == globalmem!PositionExplained
\* silly: transfers stay in the window and move what they report, but for iowrite8
\* and reads that fail.
TransfersExplained == silly!TransfersExplained
\* asynctest: data is not slept beside but for one of four reasons.
DataNoticed == asynctest!DataNoticed
=============================================================================
