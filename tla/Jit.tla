-------------------------------- MODULE Jit --------------------------------
(***************************************************************************)
(* The files jitimer, jitasklet and jitasklethi of jit.c.  A reader puts   *)
(* everything the callback needs into a block of its own, starts the timer *)
(* or the tasklet and sleeps until the callback, which starts itself again *)
(* Loops times, wakes it.  The two differ in when the callback runs, and a *)
(* step may come at any time here: one model does for both.                *)
(***************************************************************************)
EXTENDS Integers

CONSTANTS
  Readers,   \* processes
  Blocks,    \* what kmalloc can give
  Loops,     \* JIT_ASYNC_LOOPS
  None

VARIABLES
  loaded,    \* the module, with its files in /proc
  pc,        \* where a reader is
  data,      \* data[p]: the block of the call p is in
  mem,       \* mem[b]: "free", "used", or "freed" while the callback still has it
  loops,     \* struct jit_data.loops
  callback,  \* callback[b]: where the timer or tasklet of b is
  wait,      \* the readers in a wait queue
  signals,   \* the readers with a signal pending
  left       \* history: the blocks whose reader a signal took away

vars == <<loaded, pc, data, mem, loops, callback, wait, signals, left>>

Init ==
  /\ loaded = FALSE
  /\ pc = [p \in Readers |-> "closed"] /\ data = [p \in Readers |-> None]
  /\ mem = [b \in Blocks |-> "free"] /\ loops = [b \in Blocks |-> 0]
  /\ callback = [b \in Blocks |-> "none"]
  /\ wait = {} /\ signals = {} /\ left = {}

-----------------------------------------------------------------------------
\* The condition the reader waits for.
LastLineMutant(b) == loops[b] <= 1
Over(b) == loops[b] = 0

\* wake_up_interruptible(&data->wait).
ForgottenMutant(b) == wait
Woken(b) == {p \in wait : data[p] # b}

Goto(p, from, to) == pc[p] = from /\ pc' = [pc EXCEPT ![p] = to]

-----------------------------------------------------------------------------
(* The module and the readers *)

Load ==
  /\ ~loaded /\ loaded' = TRUE
  /\ UNCHANGED <<pc, data, mem, loops, callback, wait, signals, left>>

\* jit_cleanup: remove_proc_entry waits for the calls under way and closes the
\* files; nothing looks for timers and tasklets.
Unload ==
  /\ loaded /\ \A p \in Readers : pc[p] \in {"closed", "open"}
  /\ loaded' = FALSE /\ pc' = [p \in Readers |-> "closed"]
  /\ UNCHANGED <<data, mem, loops, callback, wait, signals, left>>

Open(p) ==
  /\ loaded /\ Goto(p, "closed", "open")
  /\ UNCHANGED <<loaded, data, mem, loops, callback, wait, signals, left>>

Close(p) ==
  /\ Goto(p, "open", "closed")
  /\ UNCHANGED <<loaded, data, mem, loops, callback, wait, signals, left>>

\* Up to tasklet_schedule or add_timer.  Without memory the call changes nothing.
Show(p) ==
  /\ Goto(p, "open", "prepare")
  /\ \E b \in Blocks :
       /\ mem[b] = "free" /\ mem' = [mem EXCEPT ![b] = "used"]
       /\ data' = [data EXCEPT ![p] = b]
       /\ loops' = [loops EXCEPT ![b] = Loops]
       /\ callback' = [callback EXCEPT ![b] = "pending"]
  /\ UNCHANGED <<loaded, wait, signals, left>>

\* wait_event_interruptible(data->wait, !data->loops)
Prepare(p) ==
  /\ Goto(p, "prepare", "test") /\ wait' = wait \cup {p}
  /\ UNCHANGED <<loaded, data, mem, loops, callback, signals, left>>

Test(p) ==
  /\ \/ /\ Goto(p, "test", "finish") /\ wait' = wait \ {p}
        /\ Over(data[p]) \/ p \in signals
     \/ /\ Goto(p, "test", "asleep") /\ UNCHANGED wait
        /\ ~Over(data[p]) /\ p \notin signals
  /\ UNCHANGED <<loaded, data, mem, loops, callback, signals, left>>

Wake(p) ==
  /\ p \notin wait /\ Goto(p, "asleep", "prepare")
  /\ UNCHANGED <<loaded, data, mem, loops, callback, wait, signals, left>>

\* With a signal pending the block is never freed, even if the callback is through.
Finish(p) ==
  LET b == data[p] IN
  /\ Goto(p, "finish", "open") /\ data' = [data EXCEPT ![p] = None]
  /\ \/ p \in signals /\ left' = left \cup {b} /\ UNCHANGED mem
     \/ /\ p \notin signals /\ UNCHANGED left
        /\ mem' = [mem EXCEPT ![b] = IF callback[b] = "none" THEN "free" ELSE "freed"]
  /\ signals' = signals \ {p}
  /\ UNCHANGED <<loaded, loops, callback, wait>>

Signal(p) ==
  /\ pc[p] \notin {"closed", "open"} /\ p \notin signals
  /\ signals' = signals \cup {p} /\ wait' = wait \ {p}
  /\ UNCHANGED <<loaded, pc, data, mem, loops, callback, left>>

-----------------------------------------------------------------------------
(* jit_tasklet_fn and jit_timer_fn *)

Step(b, from, to) == callback[b] = from /\ callback' = [callback EXCEPT ![b] = to]

\* The callback prints into data->m.
PrintLine(b) ==
  /\ Step(b, "pending", "count")
  /\ UNCHANGED <<loaded, pc, data, mem, loops, wait, signals, left>>

\* if (--data->loops) it starts itself again
Count(b) ==
  /\ loops' = [loops EXCEPT ![b] = @ - 1]
  /\ IF loops[b] > 1 THEN Step(b, "count", "pending") ELSE Step(b, "count", "wake")
  /\ UNCHANGED <<loaded, pc, data, mem, wait, signals, left>>

WakeUp(b) ==
  /\ Step(b, "wake", "unlock") /\ wait' = Woken(b)
  /\ UNCHANGED <<loaded, pc, data, mem, loops, signals, left>>

\* wake_up releases the lock of the queue, which is in the block as well.
Unlock(b) ==
  /\ Step(b, "unlock", "none")
  /\ mem' = [mem EXCEPT ![b] = IF @ = "freed" THEN "free" ELSE @]
  /\ UNCHANGED <<loaded, pc, data, loops, wait, signals, left>>

Call(p) == Show(p) \/ Prepare(p) \/ Test(p) \/ Wake(p) \/ Finish(p)
Inside(p) == Prepare(p) \/ Test(p) \/ Wake(p) \/ Finish(p)
Callback(b) == PrintLine(b) \/ Count(b) \/ WakeUp(b) \/ Unlock(b)

Next ==
  \/ Load \/ Unload
  \/ \E p \in Readers : Open(p) \/ Close(p) \/ Call(p) \/ Signal(p)
  \/ \E b \in Blocks : Callback(b)

\* The scheduler runs who can run, timers expire and tasklets are run.
Fairness ==
  /\ \A p \in Readers : WF_vars(Inside(p))
  /\ \A b \in Blocks : WF_vars(Callback(b))

-----------------------------------------------------------------------------
TypeOK ==
  /\ loaded \in BOOLEAN /\ data \in [Readers -> Blocks \cup {None}]
  /\ pc \in [Readers -> {"closed", "open", "prepare", "test", "asleep", "finish"}]
  /\ mem \in [Blocks -> {"free", "used", "freed"}] /\ loops \in [Blocks -> 0..Loops]
  /\ callback \in [Blocks -> {"none", "pending", "count", "wake", "unlock"}]
  /\ wait \subseteq Readers /\ signals \subseteq Readers /\ left \subseteq Blocks

\* A callback that is still going to print or to count has its reader waiting in
\* the call, so that its block, the file it prints to and the module are there, unless
\* a signal took the reader away; and a block freed already is touched only by
\* the wake-up the callback ends with.
OutlivesExplained ==
  \A b \in Blocks :
    /\ callback[b] \in {"pending", "count"} => b \in left \/ \E p \in Readers : data[p] = b
    /\ mem[b] = "freed" => callback[b] \in {"wake", "unlock"}
    /\ mem[b] = "used" => b \in left \/ \E p \in Readers : data[p] = b

\* Nobody stays in a call: the callback gets to its end and its wake-up is not
\* lost.
CallsEnd == \A p \in Readers : pc[p] = "prepare" ~> pc[p] = "open"
=============================================================================
