------------------------------ MODULE JitDelay ------------------------------
(***************************************************************************)
(* jit_fn_proc_show of jit.c: one reader waits for delay ticks in one of   *)
(* four ways.  Ticks are counted modulo Wrap, as jiffies is modulo 2^w.    *)
(***************************************************************************)
EXTENDS Integers

CONSTANTS Wrap, Delay      \* Delay, an int, is less than half of Wrap

VARIABLES
  jiffies,
  show,       \* the way of the call under way, or "none"
  j0, j1,     \* its locals
  elapsed,    \* history: ticks since the call began, as far as they matter
  hurried     \* history: a signal has come

vars == <<jiffies, show, j0, j1, elapsed, hurried>>

Init ==
  /\ jiffies = 0 /\ show = "none" /\ j0 = 0 /\ j1 = 0
  /\ elapsed = 0 /\ hurried = FALSE

\* (long)(a - b) < 0
SignMutant(a, b) == a < b
time_before(a, b) == (a - b) % Wrap >= Wrap \div 2

Tick ==
  /\ jiffies' = (jiffies + 1) % Wrap
  /\ elapsed' = IF elapsed < Wrap THEN elapsed + 1 ELSE elapsed
  /\ UNCHANGED <<show, j0, j1, hurried>>

Begin ==
  /\ show = "none" /\ show' \in {"JIT_BUSY", "JIT_SCHED", "JIT_QUEUE", "JIT_SCHEDTO"}
  /\ j0' = jiffies /\ j1' = (jiffies + Delay) % Wrap
  /\ elapsed' = 0 /\ hurried' = FALSE
  /\ UNCHANGED jiffies

Signal == show # "none" /\ hurried' = TRUE /\ UNCHANGED <<jiffies, show, j0, j1, elapsed>>

\* The loops look at the clock whenever the scheduler lets them; the other two
\* sleep until their timer, set for j1, has expired or a signal comes.
Ready ==
  \/ show \in {"JIT_BUSY", "JIT_SCHED"} /\ ~time_before(jiffies, j1)
  \/ show \in {"JIT_QUEUE", "JIT_SCHEDTO"} /\ (hurried \/ elapsed >= Delay)

End ==
  /\ Ready /\ show' = "none" /\ j1' = jiffies
  /\ UNCHANGED <<jiffies, j0, elapsed, hurried>>

Next == Tick \/ Begin \/ Signal \/ End

-----------------------------------------------------------------------------
TypeOK ==
  /\ {jiffies, j0, j1} \subseteq 0..Wrap - 1 /\ elapsed \in 0..Wrap /\ hurried \in BOOLEAN
  /\ show \in {"none", "JIT_BUSY", "JIT_SCHED", "JIT_QUEUE", "JIT_SCHEDTO"}

\* "after sleeping one second" (jit.c:57): nobody returns before delay ticks have
\* passed, wherever in its range the clock is, except a sleeper that a signal woke;
\* a signal does not hurry the loops.
DelayHonoured ==
  [][End => elapsed >= Delay \/ (show \in {"JIT_QUEUE", "JIT_SCHEDTO"} /\ hurried)]_vars
=============================================================================
