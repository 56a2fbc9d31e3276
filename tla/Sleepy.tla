------------------------------- MODULE Sleepy -------------------------------
(***************************************************************************)
(* sleepy.c: every reader sleeps until there is a flag, and takes it; a    *)
(* write sets the flag and wakes all.                                      *)
(***************************************************************************)
CONSTANT Procs

VARIABLES
  loaded,         \* register_chrdev has succeeded
  pc, flag, wq, signals

vars == <<loaded, pc, flag, wq, signals>>

Init ==
  /\ loaded = FALSE /\ pc = [p \in Procs |-> "out"]
  /\ flag = 0 /\ wq = {} /\ signals = {}

\* wait_event_interruptible: into the queue first, then the condition.
TestFirstMutant == [begin |-> "test", prepared |-> "sleep", untrue |-> "prepare"]
Order == [begin |-> "prepare", prepared |-> "test", untrue |-> "sleep"]

Goto(p, from, to) == pc[p] = from /\ pc' = [pc EXCEPT ![p] = to]

sleepy_init == ~loaded /\ loaded' = TRUE /\ UNCHANGED <<pc, flag, wq, signals>>

\* The module has an owner: it stays as long as somebody is in a call.
sleepy_cleanup ==
  /\ loaded /\ \A p \in Procs : pc[p] = "out"
  /\ loaded' = FALSE /\ flag' = 0 /\ UNCHANGED <<pc, wq, signals>>

Read(p) ==
  /\ loaded /\ Goto(p, "out", Order.begin) /\ UNCHANGED <<loaded, flag, wq, signals>>

Prepare(p) ==
  /\ Goto(p, "prepare", Order.prepared) /\ wq' = wq \cup {p}
  /\ UNCHANGED <<loaded, flag, signals>>

Test(p) ==
  /\ IF flag # 0 \/ p \in signals THEN Goto(p, "test", "clear") /\ wq' = wq \ {p}
     ELSE Goto(p, "test", Order.untrue) /\ UNCHANGED wq
  /\ UNCHANGED <<loaded, flag, signals>>

Wake(p) ==
  /\ p \notin wq /\ Goto(p, "sleep", Order.begin) /\ UNCHANGED <<loaded, flag, wq, signals>>

\* Nobody asks whether it was a signal: the reader takes a flag it may not have seen.
Clear(p) ==
  /\ Goto(p, "clear", "out") /\ flag' = 0 /\ signals' = signals \ {p}
  /\ UNCHANGED <<loaded, wq>>

Write(p) ==
  /\ loaded /\ Goto(p, "out", "wake") /\ flag' = 1 /\ UNCHANGED <<loaded, wq, signals>>

WakeUp(p) ==
  /\ Goto(p, "wake", "out") /\ wq' = {} /\ UNCHANGED <<loaded, flag, signals>>

Signal(p) ==
  /\ pc[p] \in {"prepare", "test", "sleep"} /\ p \notin signals
  /\ signals' = signals \cup {p} /\ wq' = wq \ {p} /\ UNCHANGED <<loaded, pc, flag>>

Next ==
  \/ sleepy_init \/ sleepy_cleanup
  \/ \E p \in Procs :
       \/ Read(p) \/ Prepare(p) \/ Test(p) \/ Wake(p) \/ Clear(p)
       \/ Write(p) \/ WakeUp(p) \/ Signal(p)

-----------------------------------------------------------------------------
TypeOK ==
  /\ loaded \in BOOLEAN /\ pc \in [Procs -> {"out", "prepare", "test", "sleep", "clear", "wake"}]
  /\ flag \in {0, 1} /\ wq \subseteq Procs /\ signals \subseteq Procs

\* A reader sleeps on beside a set flag only as long as the writer has not got to
\* its wake-up: no wake-up is lost, though the flag that woke a reader may be gone
\* when it looks (the header comment of the copy says that a write wakes every sleeper).
FlagNoticed ==
  flag = 1 => \/ \A p \in Procs : pc[p] = "sleep" => p \notin wq
              \/ \E p \in Procs : pc[p] = "wake"
=============================================================================
