-------------------------------- MODULE Jiq --------------------------------
(***************************************************************************)
(* jiq.c: readers of /proc/jiqwq, jiqwqdelay, jitimer and jiqtasklet share *)
(* one jiq_data and one wait queue.  A reader puts its seq_file there,     *)
(* starts the callback of its file and sleeps; the callback prints a line  *)
(* and starts itself again until the page is full.                         *)
(***************************************************************************)
EXTENDS Integers, FiniteSets

CONSTANTS Readers, Signalled,   \* processes; those others send signals to
          Works,        \* jiqwq and jiqwqdelay
          MaxProc,      \* bound: files there are at once
          None, Gone    \* no seq_file; one that has been released

Files == Works \cup {"timer", "tasklet"}   \* each has its callback

VARIABLES
  proc,          \* the files the module has in /proc
  pc, file,      \* where a reader is, and in which file
  m, wait_cond,  \* jiq_data
  pending,       \* the callbacks that are queued or armed
  printing,      \* printing[c]: the seq_file callback c has taken from jiq_data
  jiq_wait,      \* the readers in the wait queue
  signals,
  past           \* history since all was quiet: two readers have met, or a signal has come

vars == <<proc, pc, file, m, wait_cond, pending, printing, jiq_wait, signals, past>>

Init ==
  /\ proc = {} /\ pc = [p \in Readers |-> "out"] /\ file = [p \in Readers |-> None]
  /\ m = None /\ wait_cond = FALSE
  /\ pending = {} /\ printing = [c \in Files |-> None]
  /\ jiq_wait = {} /\ signals = {} /\ past = "quiet"

-----------------------------------------------------------------------------
\* wake_up_interruptible(&jiq_wait)
ForgottenMutant == jiq_wait
Woken == {}

Reading(p) == pc[p] # "out"
Place(f)   == IF f \in Works THEN "prepare" ELSE IF f = "timer" THEN "print" ELSE "start"
Goto(p, from, to) == pc[p] = from /\ pc' = [pc EXCEPT ![p] = to]

\* No callback is due or at work.
Idle == pending = {} /\ \A c \in Files : printing[c] = None

data == <<m, wait_cond>>

-----------------------------------------------------------------------------
(* The module and the readers *)

\* Nobody looks whether proc_create has succeeded; jit.c makes a jitimer as well.
\* Fewer files are no different: one that is missing is one that nobody opens.
Load ==
  /\ proc = {} /\ Idle
  /\ proc' \in {fs \in SUBSET Files : Cardinality(fs) = MaxProc}
  /\ UNCHANGED <<pc, file, data, pending, printing, jiq_wait, signals, past>>

\* remove_proc_entry waits for the calls under way, nothing for the callbacks: if
\* one is left, that is the end of the system.
Unload ==
  /\ \A p \in Readers : ~Reading(p)
  /\ proc' = {} /\ m' = None /\ wait_cond' = FALSE
  /\ UNCHANGED <<pc, file, pending, printing, jiq_wait, signals, past>>

\* A new file is opened and read: the stores to jiq_data.
Begin(p) ==
  /\ \E f \in proc :
       /\ Goto(p, "out", Place(f))
       /\ file' = [file EXCEPT ![p] = f]
       /\ wait_cond' = (wait_cond /\ f \in Works)
       \* timer_setup makes an armed timer forget that it is armed
       /\ pending' \in IF f = "timer" THEN {pending, pending \ {"timer"}} ELSE {pending}
  /\ m' = p
  /\ past' = IF \E q \in Readers \ {p} : Reading(q) THEN "crowded"
             ELSE IF Idle THEN "quiet" ELSE past
  /\ UNCHANGED <<proc, printing, jiq_wait, signals>>

\* The timer file prints its first line itself.
PrintFirst(p) ==
  /\ Goto(p, "print", "start")
  /\ \E full \in BOOLEAN :
       IF full THEN wait_cond' = TRUE /\ jiq_wait' = Woken
       ELSE UNCHANGED <<wait_cond, jiq_wait>>
  /\ UNCHANGED <<proc, file, m, pending, printing, signals, past>>

\* prepare_to_wait: the wq files come here before they start the work, the others after.
Prepare(p) ==
  /\ Goto(p, "prepare", IF file[p] \in Works THEN "start" ELSE "sleep")
  /\ jiq_wait' = jiq_wait \cup {p}
  /\ UNCHANGED <<proc, file, data, pending, printing, signals, past>>

\* schedule_work, schedule_delayed_work, add_timer, tasklet_schedule
Start(p) ==
  /\ Goto(p, "start", IF file[p] \in Works THEN "sleep" ELSE "prepare")
  /\ pending' = pending \cup {file[p]}
  /\ UNCHANGED <<proc, file, data, printing, jiq_wait, signals, past>>

\* The wq files call schedule() once, whatever there is to wait for; the others
\* wait for wait_cond.
Wake(p) ==
  /\ \/ file[p] \in Works /\ (p \notin jiq_wait \/ p \in signals) /\ Goto(p, "sleep", "done")
     \/ /\ file[p] \notin Works
        /\ \/ (wait_cond \/ p \in signals) /\ Goto(p, "sleep", "done")
           \/ ~wait_cond /\ p \notin signals \cup jiq_wait /\ Goto(p, "sleep", "prepare")
  /\ jiq_wait' = jiq_wait \ {p}
  /\ UNCHANGED <<proc, file, data, pending, printing, signals, past>>

\* del_timer_sync waits for a running callback.  The file is closed.
End(p) ==
  /\ Goto(p, "done", "out")
  /\ file[p] = "timer" => printing["timer"] = None
  /\ pending' = IF file[p] = "timer" THEN pending \ {"timer"} ELSE pending
  /\ m' = IF m = p THEN Gone ELSE m
  /\ printing' = [c \in Files |-> IF printing[c] = p THEN Gone ELSE printing[c]]
  /\ signals' = signals \ {p}
  /\ file' = [file EXCEPT ![p] = None]
  /\ UNCHANGED <<proc, wait_cond, jiq_wait, past>>

Signal(p) ==
  /\ p \in Signalled /\ Reading(p) /\ p \notin signals /\ signals' = signals \cup {p}
  /\ past' = IF past = "quiet" THEN "hurried" ELSE past
  /\ UNCHANGED <<proc, pc, file, data, pending, printing, jiq_wait>>

-----------------------------------------------------------------------------
(* The callbacks *)

\* jiq_print takes the seq_file from jiq_data.
Run(c) ==
  /\ proc # {} /\ c \in pending /\ printing[c] = None
  /\ pending' = pending \ {c} /\ printing' = [printing EXCEPT ![c] = m]
  /\ UNCHANGED <<proc, pc, file, data, jiq_wait, signals, past>>

\* The rest of jiq_print and of the callback.  What a released seq_file says of
\* its length may be anything.
PrintLine(c) ==
  LET s == printing[c] IN
  /\ proc # {} /\ s # None /\ printing' = [printing EXCEPT ![c] = None]
  /\ \E full \in BOOLEAN :
       /\ pending' = IF full \/ c = "timer" THEN pending ELSE pending \cup {c}
       /\ IF full \/ c = "timer" THEN wait_cond' = TRUE /\ jiq_wait' = Woken
          ELSE UNCHANGED <<wait_cond, jiq_wait>>
  /\ UNCHANGED <<proc, pc, file, m, signals, past>>

Reader(p) == PrintFirst(p) \/ Prepare(p) \/ Start(p) \/ Wake(p) \/ End(p)

Next ==
  \/ Load \/ Unload
  \/ \E p \in Readers : Begin(p) \/ Reader(p) \/ Signal(p)
  \/ \E c \in Files : Run(c) \/ PrintLine(c)

-----------------------------------------------------------------------------
TypeOK ==
  /\ proc \subseteq Files /\ pc \in [Readers -> {"out", "print", "prepare", "start", "sleep", "done"}]
  /\ file \in [Readers -> Files \cup {None}] /\ m \in Readers \cup {None, Gone} /\ wait_cond \in BOOLEAN
  /\ pending \subseteq Files
  /\ printing \in [Files -> Readers \cup {None, Gone}]
  /\ jiq_wait \subseteq Readers /\ signals \subseteq Readers
  /\ past \in {"quiet", "hurried", "crowded"}

\* A reader asleep for which nothing is due or at work that would wake it.
Stranded(p) ==
  pc[p] = "sleep" /\ p \in jiq_wait /\ p \notin signals /\ Idle
  /\ (file[p] \notin Works => ~wait_cond)

\* "RACE" (jiq.c:210) and "sleep till completion" (234): as long as the readers
\* come one at a time none is left asleep, signals or not; and without signals
\* no callback goes on when the seq_file it prints to has been released.
AloneUndisturbed ==
  /\ past # "crowded" => \A p \in Readers : ~Stranded(p)
  /\ past = "quiet" => Gone \notin {printing[c] : c \in Files} /\ (m \notin Readers => pending = {})
=============================================================================
