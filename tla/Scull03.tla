------------------------------ MODULE Scull03 ------------------------------
(***************************************************************************)
(* The author's first scull (scull_main_03.c).  open takes the mutex of a  *)
(* device; read and write take a semaphore that nothing has initialised:   *)
(* memset leaves its count and its list of waiters at zero, so that the    *)
(* first caller dies on the list while it holds the lock of the semaphore, *)
(* for which the next one spins.  No caller gets any further, and no       *)
(* device ever has memory: what read, write and trim would do with it is   *)
(* not modelled, nor is the position llseek sets for them.                 *)
(***************************************************************************)

CONSTANTS Procs, Devs, None

VARIABLES
  stage,      \* "unloaded", "setup", "loaded"
  live,       \* the devices cdev_add has made available
  file,       \* what p has open
  pc,
  mutex,      \* its holder
  locked      \* the semaphores with their inner lock held by a process that is dead

vars == <<stage, live, file, pc, mutex, locked>>

Init ==
  /\ stage = "unloaded" /\ live = {}
  /\ file = [p \in Procs |-> None] /\ pc = [p \in Procs |-> "out"]
  /\ mutex = [d \in Devs |-> None] /\ locked = {}

-----------------------------------------------------------------------------
Goto(p, from, to) == pc[p] = from /\ pc' = [pc EXCEPT ![p] = to]

\* mutex_unlock
ForgottenMutant(d) == UNCHANGED mutex
Unlock(d) == mutex' = [mutex EXCEPT ![d] = None]

-----------------------------------------------------------------------------
\* scull_init_module up to the memset; without numbers or memory nothing stays.
LoadModule ==
  /\ stage = "unloaded" /\ stage' = "setup"
  /\ UNCHANGED <<live, file, pc, mutex, locked>>

\* scull_setup_cdev: the log tells of a cdev_add that fails, nothing else does.
Setup ==
  /\ stage = "setup"
  /\ \/ stage' = "loaded" /\ UNCHANGED live
     \/ \E d \in Devs \ live : live' = live \cup {d} /\ UNCHANGED stage
  /\ UNCHANGED <<file, pc, mutex, locked>>

\* An open that is not write-only, and one that is, up to its mutex; if a signal
\* ends the wait for it nothing has changed.
Open(p) ==
  /\ \E d \in live :
       /\ file' = [file EXCEPT ![p] = d]
       /\ \/ Goto(p, "out", "open") /\ UNCHANGED mutex
          \/ /\ mutex[d] = None /\ Goto(p, "out", "trim")
             /\ mutex' = [mutex EXCEPT ![d] = p]
  /\ UNCHANGED <<stage, live, locked>>

\* scull_trim finds no list.
OpenTrim(p) ==
  /\ Goto(p, "trim", "open") /\ Unlock(file[p])
  /\ UNCHANGED <<stage, live, file, locked>>

\* The end of a file, by close or with its process.
Release(p) == Goto(p, "open", "out") /\ file' = [file EXCEPT ![p] = None]

Close(p) == Release(p) /\ UNCHANGED <<stage, live, mutex, locked>>

\* read or write, as far as down_interruptible(&dev->sem).
Down(p) ==
  /\ IF file[p] \in locked
     THEN Goto(p, "open", "spin") /\ UNCHANGED <<file, locked>>
     ELSE Release(p) /\ locked' = locked \cup {file[p]}
  /\ UNCHANGED <<stage, live, mutex>>

\* rmmod, for which no file of the module may be open, and scull_cleanup_module,
\* which deletes the devices and frees them together with their semaphores.
Unload ==
  /\ stage = "loaded" /\ \A p \in Procs : file[p] = None
  /\ stage' = "unloaded" /\ live' = {} /\ locked' = {}
  /\ UNCHANGED <<file, pc, mutex>>

Next ==
  \/ LoadModule \/ Setup \/ Unload
  \/ \E p \in Procs : Open(p) \/ OpenTrim(p) \/ Close(p) \/ Down(p)

-----------------------------------------------------------------------------
TypeOK ==
  /\ stage \in {"unloaded", "setup", "loaded"} /\ live \subseteq Devs
  /\ file \in [Procs -> Devs \cup {None}] /\ pc \in [Procs -> {"out", "open", "trim", "spin"}]
  /\ mutex \in [Devs -> Procs \cup {None}] /\ locked \subseteq Devs

\* What blocks for ever in this driver is the dead process alone: who spins does so
\* for a lock that somebody took to the grave and that is still there, and keeps the
\* module from being unloaded with it; a mutex is held only by an open of its own
\* device on its way to the unlock, however many processes have died meanwhile.
OnlyTheDeadBlock ==
  /\ \A p \in Procs :
       /\ pc[p] = "spin" => file[p] \in locked
       /\ file[p] # None => file[p] \in live
  /\ \A d \in Devs : mutex[d] # None => pc[mutex[d]] = "trim" /\ file[mutex[d]] = d
=============================================================================
