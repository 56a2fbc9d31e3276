---------------------------- MODULE ScullAccess ----------------------------
(***************************************************************************)
(* The devices of access.c, which differ from the bare device in open and  *)
(* release only: "single" admits one file, "uid" the files of one user,    *)
(* "wuid" makes other users wait, "priv" gives every terminal a device of  *)
(* its own.  They share nothing, so a behaviour is about one of them.  A   *)
(* process has at most one file.                                           *)
(*                                                                         *)
(* A critical section of a spinlock is one step unless somebody can look   *)
(* into it: the sleepers of scullwuid test count and owner without the     *)
(* lock, and kmalloc(GFP_KERNEL) may sleep in scull_c_lookfor_device.  On  *)
(* a uniprocessor build spin_lock does nothing, and such a sleep lets      *)
(* others in.  Of reads and writes only the mutex of the device is left.   *)
(***************************************************************************)
EXTENDS Integers, Sequences, FiniteSets

CONSTANTS
  Procs,        \* the processes
  Devices,      \* the devices considered, of the four above
  Builds,       \* TRUE for a kernel with several processors, FALSE for one
  Uid, Euid,    \* the real and the effective user of each process
  Root,         \* user 0
  Capable,      \* the processes with CAP_DAC_OVERRIDE
  Tty, NoTty,   \* the controlling terminal of each process, if it has one
  WriteOnly,    \* the processes that open O_WRONLY
  NonBlock,     \* those that open with O_NONBLOCK
  Signalled,    \* those that signals are sent to
  NoProc        \* the holder of a spinlock that is free

Users == {Uid[p] : p \in Procs} \cup {Root}
Keys  == {Tty[p] : p \in Procs}

ASSUME ProcsAssumption ==
  /\ IsFiniteSet(Procs) /\ NoProc \notin Procs
  /\ UNION {Capable, WriteOnly, NonBlock, Signalled} \subseteq Procs
ASSUME BuildsAssumption ==
  Devices \subseteq {"single", "uid", "wuid", "priv"} /\ Builds \subseteq BOOLEAN

VARIABLES
  device, smp,  \* the device and the build this behaviour is about
  available,    \* scull_s_available
  count, owner, \* scull_u_count and scull_u_owner, or those of scull_w
  spin,         \* the holder of scull_w_lock or of scull_c_lock, or NoProc
  wait,         \* scull_w_wait: who is on it has not been woken yet
  list,         \* scull_c_list: the keys, the oldest item first
  slept,        \* history: the keys whose kmalloc has slept without a lock
  file,         \* file[p]: the item p has open; 1 on the other devices
  pc,           \* where each process is
  seen          \* seen[p]: count as an unlocked test of p has loaded it

fixed == <<device, smp>>
users == <<count, owner>>
items == <<list, slept, file>>
vars  == <<fixed, available, users, spin, wait, items, pc, seen>>

OpenPcs == {"trim", "open", "io"}
WaitPcs == {"w_prep", "w_test", "w_test2", "w_sleep", "w_lock"}
Pcs     == OpenPcs \cup WaitPcs \cup {"closed", "s_busy", "w_count", "w_wake", "c_alloc"}

Init ==
  /\ device \in Devices /\ smp \in Builds
  /\ available = 1 /\ count = 0 /\ owner = Root
  /\ spin = NoProc /\ wait = {}
  /\ list = <<>> /\ slept = {} /\ file = [p \in Procs |-> 1]
  /\ pc = [p \in Procs |-> "closed"] /\ seen = [p \in Procs |-> 0]

-----------------------------------------------------------------------------
(* Operators named ...Mutant are the bugs the README tells of: no action uses *)
(* them, a mutated copy of the module puts each in its original's place.      *)

Step(p, from, to) == pc[p] = from /\ pc' = [pc EXCEPT ![p] = to]

\* Every open ends with the trim of scull_open, without dev->mutex, if the
\* file is write-only.
Opened(p) == IF p \in WriteOnly THEN "trim" ELSE "open"

\* atomic_dec_and_test of what the counter holds.
SignMutant(n) == n - 1 <= 0
DecAndTest(n) == n - 1 = 0

\* scull_s_open, when it is too late: "already open".
KeptMutant == UNCHANGED available
GiveBack == available' = available + 1

\* The tests of scull_u_open and of scull_w_available.
allowed(p) == owner \in {Uid[p], Euid[p]} \/ p \in Capable
scull_w_available(p) == count = 0 \/ allowed(p)

\* "grab it"
GrabMutant(p) == owner' = Uid[p]
Grab(p) == owner' = IF count = 0 THEN Uid[p] ELSE owner

CountOff == count' = count - 1

\* wake_up_interruptible_sync: nobody sleeps exclusively.
WakeOneMutant(q) == IF q = {} THEN {} ELSE q \ {CHOOSE p \in q : TRUE}
ForgottenWakeMutant(q) == q
wake_up(q) == {}

\* spin_lock over a kmalloc that sleeps.
DroppedMutant(p) == spin' = NoProc
KeepLock(p) == spin' = IF smp THEN p ELSE NoProc

\* list_for_each_entry: the items with this key.
Found(key) == {i \in DOMAIN list : list[i] = key}

-----------------------------------------------------------------------------
(* scullsingle *)

OpenSingle(p) ==
  /\ device = "single"
  /\ Step(p, "closed", IF DecAndTest(available) THEN Opened(p) ELSE "s_busy")
  /\ available' = available - 1
  /\ UNCHANGED <<fixed, users, spin, wait, items, seen>>

OpenBusy(p) ==
  /\ Step(p, "s_busy", "closed")                                \* -EBUSY
  /\ GiveBack
  /\ UNCHANGED <<fixed, users, spin, wait, items, seen>>

CloseSingle(p) ==
  /\ device = "single" /\ Step(p, "open", "closed")
  /\ available' = available + 1
  /\ UNCHANGED <<fixed, users, spin, wait, items, seen>>

-----------------------------------------------------------------------------
(* sculluid: an open that fails, -EBUSY, changes nothing *)

OpenUser(p) ==
  /\ device = "uid" /\ (count = 0 \/ allowed(p))
  /\ Step(p, "closed", Opened(p))
  /\ Grab(p) /\ count' = count + 1
  /\ UNCHANGED <<fixed, available, spin, wait, items, seen>>

CloseUser(p) ==
  /\ device = "uid" /\ Step(p, "open", "closed")
  /\ CountOff
  /\ UNCHANGED <<fixed, available, owner, spin, wait, items, seen>>

-----------------------------------------------------------------------------
(* scullwuid; the wait is wait_event_interruptible(scull_w_wait,             *)
(* scull_w_available()), whose test loads count, then owner                  *)

TryOpen(p) ==
  /\ device = "wuid" /\ spin = NoProc /\ scull_w_available(p)
  /\ Step(p, "closed", "w_count") \/ Step(p, "w_lock", "w_count")
  /\ spin' = p /\ Grab(p)
  /\ UNCHANGED <<fixed, available, count, wait, items, seen>>

CountOpen(p) ==
  /\ Step(p, "w_count", Opened(p))
  /\ spin' = NoProc /\ count' = count + 1
  /\ UNCHANGED <<fixed, available, owner, wait, items, seen>>

\* An open that does not wait, -EAGAIN, changes nothing.
OpenDenied(p) ==
  /\ device = "wuid" /\ spin = NoProc /\ ~scull_w_available(p)
  /\ \/ p \notin NonBlock /\ Step(p, "closed", "w_prep")
     \/ Step(p, "w_lock", "w_prep")
  /\ UNCHANGED <<fixed, available, users, spin, wait, items, seen>>

WaitPrepare(p) ==
  /\ Step(p, "w_prep", "w_test")
  /\ wait' = wait \cup {p}
  /\ UNCHANGED <<fixed, available, users, spin, items, seen>>

TestCount(p) ==
  /\ Step(p, "w_test", "w_test2")
  /\ seen' = [seen EXCEPT ![p] = count]
  /\ UNCHANGED <<fixed, available, users, spin, wait, items>>

TestOwner(p) ==
  /\ IF seen[p] = 0 \/ allowed(p)
       THEN Step(p, "w_test2", "w_lock") /\ wait' = wait \ {p}
       ELSE \/ Step(p, "w_test2", "w_sleep") /\ wait' = wait
            \/ /\ p \in Signalled                               \* -ERESTARTSYS
               /\ Step(p, "w_test2", "closed") /\ wait' = wait \ {p}
  /\ seen' = [seen EXCEPT ![p] = 0]
  /\ UNCHANGED <<fixed, available, users, spin, items>>

Woken(p) ==
  /\ p \notin wait /\ Step(p, "w_sleep", "w_prep")
  /\ UNCHANGED <<fixed, available, users, spin, wait, items, seen>>

\* A signal ends the sleep; the next test may end the wait.
Interrupted(p) ==
  /\ p \in Signalled /\ Step(p, "w_sleep", "w_prep")
  /\ UNCHANGED <<fixed, available, users, spin, wait, items, seen>>

CloseWait(p) ==
  /\ device = "wuid" /\ spin = NoProc
  /\ CountOff
  /\ Step(p, "open", IF count' = 0 THEN "w_wake" ELSE "closed")
  /\ UNCHANGED <<fixed, available, owner, spin, wait, items, seen>>

CloseWake(p) ==
  /\ Step(p, "w_wake", "closed")
  /\ wait' = wake_up(wait)
  /\ UNCHANGED <<fixed, available, users, spin, items, seen>>

-----------------------------------------------------------------------------
(* scullpriv: scull_c_open and scull_c_lookfor_device.  Without a terminal    *)
(* the open fails, -EINVAL, and so it does, -ENOMEM, when kmalloc does.       *)

OpenFound(p) ==
  /\ device = "priv" /\ spin = NoProc /\ Tty[p] # NoTty
  /\ Step(p, "closed", Opened(p))
  \* list_add puts new items first, and the search takes the first
  /\ \E i \in Found(Tty[p]) :
       /\ \A j \in Found(Tty[p]) : j <= i
       /\ file' = [file EXCEPT ![p] = i]
  /\ UNCHANGED <<fixed, available, users, spin, wait, list, slept, seen>>

Add(p) ==
  /\ list' = Append(list, Tty[p])
  /\ file' = [file EXCEPT ![p] = Len(list')]

\* kmalloc finds memory at once.
OpenNew(p) ==
  /\ device = "priv" /\ spin = NoProc /\ Tty[p] # NoTty /\ Found(Tty[p]) = {}
  /\ Step(p, "closed", Opened(p)) /\ Add(p)
  /\ UNCHANGED <<fixed, available, users, spin, wait, slept, seen>>

\* kmalloc sleeps, waiting for memory to be freed.
OpenSleep(p) ==
  /\ device = "priv" /\ spin = NoProc /\ Tty[p] # NoTty /\ Found(Tty[p]) = {}
  /\ Step(p, "closed", "c_alloc") /\ KeepLock(p)
  /\ slept' = IF smp THEN slept ELSE slept \cup {Tty[p]}
  /\ UNCHANGED <<fixed, available, users, wait, list, file, seen>>

OpenSlept(p) ==
  /\ \/ Step(p, "c_alloc", Opened(p)) /\ Add(p)
     \/ Step(p, "c_alloc", "closed") /\ UNCHANGED <<list, file>>
  /\ spin' = NoProc
  /\ UNCHANGED <<fixed, available, users, wait, slept, seen>>

ClosePriv(p) ==
  /\ device = "priv" /\ Step(p, "open", "closed")
  /\ UNCHANGED <<fixed, available, users, spin, wait, items, seen>>

-----------------------------------------------------------------------------
(* What is "copied from the bare scull device" *)

Trimmed(p) ==
  /\ Step(p, "trim", "open")
  /\ UNCHANGED <<fixed, available, users, spin, wait, items, seen>>

\* A read or a write, from mutex_lock_interruptible to mutex_unlock.
UseDevice(p) ==
  /\ Step(p, "open", "io")
  /\ \A q \in Procs : ~(pc[q] = "io" /\ file[q] = file[p])
  /\ UNCHANGED <<fixed, available, users, spin, wait, items, seen>>

Used(p) ==
  /\ Step(p, "io", "open")
  /\ UNCHANGED <<fixed, available, users, spin, wait, items, seen>>

-----------------------------------------------------------------------------
\* What a process does once it has entered a system call.
Kernel(p) ==
  \/ OpenBusy(p) \/ CountOpen(p) \/ WaitPrepare(p) \/ TestCount(p)
  \/ TestOwner(p) \/ Woken(p) \/ CloseWake(p) \/ OpenSlept(p)
  \/ Trimmed(p) \/ Used(p)
  \/ pc[p] = "w_lock" /\ (TryOpen(p) \/ OpenDenied(p))

\* The calls it makes.
Call(p) ==
  \/ OpenSingle(p) \/ OpenUser(p) \/ TryOpen(p) \/ OpenDenied(p)
  \/ OpenFound(p) \/ OpenNew(p) \/ OpenSleep(p) \/ UseDevice(p)
  \/ CloseSingle(p) \/ CloseUser(p) \/ CloseWait(p) \/ ClosePriv(p)

Next == \E p \in Procs : Kernel(p) \/ Interrupted(p) \/ Call(p)

Spec == Init /\ [][Next]_vars

\* The scheduler runs every process that can run.  Nobody has to make a call,
\* and no signal has to arrive.
FairSpec == Spec /\ \A p \in Procs : WF_vars(Kernel(p))

-----------------------------------------------------------------------------
TypeOK ==
  /\ device \in Devices /\ smp \in Builds
  /\ available \in Int /\ count \in Nat /\ owner \in Users
  /\ spin \in Procs \cup {NoProc} /\ wait \subseteq Procs
  /\ list \in Seq(Keys) /\ slept \subseteq Keys
  /\ file \in [Procs -> Nat \ {0}]
  /\ pc \in [Procs -> Pcs] /\ seen \in [Procs -> Nat]

IsOpen(p) == pc[p] \in OpenPcs
Files == {p \in Procs : IsOpen(p)}

\* Two files are never open on scullsingle, whatever opens fail meanwhile and
\* however far below zero they push the counter.
SingleExclusive ==
  device = "single" => \A p, q \in Procs : IsOpen(p) /\ IsOpen(q) => p = q

\* The counter comes back to 1 from every mixture of opens that succeed, opens
\* that fail and releases: it lacks what is open or about to fail.  So the only
\* opens refused on a free device are those that meet one about to fail.
AvailableExact ==
  device = "single" =>
    available = 1 - Cardinality({p \in Procs : IsOpen(p) \/ pc[p] = "s_busy"})

\* sculluid and scullwuid: "access is denied to other users if the device is
\* open".  Whoever has a file is the owner, by one of the two uids, or capable;
\* and count is the number of files, so that the owner changes only between.
SameUser ==
  device \in {"uid", "wuid"} =>
    /\ \A p \in Procs : IsOpen(p) => allowed(p)
    /\ count = Cardinality(Files)

\* No lost wake-up in scull_w_open, whose test is made without the lock, of
\* two values that others change: who sleeps while the device is available to
\* them has been woken, or the release that freed it is about to wake them.
NoLostOpener ==
  \A p \in wait : pc[p] = "w_sleep" /\ scull_w_available(p) =>
    \E q \in Procs : pc[q] = "w_wake"

\* scullpriv: all the files of a terminal are on one item of the list.  A
\* second item is made only on a uniprocessor, by a kmalloc that sleeps.
OneDevicePerTty ==
  /\ \A p \in Procs :
       device = "priv" /\ IsOpen(p) => file[p] \in Found(Tty[p])
  /\ \A i, j \in DOMAIN list :
       list[i] = list[j] => i = j \/ (~smp /\ list[i] \in slept)

\* scull_trim "must be called with the device semaphore held": while it runs,
\* nobody reads or writes the device, or trims it.
TrimExcludesIO ==
  \A p, q \in Procs :
    p # q /\ pc[p] = "trim" /\ pc[q] \in {"trim", "io"} => file[p] # file[q]

\* Whose the device is: the owner is of no account while nobody has a file.
User == IF device \in {"uid", "wuid"} /\ Files # {} THEN {owner} ELSE {}

\* The counters, the locks and the queue come to the rules of AccessRules: an
\* open takes effect in the step that leaves the tests behind, a release in its
\* first, and no other step, of an open that fails or waits, changes who has a
\* file, whose device it is, or which private devices there are.
Rules == INSTANCE AccessRules WITH
  files <- Files, user <- User, homes <- list, place <- file
ImplementsRules == Rules!Spec

\* Who sleeps in scull_w_open while the device is available to them wakes up,
\* unless it is taken again meanwhile.
OpenersWake ==
  \A p \in Procs :
    (pc[p] = "w_sleep" /\ scull_w_available(p)) ~>
      (pc[p] # "w_sleep" \/ ~scull_w_available(p))
=============================================================================
