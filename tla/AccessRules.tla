---------------------------- MODULE AccessRules ----------------------------
(***************************************************************************)
(* What the devices of access.c promise, with no counter, lock or queue:   *)
(* who may have a file of the device beside whom.  An open or a release is *)
(* one step; one that fails, or waits, is none.                            *)
(***************************************************************************)
EXTENDS Integers, Sequences

CONSTANTS Procs, Devices, Builds, Uid, Euid, Capable, Tty, NoTty

VARIABLES
  device, smp,  \* as in ScullAccess
  files,        \* the processes that have a file
  user,         \* whose device it is: nobody's, or that of one user
  homes,        \* homes[i]: the terminal that the private device i is for
  place         \* place[p]: the private device that p opened last

vars == <<device, smp, files, user, homes, place>>

Init ==
  /\ device \in Devices /\ smp \in Builds
  /\ files = {} /\ user = {}
  /\ homes = <<>> /\ place = [p \in Procs |-> 1]

Enter(p) == p \notin files /\ files' = files \cup {p}

\* One file at a time.
OpenSingle(p) ==
  /\ device = "single" /\ files = {}
  /\ Enter(p)
  /\ UNCHANGED <<device, smp, user, homes, place>>

\* The first to come makes the device theirs, until the last file is closed.
OpenUser(p) ==
  /\ device \in {"uid", "wuid"}
  /\ files = {} \/ user \cap {Uid[p], Euid[p]} # {} \/ p \in Capable
  /\ Enter(p)
  /\ user' = IF files = {} THEN {Uid[p]} ELSE user
  /\ UNCHANGED <<device, smp, homes, place>>

\* A terminal without a device gets one.  Without a spinlock to keep others
\* out while kmalloc sleeps, it may get one more, and uses the newest.
OpenPriv(p) ==
  /\ device = "priv" /\ Tty[p] # NoTty
  /\ Enter(p)
  /\ \/ homes' = homes
     \/ /\ \A i \in DOMAIN homes : homes[i] = Tty[p] => ~smp
        /\ homes' = Append(homes, Tty[p])
  /\ \E i \in DOMAIN homes' :
       /\ homes'[i] = Tty[p]
       /\ \A j \in DOMAIN homes' : homes'[j] = Tty[p] => j <= i
       /\ place' = [place EXCEPT ![p] = i]
  /\ UNCHANGED <<device, smp, user>>

Close(p) ==
  /\ p \in files /\ files' = files \ {p}
  /\ user' = IF files' = {} THEN {} ELSE user
  /\ UNCHANGED <<device, smp, homes, place>>

Next == \E p \in Procs : OpenSingle(p) \/ OpenUser(p) \/ OpenPriv(p) \/ Close(p)

Spec == Init /\ [][Next]_vars
=============================================================================
