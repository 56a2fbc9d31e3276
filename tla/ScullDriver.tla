---------------------------- MODULE ScullDriver ----------------------------
(***************************************************************************)
(* The bare device together with scull_ioctl.  ScullDev lets a process     *)
(* store any settings in one step; here the steps are those of ScullIoctl, *)
(* made by processes that have the device open, between and during the     *)
(* reads, writes and trims of the others.                                  *)
(***************************************************************************)
EXTENDS ScullDev

CONSTANTS
  Capable,      \* the processes with CAP_SYS_ADMIN
  Passed,       \* the ints they pass
  DefaultQuantum, DefaultQset   \* SCULL_QUANTUM and SCULL_QSET, what RESET installs

ASSUME PassedAssumption ==
  /\ Passed \cup {0} \subseteq Quanta \cap Qsets
  /\ Capable \subseteq Procs
  /\ DefaultQuantum \in Quanta /\ DefaultQset \in Qsets

VARIABLES
  call, on, tmp,        \* where an ioctl is, as in ScullIoctl
  replaced, overtaken,  \* its history
  changed       \* history: a capable process has changed a setting

calls == <<call, on, tmp, replaced, overtaken>>

SettingNames == {"scull_quantum", "scull_qset"}
Setting(q, s) == [n \in SettingNames |-> IF n = "scull_quantum" THEN q ELSE s]

IO == INSTANCE ScullIoctl WITH
  setting <- Setting(scull_quantum, scull_qset), pc <- call,
  Values <- Passed, Zero <- 0,
  Initial <- Setting(InitQuantum, InitQset), Default <- Setting(DefaultQuantum, DefaultQset)

DriverInit == Init /\ IO!Init /\ changed = FALSE

\* A process makes one system call at a time.
NoIoctl(p) == call[p] = "out"

\* The calls of ScullDev.
FileStep(p) ==
  /\ NoIoctl(p)
  /\ Kernel(p) \/ Open(p) \/ Close(p) \/ LoadQuantum(p) \/ Seek(p)
  /\ UNCHANGED <<calls, changed>>

\* Those of ScullIoctl, on a file of the device.
IoctlStep(p) ==
  /\ pc[p] = "idle"
  /\ scull_quantum' \in Quanta /\ scull_qset' \in Qsets
  /\ IO!Call(p)
  /\ changed' = (changed \/ (p \in Capable /\ settings' # settings))
  /\ UNCHANGED <<mutex, dev, file, pc>>

DriverNext == \E p \in Procs : FileStep(p) \/ IoctlStep(p)

DriverSpec == DriverInit /\ [][DriverNext]_<<vars, calls, changed>>

-----------------------------------------------------------------------------
\* Each part does in the whole what it does by itself: the device sees settings
\* that change at any time, and ioctl is disturbed by no read, write or trim.
ImplementsParts == Spec /\ IO!Spec

\* Who has no privilege harms nobody, though no lock protects the settings and
\* RESET is for everyone: until a capable process has changed a setting no
\* call leaves its memory or divides by zero, whatever calls come between its
\* steps, and all memory of the device has the sizes the device says.  (Of a
\* module loaded without parameters: where the settings start with others than
\* the defaults, a RESET changes them for whoever asks.)
UnprivilegedHarmless == ~changed => NeverOops /\ CurrentSizes
=============================================================================
