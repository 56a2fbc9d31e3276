---------------------------- MODULE ScullModule ----------------------------
(***************************************************************************)
(* Loading and unloading of the scull module: scull_init_module, the init  *)
(* functions of its friends in pipe.c and access.c, and the cleanup that   *)
(* "is used to handle initialization failures as well".  Region numbers    *)
(* may be taken, memory short, cdev_add and proc_create may fail.          *)
(* Processes open a device from the moment cdev_add has made it live, and  *)
(* read the files in /proc, of which there are none without SCULL_DEBUG:   *)
(* that is as if each proc_create had failed.                              *)
(***************************************************************************)
EXTENDS Integers, FiniteSets

CONSTANTS
  ScullDevs, PipeDevs, AccessDevs,   \* the devices of the three parts
  Priv,                              \* scullpriv, one of AccessDevs
  Procs

ASSUME DevsAssumption ==
  /\ ScullDevs \cap PipeDevs = {} /\ (ScullDevs \cup PipeDevs) \cap AccessDevs = {}
  /\ Priv \in AccessDevs

VARIABLES
  stage,      \* how far loading or unloading has come
  regions,    \* the parts that have their device numbers
  arrays,     \* the parts that have kmalloc'ed their devices
  tried,      \* the devices whose set-up has been called
  live,       \* the devices that can be opened
  content,    \* the devices with memory of their own: quanta, a buffer, clones
  open,       \* open[p]: the devices p has open
  proc,       \* the parts that have files in /proc
  dumps       \* the parts whose devices somebody is reading about in /proc

files == <<open, proc, dumps>>
vars  == <<stage, regions, arrays, tried, live, content, files>>

Parts   == {"scull", "pipe", "access"}
Devs    == [scull |-> ScullDevs, pipe |-> PipeDevs, access |-> AccessDevs]
AllDevs == ScullDevs \cup PipeDevs \cup AccessDevs

Going   == {"cleanup", "remove", "p_remove", "p_cleanup", "a_cleanup"}

Goto(from, to) == stage = from /\ stage' = to

Init ==
  /\ stage = "unloaded"
  /\ regions = {} /\ arrays = {} /\ tried = {} /\ live = {}
  /\ content = {} /\ open = [p \in Procs |-> {}] /\ proc = {} /\ dumps = {}

-----------------------------------------------------------------------------
(* Operators named ...Mutant are the bugs the README tells of: no action uses *)
(* them, a mutated copy of the module puts each in its original's place.      *)

\* scull_p_init gives its numbers back when it has no memory, and returns.
KeptMutant == UNCHANGED regions
GiveBack == regions' = regions \ {"pipe"}

NoReturnMutant == "p_proc"
PipeReturn == "a_region"

\* The devices whose file_operations name the module as their owner.
UnownedMutant == AllDevs \ PipeDevs
Owned == AllDevs

\* What the cleanup of a part goes over: the devices of an array that exists, and
\* those of access.c in any case.
UncheckedMutant(s) == Devs[s]
Swept(s) == IF s \in arrays \cup {"access"} THEN Devs[s] ELSE {}

-----------------------------------------------------------------------------
(* Loading.  Setup[s] is the loop over the devices of part s, After[s] what   *)
(* follows it: what becomes of one friend does not stop the next.             *)

Setup == [scull |-> "setup", pipe |-> "p_setup", access |-> "a_setup"]
After == [scull |-> "p_region", pipe |-> "p_proc", access |-> "proc"]

\* A module that cannot have its first numbers is not loaded: nothing changes.
LoadRegion ==
  /\ Goto("unloaded", "alloc") /\ regions' = {"scull"}
  /\ UNCHANGED <<arrays, tried, live, content, files>>

LoadAlloc ==
  /\ \/ Goto("alloc", "cleanup") /\ UNCHANGED arrays            \* -ENOMEM
     \/ Goto("alloc", "setup") /\ arrays' = {"scull"}
  /\ UNCHANGED <<regions, tried, live, content, files>>

\* scull_setup_cdev, scull_p_setup_cdev, scull_access_setup: the log tells of a
\* cdev_add that has failed, nothing else does.
SetupDevice(s) ==
  /\ stage = Setup[s]
  /\ \E d \in Devs[s] \ tried :
       tried' = tried \cup {d} /\ live' \in {live, live \cup {d}}
  /\ UNCHANGED <<stage, regions, arrays, content, files>>

SetupDone(s) ==
  /\ Devs[s] \subseteq tried /\ Goto(Setup[s], After[s])
  /\ UNCHANGED <<regions, arrays, tried, live, content, files>>

PipeRegion ==
  /\ \/ Goto("p_region", "a_region") /\ UNCHANGED regions
     \/ Goto("p_region", "p_alloc") /\ regions' = regions \cup {"pipe"}
  /\ UNCHANGED <<arrays, tried, live, content, files>>

PipeAlloc ==
  /\ \/ Goto("p_alloc", PipeReturn) /\ GiveBack /\ UNCHANGED arrays
     \/ Goto("p_alloc", "p_setup") /\ arrays' = arrays \cup {"pipe"} /\ UNCHANGED regions
  /\ UNCHANGED <<tried, live, content, files>>

AccessRegion ==
  /\ \/ Goto("a_region", "proc") /\ UNCHANGED regions
     \/ Goto("a_region", "a_setup") /\ regions' = regions \cup {"access"}
  /\ UNCHANGED <<arrays, tried, live, content, files>>

\* The files of scullpipe are made by scull_p_init, those of scull at the end.
CreateProc(s) ==
  /\ \/ s = "pipe" /\ Goto("p_proc", "a_region")
     \/ s = "scull" /\ Goto("proc", "loaded")
  /\ proc' \in {proc, proc \cup {s}}
  /\ UNCHANGED <<regions, arrays, tried, live, content, open, dumps>>

-----------------------------------------------------------------------------
(* The devices in use *)

\* An open takes a reference to the module, which is not to be had any more
\* once the module is going.  A pipe allocates its buffer and scullpriv a clone;
\* the others may be trimmed.
Open(p) ==
  /\ stage \notin Going
  /\ \E d \in live \ open[p] :
       /\ open' = [open EXCEPT ![p] = @ \cup {d}]
       /\ content' \in IF d \in PipeDevs \cup {Priv} THEN {content \cup {d}}
                       ELSE {content, content \ {d}}
  /\ UNCHANGED <<stage, regions, arrays, tried, live, proc, dumps>>

Write(p) ==
  /\ \E d \in open[p] : content' = content \cup {d}
  /\ UNCHANGED <<stage, regions, arrays, tried, live, files>>

\* The last close of a pipe frees its buffer; the other devices persist.
Close(p) ==
  /\ \E d \in open[p] :
       /\ open' = [open EXCEPT ![p] = @ \ {d}]
       /\ content' = IF d \in PipeDevs /\ \A q \in Procs \ {p} : d \notin open[q]
                     THEN content \ {d} ELSE content
  /\ UNCHANGED <<stage, regions, arrays, tried, live, proc, dumps>>

\* scull_read_mem_proc_show, scull_seq_show and scull_read_p_mem_proc_show go
\* over the devices.  A reader of /proc takes no reference to the module.
Dump(s) ==
  /\ s \in proc /\ dumps' = dumps \cup {s}
  /\ UNCHANGED <<stage, regions, arrays, tried, live, content, open, proc>>

DumpDone(s) ==
  /\ s \in dumps /\ dumps' = dumps \ {s}
  /\ UNCHANGED <<stage, regions, arrays, tried, live, content, open, proc>>

-----------------------------------------------------------------------------
(* Unloading *)

\* delete_module: no file of the module may be open.
Unload ==
  /\ \A p \in Procs : open[p] \cap Owned = {}
  /\ Goto("loaded", "cleanup")
  /\ UNCHANGED <<regions, arrays, tried, live, content, files>>

\* scull_cleanup_module deletes and frees the devices of a part, if they exist,
\* and, in the case of access.c, whether they exist or not.
Free(s) ==
  /\ live' = live \ Swept(s) /\ tried' = tried \ Swept(s)
  /\ content' = content \ Swept(s)
  /\ arrays' = arrays \ {s}

CleanupScull ==
  /\ Goto("cleanup", "remove") /\ Free("scull") /\ UNCHANGED <<regions, files>>

\* scull_remove_proc, followed by the release of the numbers, and the beginning
\* of scull_p_cleanup.  remove_proc_entry waits for those who are reading.
RemoveProc(s) ==
  /\ s \notin dumps /\ proc' = proc \ {s}
  /\ \/ s = "scull" /\ Goto("remove", "p_remove") /\ regions' = regions \ {"scull"}
     \/ s = "pipe" /\ Goto("p_remove", "p_cleanup") /\ UNCHANGED regions
  /\ UNCHANGED <<arrays, tried, live, content, open, dumps>>

\* Without an array scull_p_cleanup has nothing else to release.
CleanupPipe ==
  /\ Goto("p_cleanup", "a_cleanup") /\ Free("pipe")
  /\ regions' = regions \ (arrays \cap {"pipe"})
  /\ UNCHANGED files

CleanupAccess ==
  /\ Goto("a_cleanup", "unloaded") /\ Free("access")
  /\ regions' = regions \ {"access"}
  /\ UNCHANGED files

Next ==
  \/ LoadRegion \/ LoadAlloc \/ PipeRegion \/ PipeAlloc \/ AccessRegion
  \/ \E s \in Parts : SetupDevice(s) \/ SetupDone(s)
  \/ \E s \in {"scull", "pipe"} :
       CreateProc(s) \/ Dump(s) \/ DumpDone(s) \/ RemoveProc(s)
  \/ \E p \in Procs : Open(p) \/ Write(p) \/ Close(p)
  \/ Unload \/ CleanupScull \/ CleanupPipe \/ CleanupAccess

Spec == Init /\ [][Next]_vars

-----------------------------------------------------------------------------
\* Types: devices that can be opened have been set up, sets are of their kind.
TypeOK ==
  /\ stage \in {"unloaded", "alloc", "setup", "p_region", "p_alloc", "p_setup", "p_proc",
                "a_region", "a_setup", "proc", "loaded"} \cup Going
  /\ regions \subseteq Parts /\ arrays \subseteq {"scull", "pipe"}
  /\ live \subseteq tried /\ tried \subseteq AllDevs /\ content \subseteq AllDevs
  /\ open \in [Procs -> SUBSET AllDevs]
  /\ proc \subseteq {"scull", "pipe"} /\ dumps \subseteq proc

\* Whatever has failed on the way, a module that is not loaded holds nothing: no
\* numbers, no array, no memory, no device that can be opened, no file in /proc.
NothingLeft ==
  stage = "unloaded" =>
    regions = {} /\ arrays = {} /\ live = {} /\ content = {} /\ proc = {}

\* A device that somebody has open is live and its structure is allocated:
\* initialisation fails no more once a device can be opened, and unloading waits
\* for the files.
InUseStays ==
  \A p \in Procs : \A d \in open[p] :
    d \in live /\ \A s \in {"scull", "pipe"} : d \in Devs[s] => s \in arrays

\* Cleanup calls cdev_del for a device that was never added only where its
\* cdev_add has failed, or in access.c, which does not ask whether its own
\* initialisation has come that far.
StrayOnlyAccess ==
  stage \in Going => \A s \in {"scull", "pipe"} : Swept(s) \subseteq tried

\* Somebody reading /proc goes over an array that exists; in the case of scull,
\* only until cleanup frees it, which is before it removes the files.
DumpsExplained ==
  \A s \in dumps : s \in arrays \/ (s = "scull" /\ stage = "remove")

\* "it must be careful to work correctly" (scull_main.c:577): nobody is going over
\* the devices when cleanup has freed them.
DumpsSeeDevices == dumps \subseteq arrays
=============================================================================
