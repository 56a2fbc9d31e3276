------------------------- MODULE ScullModuleProofs -------------------------
(***************************************************************************)
(* For every number of devices and processes: loading that has failed or   *)
(* has been undone leaves nothing, what is open stays there, and so does   *)
(* what a reader of /proc goes over, but for the devices of scull.         *)
(***************************************************************************)
EXTENDS ScullModule, TLAPS

\* Which arrays exist at which stage, and whose devices have all been set up.
ArraysOK ==
  /\ stage \in {"unloaded", "alloc"} => arrays = {} /\ tried = {}
  /\ stage \notin {"unloaded", "alloc"} \cup Going => "scull" \in arrays
  /\ stage \in {"setup", "p_region", "p_alloc"} => "pipe" \notin arrays
  /\ stage \in {"p_setup", "p_proc"} => "pipe" \in arrays
  /\ stage \in Going \ {"cleanup"} => "scull" \notin arrays
  /\ stage = "a_cleanup" => "pipe" \notin arrays
  /\ "scull" \in arrays /\ stage # "setup" => ScullDevs \subseteq tried
  /\ "pipe" \in arrays /\ stage # "p_setup" => PipeDevs \subseteq tried
  /\ tried \cap ScullDevs # {} => "scull" \in arrays
  /\ tried \cap PipeDevs # {} => "pipe" \in arrays

\* The pipes have numbers without an array only until they ask for one.
RegionsOK ==
  /\ stage = "unloaded" => regions = {}
  /\ "pipe" \in regions => "pipe" \in arrays \/ stage = "p_alloc"
  /\ "scull" \in regions => stage \notin {"p_remove", "p_cleanup", "a_cleanup"}

\* The files of scullpipe in /proc go before its array, those of scull after it.
ProcOK ==
  /\ "pipe" \in proc => "pipe" \in arrays /\ stage \notin {"p_cleanup", "a_cleanup"}
  /\ "scull" \in proc => stage \in {"loaded", "cleanup", "remove"}
  /\ "scull" \in proc /\ stage = "cleanup" => "scull" \in arrays

\* Memory hangs on live devices, files are open on live devices, and none is
\* open once the module is going.
UsersOK ==
  /\ content \subseteq live
  /\ \A p \in Procs : open[p] \subseteq live
  /\ stage \in Going => \A p \in Procs : open[p] = {}

IInv == TypeOK /\ ArraysOK /\ RegionsOK /\ ProcOK /\ UsersOK

-----------------------------------------------------------------------------
\* The state the module is in before it is first loaded satisfies the invariant.
LEMMA InitIInv == Init => IInv
BY DEF Init, IInv, TypeOK, ArraysOK, RegionsOK, ProcOK, UsersOK, Going

\* Every step of loading keeps the invariant.
LEMMA LoadingKeeps ==
  ASSUME IInv,
         LoadRegion \/ LoadAlloc \/ PipeRegion \/ PipeAlloc \/ AccessRegion
  PROVE  IInv'
<1>. USE DEF IInv, TypeOK, ArraysOK, RegionsOK, ProcOK, UsersOK, Goto, Going, Parts, files
<1>1. CASE LoadRegion    BY <1>1 DEF LoadRegion
<1>2. CASE LoadAlloc     BY <1>2 DEF LoadAlloc
<1>3. CASE PipeRegion    BY <1>3 DEF PipeRegion
<1>4. CASE PipeAlloc     BY <1>4 DEF PipeAlloc, PipeReturn, GiveBack
<1>5. CASE AccessRegion  BY <1>5 DEF AccessRegion
<1>. QED  BY <1>1, <1>2, <1>3, <1>4, <1>5

\* So does setting up a device, of an array that exists by then.
LEMMA SetupKeeps ==
  ASSUME IInv, NEW s \in Parts, SetupDevice(s) \/ SetupDone(s)
  PROVE  IInv'
<1>. USE DevsAssumption
     DEF IInv, TypeOK, ArraysOK, RegionsOK, ProcOK, UsersOK, Goto, Going, Parts, Setup, After,
         Devs, AllDevs, files
<1>1. CASE SetupDevice(s)
  <2>1. PICK d \in Devs[s] \ tried : tried' = tried \cup {d} /\ live' \in {live, live \cup {d}}
    BY <1>1 DEF SetupDevice
  <2>. QED  BY <1>1, <2>1 DEF SetupDevice
<1>2. CASE SetupDone(s)  BY <1>2 DEF SetupDone
<1>. QED  BY <1>1, <1>2

\* So do the files in /proc, made for arrays that exist and removed when nobody
\* reads them.
LEMMA ProcKeeps ==
  ASSUME IInv, NEW s \in {"scull", "pipe"},
         CreateProc(s) \/ Dump(s) \/ DumpDone(s) \/ RemoveProc(s)
  PROVE  IInv'
<1>. USE DEF IInv, TypeOK, ArraysOK, RegionsOK, ProcOK, UsersOK, Goto, Going, Parts
<1>1. CASE CreateProc(s)  BY <1>1 DEF CreateProc
<1>2. CASE Dump(s)        BY <1>2 DEF Dump
<1>3. CASE DumpDone(s)    BY <1>3 DEF DumpDone
<1>4. CASE RemoveProc(s)  BY <1>4 DEF RemoveProc
<1>. QED  BY <1>1, <1>2, <1>3, <1>4

\* So do the processes that use the devices.
LEMMA UseKeeps ==
  ASSUME IInv, NEW p \in Procs, Open(p) \/ Write(p) \/ Close(p)
  PROVE  IInv'
<1>. USE DEF IInv, TypeOK, ArraysOK, RegionsOK, ProcOK, UsersOK, files
<1>1. CASE Open(p)
  <2>1. PICK d \in live \ open[p] :
          /\ open' = [open EXCEPT ![p] = @ \cup {d}]
          /\ content' \in {content \cup {d}, content, content \ {d}}
    BY <1>1 DEF Open
  <2>. QED  BY <1>1, <2>1 DEF Open
<1>2. CASE Write(p)  BY <1>2 DEF Write
<1>3. CASE Close(p)
  <2>1. PICK d \in open[p] :
          /\ open' = [open EXCEPT ![p] = @ \ {d}]
          /\ content' \in {content, content \ {d}}
    BY <1>3 DEF Close
  <2>. QED  BY <1>3, <2>1 DEF Close
<1>. QED  BY <1>1, <1>2, <1>3

\* So does unloading: each cleanup goes over the devices of its part that have
\* been set up, and over no others.
LEMMA UnloadKeeps ==
  ASSUME IInv, Unload \/ CleanupScull \/ CleanupPipe \/ CleanupAccess
  PROVE  IInv'
<1>. USE DevsAssumption
     DEF IInv, TypeOK, ArraysOK, RegionsOK, ProcOK, UsersOK, Goto, Going, Parts, AllDevs, files
<1>1. CASE Unload
  <2>1. \A p \in Procs : open[p] = {}
    BY <1>1 DEF Unload, Owned
  <2>. QED  BY <1>1, <2>1 DEF Unload
<1>2. CASE CleanupScull
  <2>1. tried \cap ScullDevs \subseteq Swept("scull") /\ Swept("scull") \subseteq ScullDevs
    BY DEF Swept, Devs
  <2>. QED  BY <1>2, <2>1 DEF CleanupScull, Free
<1>3. CASE CleanupPipe
  <2>1. tried \cap PipeDevs \subseteq Swept("pipe") /\ Swept("pipe") \subseteq PipeDevs
    BY DEF Swept, Devs
  <2>. QED  BY <1>3, <2>1 DEF CleanupPipe, Free
<1>4. CASE CleanupAccess
  <2>1. Swept("access") = AccessDevs
    BY DEF Swept, Devs
  <2>2. tried' = {} /\ live' = {} /\ content' = {}
    BY <1>4, <2>1 DEF CleanupAccess, Free
  <2>3. regions' = {} /\ proc = {} /\ arrays' = {}
    BY <1>4 DEF CleanupAccess, Free
  <2>. QED  BY <1>4, <2>2, <2>3 DEF CleanupAccess
<1>. QED  BY <1>1, <1>2, <1>3, <1>4

\* The invariant is inductive.
THEOREM Invariance == Spec => []IInv
<1>1. IInv /\ [Next]_vars => IInv'
  <2>. SUFFICES ASSUME IInv, [Next]_vars PROVE IInv'  OBVIOUS
  <2>1. CASE UNCHANGED vars
    BY <2>1 DEF vars, files, IInv, TypeOK, ArraysOK, RegionsOK, ProcOK, UsersOK
  <2>. QED  BY <2>1, LoadingKeeps, SetupKeeps, ProcKeeps, UseKeeps, UnloadKeeps DEF Next
<1>. QED  BY InitIInv, <1>1, PTL DEF Spec

-----------------------------------------------------------------------------
\* Whatever fails while the module is loaded, once it is not loaded it holds no
\* numbers, no array, no memory, no device and no file in /proc.
THEOREM NothingIsLeft == Spec => []NothingLeft
<1>1. IInv => NothingLeft
  BY DEF IInv, TypeOK, ArraysOK, RegionsOK, ProcOK, UsersOK, NothingLeft
<1>. QED  BY Invariance, <1>1, PTL

\* No failure and no unloading takes a device away that somebody has open.
THEOREM OpenDevicesStay == Spec => []InUseStays
<1>1. IInv => InUseStays
  BY DEF IInv, TypeOK, ArraysOK, UsersOK, InUseStays, Devs
<1>. QED  BY Invariance, <1>1, PTL

\* Outside access.c, cleanup deletes what has not been added only where adding
\* it has failed.
THEOREM StrayDeletesExplained == Spec => []StrayOnlyAccess
<1>1. IInv => StrayOnlyAccess
  BY DEF IInv, ArraysOK, StrayOnlyAccess, Swept, Devs, Going
<1>. QED  BY Invariance, <1>1, PTL

\* Readers of /proc find the devices of scullpipe in any case, and those of scull
\* but for the moment in which cleanup has freed them and their files remain.
THEOREM ProcReadersExplained == Spec => []DumpsExplained
<1>1. IInv => DumpsExplained
  BY DEF IInv, TypeOK, ArraysOK, ProcOK, DumpsExplained, Going
<1>. QED  BY Invariance, <1>1, PTL
=============================================================================
