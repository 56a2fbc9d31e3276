------------------------- MODULE ScullAccessProofs -------------------------
(***************************************************************************)
(* Theorems about ScullAccess, for any processes, users and terminals.     *)
(* The counters of access.c are sizes of sets of processes: who has a      *)
(* file, and who has taken from scull_s_available.  Exclusion follows from *)
(* that, and from who may be in a section that a spinlock protects.        *)
(***************************************************************************)
EXTENDS ScullAccess, FiniteSetTheorems, TLAPS

Holders == {p \in Procs : IsOpen(p) \/ pc[p] = "s_busy"}

(* Each device has its own part of the code. *)
KindOK ==
  \A p \in Procs :
    /\ pc[p] = "s_busy" => device = "single"
    /\ pc[p] \in WaitPcs \cup {"w_count", "w_wake"} => device = "wuid"
    /\ pc[p] = "c_alloc" => device = "priv"

(* Who holds a spinlock between two steps; none does on a uniprocessor while *)
(* kmalloc sleeps.                                                           *)
SpinOK ==
  \A p \in Procs : pc[p] = "w_count" \/ (pc[p] = "c_alloc" /\ smp) => spin = p

(* What the search of scull_c_lookfor_device has found is still true, or was *)
(* recorded as slept upon.                                                   *)
AllocOK ==
  \A p \in Procs :
    pc[p] = "c_alloc" =>
      /\ Tty[p] # NoTty
      /\ IF smp THEN Found(Tty[p]) = {} ELSE Tty[p] \in slept

CountOK == device \in {"uid", "wuid"} => count = Cardinality(Files)
OwnerOK ==
  device \in {"uid", "wuid"} =>
    \A p \in Procs : IsOpen(p) \/ pc[p] = "w_count" => allowed(p)
HolderOK == device = "single" => available = 1 - Cardinality(Holders)

(* The wake-up is still to come also for one whose test has loaded a count   *)
(* that is out of date.                                                      *)
Pending == \E q \in Procs : pc[q] = "w_wake"
WakeOK ==
  \A p \in wait :
    \/ pc[p] = "w_sleep" /\ scull_w_available(p)
    \/ pc[p] = "w_test2" /\ seen[p] # 0 /\ count = 0
    => Pending

(* Who has passed the test of scull_w_open while the count was zero is about  *)
(* to be the user, and the device is still free.                             *)
GrabOK ==
  \A p \in Procs : pc[p] = "w_count" /\ count = 0 => owner = Uid[p]

Locking == TypeOK /\ KindOK /\ SpinOK
Counting == CountOK /\ OwnerOK /\ HolderOK /\ GrabOK
IInv == Locking /\ Counting /\ SingleExclusive /\ WakeOK /\ AllocOK /\ OneDevicePerTty

-----------------------------------------------------------------------------
(* Sets of processes, as one process moves *)

(* A process that moves into a set of places, or out of it, changes the      *)
(* number of those there by one.                                             *)
LEMMA PlaceCount ==
  ASSUME pc \in [Procs -> Pcs], NEW p \in Procs, NEW to, NEW S,
         pc' = [pc EXCEPT ![p] = to]
  PROVE  LET T == {q \in Procs : pc[q] \in S}
         IN  /\ Cardinality(T) \in Nat
             /\ Cardinality(T') =
                  IF (to \in S) = (pc[p] \in S) THEN Cardinality(T)
                  ELSE IF to \in S THEN Cardinality(T) + 1 ELSE Cardinality(T) - 1
             /\ pc[p] \in S => Cardinality(T) > 0
             /\ Cardinality(T) = 0 => T = {}
<1> DEFINE T == {q \in Procs : pc[q] \in S}
<1>1. IsFiniteSet(T) /\ Cardinality(T) \in Nat
  BY ProcsAssumption, FS_Subset, FS_CardinalityType, T \in SUBSET Procs
<1>2. Cardinality(T) = 0 <=> T = {}
  BY <1>1, FS_EmptySet
<1>3. CASE to \in S
  <2>1. T' = T \cup {p}
    BY <1>3
  <2>2. QED BY <1>1, <1>2, <1>3, <2>1, FS_AddElement
<1>4. CASE to \notin S
  <2>1. T' = T \ {p}
    BY <1>4
  <2>2. QED BY <1>1, <1>2, <1>4, <2>1, FS_RemoveElement
<1>5. QED BY <1>3, <1>4

(* The files and the holders are such sets. *)
LEMMA FileCount ==
  ASSUME pc \in [Procs -> Pcs], NEW p \in Procs, NEW to,
         pc' = [pc EXCEPT ![p] = to]
  PROVE  /\ Cardinality(Files) \in Nat
         /\ Cardinality(Files') =
              IF (to \in OpenPcs) = (pc[p] \in OpenPcs) THEN Cardinality(Files)
              ELSE IF to \in OpenPcs THEN Cardinality(Files) + 1
                                     ELSE Cardinality(Files) - 1
         /\ pc[p] \in OpenPcs => Cardinality(Files) > 0
         /\ Cardinality(Files) = 0 => Files = {}
BY PlaceCount DEF Files, IsOpen

(* The same, for those that have a file or are about to give back.           *)
LEMMA HolderCount ==
  ASSUME pc \in [Procs -> Pcs], NEW p \in Procs, NEW to,
         pc' = [pc EXCEPT ![p] = to]
  PROVE  LET S == OpenPcs \cup {"s_busy"}
         IN  /\ Cardinality(Holders) \in Nat
             /\ Cardinality(Holders') =
                  IF (to \in S) = (pc[p] \in S) THEN Cardinality(Holders)
                  ELSE IF to \in S THEN Cardinality(Holders) + 1
                                   ELSE Cardinality(Holders) - 1
<1> DEFINE S == OpenPcs \cup {"s_busy"}
<1>1. Holders = {q \in Procs : pc[q] \in S}
  BY DEF Holders, IsOpen
<1>2. Holders' = {q \in Procs : pc[q] \in S}'
  BY DEF Holders, IsOpen
<1> DEFINE T == {q \in Procs : pc[q] \in S}
<1> HIDE DEF S
<1>3. /\ Cardinality(T) \in Nat
      /\ Cardinality(T') =
           IF (to \in S) = (pc[p] \in S) THEN Cardinality(T)
           ELSE IF to \in S THEN Cardinality(T) + 1 ELSE Cardinality(T) - 1
  BY PlaceCount
<1>4. QED BY <1>1, <1>2, <1>3 DEF S

-----------------------------------------------------------------------------
(* Types, kinds and locks *)

(* The initial state. *)
LEMMA Initially == Init => IInv
<1> SUFFICES ASSUME Init PROVE IInv
  OBVIOUS
<1>1. Files = {} /\ Holders = {}
  BY DEF Init, Files, Holders, IsOpen, OpenPcs
<1>2. Cardinality({}) = 0
  BY FS_EmptySet
<1>3. Locking
  BY DEF Init, Locking, TypeOK, KindOK, SpinOK, Users, Pcs, WaitPcs
<1>4. Counting
  BY <1>1, <1>2
  DEF Init, Counting, CountOK, OwnerOK, HolderOK, GrabOK, IsOpen, OpenPcs
<1>5. SingleExclusive /\ WakeOK /\ AllocOK /\ OneDevicePerTty
  BY DEF Init, SingleExclusive, WakeOK, AllocOK, OneDevicePerTty, IsOpen, OpenPcs
<1>6. QED BY <1>3, <1>4, <1>5 DEF IInv

(* Types are kept; that a count is not taken below zero is what CountOK says *)
(* of the files there are.                                                   *)
LEMMA TypeStep == IInv /\ [Next]_vars => TypeOK'
<1> SUFFICES ASSUME IInv, [Next]_vars PROVE TypeOK'
  OBVIOUS
<1> USE DEF IInv, Locking
<1>1. CASE UNCHANGED vars
  BY <1>1 DEF TypeOK, vars, fixed, users, items
<1>2. CASE Next
  <2>1. PICK p \in Procs : Kernel(p) \/ Interrupted(p) \/ Call(p)
    BY <1>2 DEF Next
  <2>2. Tty[p] \in Keys /\ Uid[p] \in Users
    BY DEF Keys, Users
  <2>3. ASSUME NEW from, NEW to \in Pcs, Step(p, from, to)
        PROVE  pc' \in [Procs -> Pcs]
    BY <2>3 DEF Step, TypeOK
  <2>4. Opened(p) \in Pcs /\ {"closed", "s_busy", "w_count", "w_wake", "c_alloc"} \subseteq Pcs
        /\ {"open", "io", "w_prep", "w_test", "w_test2", "w_sleep", "w_lock"} \subseteq Pcs
    BY DEF Opened, Pcs, OpenPcs, WaitPcs
  <2> USE DEF TypeOK, fixed, users, items
  <2>5. CASE OpenSingle(p) \/ CloseSingle(p) \/ OpenBusy(p)
    <3>1. pc' \in [Procs -> Pcs]
      BY <2>3, <2>4, <2>5 DEF OpenSingle, CloseSingle, OpenBusy
    <3>2. QED BY <2>5, <3>1 DEF OpenSingle, CloseSingle, OpenBusy, GiveBack
  <2>6. CASE CloseUser(p) \/ CloseWait(p)
    <3>1. count > 0
      <4>1. PICK to : Step(p, "open", to) /\ device \in {"uid", "wuid"}
        BY <2>6 DEF CloseUser, CloseWait
      <4>2. pc[p] \in OpenPcs /\ pc' = [pc EXCEPT ![p] = to]
        BY <4>1 DEF Step, OpenPcs
      <4>3. QED BY <4>1, <4>2, FileCount DEF Counting, CountOK
    <3>2. pc' \in [Procs -> Pcs]
      BY <2>3, <2>4, <2>6 DEF CloseUser, CloseWait
    <3>3. QED BY <2>6, <3>1, <3>2 DEF CloseUser, CloseWait, CountOff
  <2>7. CASE OpenUser(p) \/ TryOpen(p) \/ OpenDenied(p) \/ CountOpen(p)
    <3>1. pc' \in [Procs -> Pcs]
      BY <2>3, <2>4, <2>7 DEF OpenUser, TryOpen, OpenDenied, CountOpen
    <3>2. QED BY <2>2, <2>7, <3>1 DEF OpenUser, TryOpen, OpenDenied, CountOpen, Grab
  <2>8. CASE WaitPrepare(p) \/ TestCount(p) \/ Woken(p) \/ Interrupted(p) \/ CloseWake(p)
    <3>1. pc' \in [Procs -> Pcs]
      BY <2>3, <2>4, <2>8 DEF WaitPrepare, TestCount, Woken, Interrupted, CloseWake
    <3>2. QED
      BY <2>8, <3>1 DEF WaitPrepare, TestCount, Woken, Interrupted, CloseWake, wake_up
  <2>9. CASE TestOwner(p)
    <3>1. pc' \in [Procs -> Pcs]
      BY <2>3, <2>4, <2>9 DEF TestOwner
    <3>2. QED BY <2>9, <3>1 DEF TestOwner
  <2>10. CASE OpenSleep(p) \/ ClosePriv(p)
    <3>1. pc' \in [Procs -> Pcs]
      BY <2>3, <2>4, <2>10 DEF OpenSleep, ClosePriv
    <3>2. QED BY <2>2, <2>10, <3>1 DEF OpenSleep, ClosePriv, KeepLock
  <2>11. CASE OpenFound(p)
    <3>1. \A i \in DOMAIN list : i \in Nat \ {0}
      OBVIOUS
    <3>2. file' \in [Procs -> Nat \ {0}]
      BY <2>11, <3>1 DEF OpenFound, Found
    <3>3. pc' \in [Procs -> Pcs]
      BY <2>3, <2>4, <2>11 DEF OpenFound
    <3>4. QED BY <2>11, <3>2, <3>3 DEF OpenFound
  <2>12. CASE OpenNew(p) \/ OpenSlept(p)
    <3>1. Append(list, Tty[p]) \in Seq(Keys) /\ Len(Append(list, Tty[p])) \in Nat \ {0}
      BY <2>2
    <3>2. ASSUME Add(p)
          PROVE  list' \in Seq(Keys) /\ file' \in [Procs -> Nat \ {0}]
      BY <3>1, <3>2 DEF Add
    <3>3. pc' \in [Procs -> Pcs]
      BY <2>3, <2>4, <2>12 DEF OpenNew, OpenSlept
    <3>4. QED BY <2>12, <3>2, <3>3 DEF OpenNew, OpenSlept
  <2>13. CASE Trimmed(p) \/ UseDevice(p) \/ Used(p)
    <3>1. pc' \in [Procs -> Pcs]
      BY <2>3, <2>4, <2>13 DEF Trimmed, UseDevice, Used
    <3>2. QED BY <2>13, <3>1 DEF Trimmed, UseDevice, Used
  <2>14. QED
    BY <2>1, <2>5, <2>6, <2>7, <2>8, <2>9, <2>10, <2>11, <2>12, <2>13
    DEF Kernel, Call
<1>3. QED BY <1>1, <1>2

(* Every device stays in its own part of the code. *)
LEMMA KindStep == IInv /\ [Next]_vars => KindOK'
<1> SUFFICES ASSUME IInv, [Next]_vars PROVE KindOK'
  OBVIOUS
<1> USE DEF IInv, Locking, TypeOK, KindOK, fixed, Step, Opened, WaitPcs
<1>1. CASE UNCHANGED vars
  BY <1>1 DEF vars
<1>2. CASE Next
  <2>1. PICK p \in Procs : Kernel(p) \/ Interrupted(p) \/ Call(p)
    BY <1>2 DEF Next
  <2>2. device' = device
    BY <2>1 DEF Kernel, Interrupted, Call, OpenBusy, CountOpen, WaitPrepare,
       TestCount, TestOwner, Woken, CloseWake, OpenSlept, Trimmed, Used, TryOpen,
       OpenDenied, OpenSingle, OpenUser, OpenFound, OpenNew, OpenSleep,
       UseDevice, CloseSingle, CloseUser, CloseWait, ClosePriv
  <2>3. CASE Kernel(p) \/ Interrupted(p)
    BY <2>2, <2>3 DEF Kernel, Interrupted, OpenBusy, CountOpen, WaitPrepare,
       TestCount, TestOwner, Woken, CloseWake, OpenSlept, Trimmed, Used, TryOpen,
       OpenDenied
  <2>4. CASE Call(p)
    BY <2>2, <2>4 DEF Call, TryOpen, OpenDenied, OpenSingle, OpenUser, OpenFound,
       OpenNew, OpenSleep, UseDevice, CloseSingle, CloseUser, CloseWait, ClosePriv
  <2>5. QED BY <2>1, <2>3, <2>4
<1>3. QED BY <1>1, <1>2

(* Nobody enters a section while another is in it. *)
LEMMA SpinStep == IInv /\ [Next]_vars => SpinOK'
<1> SUFFICES ASSUME IInv, [Next]_vars PROVE SpinOK'
  OBVIOUS
<1> USE DEF IInv, Locking, TypeOK, SpinOK, KindOK, fixed, Step, Opened
<1>1. CASE UNCHANGED vars
  BY <1>1 DEF vars
<1>2. CASE Next
  <2>1. PICK p \in Procs : Kernel(p) \/ Interrupted(p) \/ Call(p)
    BY <1>2 DEF Next
  <2>2. CASE TryOpen(p)
    BY <2>2, ProcsAssumption DEF TryOpen
  <2>3. CASE CountOpen(p) \/ OpenSlept(p)
    BY <2>3 DEF CountOpen, OpenSlept, WaitPcs
  <2>4. CASE OpenSleep(p)
    BY <2>4, ProcsAssumption DEF OpenSleep, KeepLock, WaitPcs
  <2>5. CASE OpenBusy(p) \/ WaitPrepare(p) \/ TestCount(p) \/ TestOwner(p)
             \/ Woken(p) \/ Interrupted(p) \/ CloseWake(p) \/ Trimmed(p) \/ Used(p)
    BY <2>5 DEF OpenBusy, WaitPrepare, TestCount, TestOwner, Woken, Interrupted,
       CloseWake, Trimmed, Used
  <2>6. CASE Call(p) /\ ~TryOpen(p) /\ ~OpenSleep(p)
    BY <2>6 DEF Call, OpenDenied, OpenSingle, OpenUser, OpenFound, OpenNew,
       UseDevice, CloseSingle, CloseUser, CloseWait, ClosePriv
  <2>7. QED
    BY <2>1, <2>2, <2>3, <2>4, <2>5, <2>6 DEF Kernel, Call
<1>3. QED BY <1>1, <1>2

-----------------------------------------------------------------------------
(* The counts *)

(* Every process that comes to have a file of sculluid or scullwuid, or      *)
(* ceases to, counts in the same step.                                       *)
LEMMA CountStep == IInv /\ [Next]_vars => CountOK'
<1> SUFFICES ASSUME IInv, [Next]_vars PROVE CountOK'
  OBVIOUS
<1> USE DEF IInv, Locking, TypeOK, KindOK, CountOK, Counting, fixed, users
<1>1. CASE UNCHANGED vars
  BY <1>1 DEF vars, Files, IsOpen
<1>2. CASE Next
  <2>1. PICK p \in Procs : Kernel(p) \/ Interrupted(p) \/ Call(p)
    BY <1>2 DEF Next
  <2> DEFINE F == Cardinality(Files)
  <2>2. /\ F \in Nat
        /\ \A to : pc' = [pc EXCEPT ![p] = to] =>
             F' = IF (to \in OpenPcs) = (pc[p] \in OpenPcs) THEN F
                  ELSE IF to \in OpenPcs THEN F + 1 ELSE F - 1
    <3>1. pc = [pc EXCEPT ![p] = pc[p]]
      OBVIOUS
    <3>2. F \in Nat
      BY ProcsAssumption, FS_Subset, FS_CardinalityType, Files \in SUBSET Procs DEF Files
    <3>3. QED BY <3>2, FileCount
  <2> HIDE DEF F
  <2>3. device \in {"uid", "wuid"} => count = F
    BY DEF F
  <2>4. SUFFICES device' \in {"uid", "wuid"} => count' = F'
    BY DEF F
  <2> USE DEF Step, OpenPcs
  <2>5. CASE OpenUser(p) \/ CountOpen(p)
    BY <2>2, <2>3, <2>5 DEF OpenUser, CountOpen, Opened
  <2>6. CASE CloseUser(p) \/ CloseWait(p)
    BY <2>2, <2>3, <2>6 DEF CloseUser, CloseWait, CountOff
  <2>7. CASE Kernel(p) /\ ~CountOpen(p)
    BY <2>2, <2>3, <2>7 DEF Kernel, OpenBusy, WaitPrepare, TestCount, TestOwner,
       Woken, CloseWake, OpenSlept, Trimmed, Used, TryOpen, OpenDenied
  <2>8. CASE Interrupted(p) \/ TryOpen(p) \/ OpenDenied(p) \/ UseDevice(p)
    BY <2>2, <2>3, <2>8 DEF Interrupted, TryOpen, OpenDenied, UseDevice
  <2>9. CASE OpenSingle(p) \/ CloseSingle(p) \/ OpenFound(p) \/ OpenNew(p)
             \/ OpenSleep(p) \/ ClosePriv(p)
    BY <2>9 DEF OpenSingle, CloseSingle, OpenFound, OpenNew, OpenSleep, ClosePriv
  <2>10. QED
    BY <2>1, <2>5, <2>6, <2>7, <2>8, <2>9 DEF Call
<1>3. QED BY <1>1, <1>2

(* The same for what is taken from scull_s_available. *)
LEMMA HolderStep == IInv /\ [Next]_vars => HolderOK'
<1> SUFFICES ASSUME IInv, [Next]_vars PROVE HolderOK'
  OBVIOUS
<1> USE DEF IInv, Locking, TypeOK, KindOK, HolderOK, Counting, fixed
<1>1. CASE UNCHANGED vars
  BY <1>1 DEF vars, Holders, IsOpen
<1>2. CASE Next
  <2>1. PICK p \in Procs : Kernel(p) \/ Interrupted(p) \/ Call(p)
    BY <1>2 DEF Next
  <2> DEFINE F == Cardinality(Holders)
             S == OpenPcs \cup {"s_busy"}
  <2>2. /\ F \in Nat
        /\ \A to : pc' = [pc EXCEPT ![p] = to] =>
             F' = IF (to \in S) = (pc[p] \in S) THEN F
                  ELSE IF to \in S THEN F + 1 ELSE F - 1
    <3>1. F \in Nat
      BY ProcsAssumption, FS_Subset, FS_CardinalityType, Holders \in SUBSET Procs
      DEF Holders
    <3>2. QED BY <3>1, HolderCount
  <2> HIDE DEF F
  <2>3. device = "single" => available = 1 - F
    BY DEF F
  <2>4. SUFFICES device' = "single" => available' = 1 - F'
    BY DEF F
  <2> USE DEF Step, OpenPcs
  <2>5. CASE OpenSingle(p) \/ OpenBusy(p) \/ CloseSingle(p)
    BY <2>2, <2>3, <2>5 DEF OpenSingle, OpenBusy, CloseSingle, Opened, GiveBack
  <2>6. CASE Trimmed(p) \/ UseDevice(p) \/ Used(p)
    <3>1. F' = F
      BY <2>2, <2>6 DEF Trimmed, UseDevice, Used
    <3>2. UNCHANGED <<device, available>>
      BY <2>6 DEF Trimmed, UseDevice, Used
    <3>3. QED BY <2>3, <3>1, <3>2
  <2>7. CASE \/ Interrupted(p)
             \/ Call(p) /\ ~OpenSingle(p) /\ ~CloseSingle(p) /\ ~UseDevice(p)
             \/ Kernel(p) /\ ~OpenBusy(p) /\ ~Trimmed(p) /\ ~Used(p)
    BY <2>7 DEF Call, Kernel, Interrupted, OpenUser, TryOpen, OpenDenied, OpenFound,
       OpenNew, OpenSleep, CloseUser, CloseWait, ClosePriv, CountOpen,
       WaitPrepare, TestCount, TestOwner, Woken, CloseWake, OpenSlept, WaitPcs
  <2>8. QED BY <2>1, <2>5, <2>6, <2>7
<1>3. QED BY <1>1, <1>2

(* The counter is 1 only when nobody has a file and nobody is about to give  *)
(* back what a failed open has taken.                                        *)
LEMMA SingleStep == IInv /\ [Next]_vars => SingleExclusive'
<1> SUFFICES ASSUME IInv, [Next]_vars PROVE SingleExclusive'
  OBVIOUS
<1> USE DEF IInv, Locking, TypeOK, KindOK, SingleExclusive, fixed
<1>1. CASE UNCHANGED vars
  BY <1>1 DEF vars, IsOpen
<1>2. CASE Next
  <2>1. PICK p \in Procs : Kernel(p) \/ Interrupted(p) \/ Call(p)
    BY <1>2 DEF Next
  <2>2. device = "single" /\ available = 1 => \A q \in Procs : ~IsOpen(q)
    <3>1. IsFiniteSet(Holders)
      BY ProcsAssumption, FS_Subset, Holders \in SUBSET Procs DEF Holders
    <3>2. Cardinality(Holders) \in Nat /\ (Cardinality(Holders) = 0 => Holders = {})
      BY <3>1, FS_CardinalityType, FS_EmptySet
    <3>3. device = "single" => available = 1 - Cardinality(Holders)
      BY DEF Counting, HolderOK
    <3>4. device = "single" /\ available = 1 => Holders = {}
      BY <3>2, <3>3
    <3>5. QED BY <3>4 DEF Holders
  <2> USE DEF Step, IsOpen, OpenPcs
  <2>3. CASE OpenSingle(p)
    BY <2>2, <2>3 DEF OpenSingle, DecAndTest
  <2>4. CASE Kernel(p)
    BY <2>4 DEF Kernel, OpenBusy, CountOpen, WaitPrepare, TestCount, TestOwner,
       Woken, CloseWake, OpenSlept, Trimmed, Used, TryOpen, OpenDenied
  <2>5. CASE Interrupted(p) \/ (Call(p) /\ ~OpenSingle(p))
    BY <2>5 DEF Call, Interrupted, OpenUser, TryOpen, OpenDenied, OpenFound,
       OpenNew, OpenSleep, UseDevice, CloseSingle, CloseUser, CloseWait, ClosePriv
  <2>6. QED BY <2>1, <2>3, <2>4, <2>5
<1>3. QED BY <1>1, <1>2

(* The owner changes only while nobody has the device open.  *)
LEMMA OwnerStep == IInv /\ [Next]_vars => OwnerOK'
<1> SUFFICES ASSUME IInv, [Next]_vars PROVE OwnerOK'
  OBVIOUS
<1> USE DEF IInv, Locking, TypeOK, KindOK, OwnerOK, Counting, fixed, users, allowed
<1>1. CASE UNCHANGED vars
  BY <1>1 DEF vars, IsOpen
<1>2. CASE Next
  <2>1. PICK p \in Procs : Kernel(p) \/ Interrupted(p) \/ Call(p)
    BY <1>2 DEF Next
  <2>2. device \in {"uid", "wuid"} /\ count = 0 => \A q \in Procs : ~IsOpen(q)
    BY FileCount, ProcsAssumption, FS_Subset, FS_EmptySet, Files \in SUBSET Procs
    DEF CountOK, Files
  <2> USE DEF Step, OpenPcs, IsOpen, Opened
  <2>3. CASE OpenUser(p)
    BY <2>2, <2>3 DEF OpenUser, Grab, WaitPcs
  <2>4. CASE TryOpen(p)
    <3>1. \A q \in Procs : pc[q] # "w_count"
      BY <2>4, ProcsAssumption DEF TryOpen, SpinOK
    <3>2. QED BY <2>2, <2>4, <3>1 DEF TryOpen, Grab, scull_w_available
  <2>5. CASE Kernel(p) /\ ~TryOpen(p)
    BY <2>5 DEF Kernel, OpenBusy, CountOpen, WaitPrepare, TestCount, TestOwner,
       Woken, CloseWake, OpenSlept, Trimmed, Used, OpenDenied
  <2>6. CASE Interrupted(p) \/ (Call(p) /\ ~OpenUser(p) /\ ~TryOpen(p))
    BY <2>6 DEF Call, Interrupted, OpenDenied, OpenSingle, OpenFound, OpenNew,
       OpenSleep, UseDevice, CloseSingle, CloseUser, CloseWait, ClosePriv
  <2>7. QED BY <2>1, <2>3, <2>4, <2>5, <2>6
<1>3. QED BY <1>1, <1>2

(* The count stays, and the owner, while a process is between the two.       *)
LEMMA GrabStep == IInv /\ [Next]_vars => GrabOK'
<1> SUFFICES ASSUME IInv, [Next]_vars PROVE GrabOK'
  OBVIOUS
<1> USE DEF IInv, Locking, TypeOK, KindOK, GrabOK, SpinOK, Counting, fixed, users
<1>1. CASE UNCHANGED vars
  BY <1>1 DEF vars
<1>2. CASE Next
  <2>1. PICK p \in Procs : Kernel(p) \/ Interrupted(p) \/ Call(p)
    BY <1>2 DEF Next
  <2> USE DEF Step, OpenPcs, Opened
  <2>2. CASE OpenUser(p) \/ CloseUser(p)
    BY <2>2 DEF OpenUser, CloseUser, WaitPcs
  <2>3. CASE TryOpen(p)
    BY <2>3, ProcsAssumption DEF TryOpen, Grab
  <2>4. CASE CountOpen(p) \/ CloseWait(p)
    <3>1. \A q \in Procs : pc[q] = "w_count" => q = p
      BY <2>4, ProcsAssumption DEF CountOpen, CloseWait
    <3>2. \A q \in Procs : pc'[q] # "w_count"
      BY <2>4, <3>1 DEF CountOpen, CloseWait
    <3>3. QED BY <3>2
  <2>5. CASE Kernel(p) /\ ~TryOpen(p) /\ ~CountOpen(p)
    BY <2>5 DEF Kernel, OpenBusy, WaitPrepare, TestCount, TestOwner,
       Woken, CloseWake, OpenSlept, Trimmed, Used, OpenDenied
  <2>6. CASE \/ Interrupted(p)
             \/ Call(p) /\ ~OpenUser(p) /\ ~CloseUser(p) /\ ~TryOpen(p) /\ ~CloseWait(p)
    BY <2>6 DEF Call, Interrupted, OpenDenied, OpenSingle, OpenFound, OpenNew,
       OpenSleep, UseDevice, CloseSingle, ClosePriv
  <2>7. QED BY <2>1, <2>2, <2>3, <2>4, <2>5, <2>6
<1>3. QED BY <1>1, <1>2

-----------------------------------------------------------------------------
(* The waiters of scullwuid *)

(* A count that was not zero becomes so only in a release that then wakes    *)
(* everyone; what has not been woken was put to sleep before that, and the   *)
(* owner changes only while the wake-up is still to come.                    *)
LEMMA WakeStep == IInv /\ [Next]_vars => WakeOK'
<1> SUFFICES ASSUME IInv, [Next]_vars PROVE WakeOK'
  OBVIOUS
<1> USE DEF IInv, Locking, TypeOK, KindOK, WakeOK, Pending, fixed, users,
            allowed, scull_w_available
<1>1. CASE UNCHANGED vars
  BY <1>1 DEF vars
<1>2. CASE Next
  <2>1. PICK p \in Procs : Kernel(p) \/ Interrupted(p) \/ Call(p)
    BY <1>2 DEF Next
  <2> USE DEF Step, Opened
  <2>2. CASE OpenUser(p) \/ CloseUser(p)
    BY <2>2 DEF OpenUser, CloseUser, WaitPcs
  <2>3. CASE TryOpen(p)
    <3>1. \A q \in Procs : q # p => pc'[q] = pc[q]
      BY <2>3 DEF TryOpen
    <3>2. Pending => Pending'
      BY <2>3 DEF TryOpen
    <3>3. wait' = wait /\ seen' = seen /\ count' = count
      BY <2>3 DEF TryOpen
    <3>4. pc'[p] = "w_count"
      BY <2>3 DEF TryOpen
    <3>5. CASE count = 0
      BY <3>1, <3>2, <3>3, <3>4, <3>5
    <3>6. CASE count # 0
      BY <2>3, <3>1, <3>2, <3>3, <3>4, <3>6 DEF TryOpen, Grab
    <3>7. QED BY <3>5, <3>6
  <2>4. CASE CountOpen(p)
    BY <2>4 DEF CountOpen
  <2>12. CASE CloseWait(p)
    <3>1. count' = 0 => Pending'
      BY <2>12 DEF CloseWait
    <3>2. Pending => Pending'
      BY <2>12 DEF CloseWait
    <3>3. \A q \in wait' : q # p => pc'[q] = pc[q] /\ q \in wait
      BY <2>12 DEF CloseWait
    <3>4. pc'[p] \in {"w_wake", "closed"}
      BY <2>12 DEF CloseWait
    <3>5. QED BY <2>12, <3>1, <3>2, <3>3, <3>4 DEF CloseWait
  <2>5. CASE CloseWake(p)
    BY <2>5 DEF CloseWake, wake_up
  <2>6. CASE WaitPrepare(p) \/ Woken(p) \/ Interrupted(p)
    BY <2>6 DEF WaitPrepare, Woken, Interrupted
  <2>7. CASE TestCount(p)
    BY <2>7 DEF TestCount
  <2>8. CASE TestOwner(p)
    BY <2>8 DEF TestOwner
  <2>9. CASE \/ OpenBusy(p) \/ OpenSlept(p) \/ Trimmed(p) \/ Used(p) \/ OpenDenied(p)
             \/ UseDevice(p)
    BY <2>9 DEF OpenBusy, OpenSlept, Trimmed, Used, OpenDenied, UseDevice
  <2>10. CASE \/ OpenSingle(p) \/ CloseSingle(p) \/ OpenFound(p) \/ OpenNew(p)
              \/ OpenSleep(p) \/ ClosePriv(p)
    BY <2>10 DEF OpenSingle, CloseSingle, OpenFound, OpenNew, OpenSleep, ClosePriv
  <2>11. QED
    BY <2>1, <2>2, <2>3, <2>4, <2>5, <2>6, <2>7, <2>8, <2>9, <2>10, <2>12 DEF Kernel, Call
<1>3. QED BY <1>1, <1>2

-----------------------------------------------------------------------------
(* The list of scullpriv *)

(* An item added at the end has a key no other has, or one that was slept on. *)
LEMMA Added ==
  ASSUME TypeOK, OneDevicePerTty, NEW p \in Procs, Add(p),
         Found(Tty[p]) = {} \/ (~smp /\ Tty[p] \in slept),
         smp' = smp, slept' = slept
  PROVE  /\ \A i, j \in DOMAIN list' :
              list'[i] = list'[j] => i = j \/ (~smp' /\ list'[i] \in slept')
         /\ \A q \in Procs : q # p /\ file[q] \in Found(Tty[q]) => file'[q] \in Found(Tty[q])'
         /\ file'[p] \in Found(Tty[p])'
         /\ \A key : key # Tty[p] /\ Found(key) = {} => Found(key)' = {}
<1>1. list \in Seq(Keys) /\ Tty[p] \in Keys
  BY DEF TypeOK, Keys
<1>2. /\ DOMAIN list' = 1 .. Len(list) + 1 /\ DOMAIN list = 1 .. Len(list)
      /\ list'[Len(list) + 1] = Tty[p] /\ Len(list) \in Nat
      /\ \A i \in DOMAIN list : list'[i] = list[i]
      /\ Len(list') = Len(list) + 1
  BY <1>1 DEF Add
<1>3. file'[p] = Len(list) + 1 /\ \A q \in Procs : q # p => file'[q] = file[q]
  BY <1>2 DEF Add, TypeOK
<1>4. \A i, j \in DOMAIN list : list[i] = list[j] => i = j \/ (~smp /\ list[i] \in slept)
  BY DEF OneDevicePerTty
<1>5. \A i \in DOMAIN list : list[i] = Tty[p] => ~smp /\ Tty[p] \in slept
  BY DEF Found
<1>6. QED BY <1>2, <1>3, <1>4, <1>5 DEF Found

(* The list gets no second item of a terminal under the lock.                *)
LEMMA ListStep == IInv /\ [Next]_vars => AllocOK' /\ OneDevicePerTty'
<1> SUFFICES ASSUME IInv, [Next]_vars PROVE AllocOK' /\ OneDevicePerTty'
  OBVIOUS
<1> USE DEF IInv, Locking, fixed, items
<1>1. CASE UNCHANGED vars
  BY <1>1 DEF vars, AllocOK, OneDevicePerTty, Found, IsOpen
<1>2. CASE Next
  <2>1. PICK p \in Procs : Kernel(p) \/ Interrupted(p) \/ Call(p)
    BY <1>2 DEF Next
  <2>2. pc \in [Procs -> Pcs] /\ file \in [Procs -> Nat \ {0}]
    BY DEF TypeOK
  <2> USE DEF Step, OpenPcs, IsOpen, Opened
  <2>3. CASE OpenFound(p)
    <3>1. AllocOK'
      BY <2>2, <2>3 DEF OpenFound, AllocOK, Found
    <3>2. QED BY <2>2, <2>3, <3>1 DEF OpenFound, OneDevicePerTty, Found
  <2>4. CASE OpenNew(p)
    <3>1. \A q \in Procs : pc[q] = "c_alloc" => ~smp /\ Tty[q] \in slept
      BY <2>4, ProcsAssumption DEF OpenNew, SpinOK, AllocOK
    <3>2. QED BY <2>2, <2>4, <3>1, Added DEF OpenNew, AllocOK, OneDevicePerTty
  <2>5. CASE OpenSleep(p)
    <3>1. AllocOK'
      BY <2>2, <2>5 DEF OpenSleep, AllocOK, Found
    <3>2. QED BY <2>2, <2>5, <3>1 DEF OpenSleep, OneDevicePerTty, Found
  <2>6. CASE Kernel(p) /\ Step(p, "c_alloc", Opened(p)) /\ Add(p)
    <3>1. Found(Tty[p]) = {} \/ (~smp /\ Tty[p] \in slept)
      BY <2>6 DEF AllocOK
    <3>2. \A q \in Procs : pc[q] = "c_alloc" /\ smp => q = p
      BY <2>6 DEF SpinOK
    <3>3. smp' = smp /\ slept' = slept /\ device' = device
      BY <2>2, <2>6 DEF Kernel, OpenBusy, CountOpen, WaitPrepare, TestCount,
         TestOwner, Woken, CloseWake, Trimmed, Used, TryOpen, OpenDenied, OpenSlept
    <3>4. AllocOK'
      BY <2>2, <2>6, <3>2, <3>3 DEF AllocOK
    <3>5. QED BY <2>2, <2>6, <3>1, <3>3, <3>4, Added DEF OneDevicePerTty
  <2>7. CASE Kernel(p) /\ ~(Step(p, "c_alloc", Opened(p)) /\ Add(p))
    <3>1. UNCHANGED <<device, smp, list, slept, file>>
      BY <2>7 DEF Kernel, OpenBusy, CountOpen, WaitPrepare, TestCount, TestOwner,
         Woken, CloseWake, Trimmed, Used, TryOpen, OpenDenied, OpenSlept
    <3>2. \A q \in Procs : pc'[q] = "c_alloc" => pc[q] = "c_alloc"
      BY <2>2, <2>7 DEF Kernel, OpenBusy, CountOpen, WaitPrepare, TestCount,
         TestOwner, Woken, CloseWake, Trimmed, Used, TryOpen, OpenDenied, OpenSlept
    <3>3. \A q \in Procs : device = "priv" /\ IsOpen(q)' => IsOpen(q)
      BY <2>2, <2>7 DEF Kernel, OpenBusy, CountOpen, WaitPrepare, TestCount,
         TestOwner, Woken, CloseWake, Trimmed, Used, TryOpen, OpenDenied,
         OpenSlept, KindOK
    <3>4. QED BY <3>1, <3>2, <3>3 DEF AllocOK, OneDevicePerTty, Found
  <2>8. CASE \/ Interrupted(p)
             \/ Call(p) /\ ~OpenFound(p) /\ ~OpenNew(p) /\ ~OpenSleep(p)
    BY <2>2, <2>8 DEF Call, Interrupted, OpenSingle, OpenUser, TryOpen, OpenDenied,
       UseDevice, CloseSingle, CloseUser, CloseWait, ClosePriv, AllocOK,
       OneDevicePerTty, Found
  <2>9. QED
    BY <2>1, <2>3, <2>4, <2>5, <2>6, <2>7, <2>8 DEF Kernel, OpenSlept
<1>3. QED BY <1>1, <1>2

-----------------------------------------------------------------------------
(* The rules *)

(* The set of those that have a file, as one process moves. *)
LEMMA FilesMoved ==
  ASSUME TypeOK, NEW p \in Procs, NEW from, NEW to, Step(p, from, to)
  PROVE  Files' = IF to \in OpenPcs THEN Files \cup {p} ELSE Files \ {p}
BY DEF TypeOK, Step, Files, IsOpen

(* The counts say whether anybody has a file. *)
LEMMA NobodyCounted ==
  ASSUME IInv
  PROVE  /\ device \in {"uid", "wuid"} => (count = 0 <=> Files = {})
         /\ device = "single" /\ available = 1 => Files = {}
<1>1. /\ IsFiniteSet(Files) /\ IsFiniteSet(Holders)
      /\ Files \subseteq Holders
  BY ProcsAssumption, FS_Subset, Files \in SUBSET Procs, Holders \in SUBSET Procs
  DEF Files, Holders
<1>2. /\ Cardinality(Files) = 0 <=> Files = {}
      /\ Cardinality(Holders) = 0 <=> Holders = {}
      /\ Cardinality(Holders) \in Nat
  BY <1>1, FS_EmptySet, FS_CardinalityType
<1>3. QED BY <1>1, <1>2 DEF IInv, Counting, CountOK, HolderOK

(* A step that leaves the files, and whose they are, as they were, is none   *)
(* for the rules.                                                            *)
LEMMA Unruled ==
  ASSUME Files' = Files, UNCHANGED <<device, smp, list, file>>,
         owner' = owner \/ Files = {}
  PROVE  UNCHANGED Rules!vars
BY DEF Rules!vars, User

(* The opens that admit a process, device by device. *)
LEMMA SingleRule ==
  ASSUME IInv, NEW p \in Procs, OpenSingle(p)
  PROVE  Rules!OpenSingle(p) \/ UNCHANGED Rules!vars
<1>1. pc[p] = "closed" /\ p \notin Files
  BY DEF OpenSingle, Step, Files, IsOpen, OpenPcs
<1>2. UNCHANGED <<device, smp, owner, list, file>> /\ device = "single"
  BY DEF OpenSingle, fixed, users, items
<1>3. CASE DecAndTest(available)
  <2>1. Files = {}
    BY <1>2, <1>3, NobodyCounted DEF DecAndTest, IInv, Locking, TypeOK
  <2>2. Files' = Files \cup {p}
    <3>1. Step(p, "closed", Opened(p)) /\ Opened(p) \in OpenPcs
      BY <1>3 DEF OpenSingle, Opened, OpenPcs
    <3>2. QED BY <3>1, FilesMoved DEF IInv, Locking
  <2>3. QED BY <1>1, <1>2, <2>1, <2>2 DEF Rules!OpenSingle, Rules!Enter, User
<1>4. CASE ~DecAndTest(available)
  <2>1. Files' = Files \ {p}
    <3>1. Step(p, "closed", "s_busy") /\ "s_busy" \notin OpenPcs
      BY <1>4 DEF OpenSingle, OpenPcs
    <3>2. QED BY <3>1, FilesMoved DEF IInv, Locking
  <2>2. QED BY <1>1, <1>2, <2>1, Unruled
<1>5. QED BY <1>3, <1>4

LEMMA UserRule ==
  ASSUME IInv, NEW p \in Procs, OpenUser(p) \/ CountOpen(p)
  PROVE  Rules!OpenUser(p)
<1>1. device \in {"uid", "wuid"}
  BY DEF OpenUser, CountOpen, IInv, Locking, KindOK, Step
<1>2. p \notin Files /\ Files' = Files \cup {p}
  <2>1. PICK from \in {"closed", "w_count"} : Step(p, from, Opened(p))
    BY DEF OpenUser, CountOpen
  <2>2. Opened(p) \in OpenPcs
    BY DEF Opened, OpenPcs
  <2>3. p \notin Files
    BY <2>1 DEF Step, Files, IsOpen, OpenPcs
  <2>4. QED BY <2>1, <2>2, <2>3, FilesMoved DEF IInv, Locking
<1>3. UNCHANGED <<device, smp, list, file>>
  BY DEF OpenUser, CountOpen, fixed, items
<1>4. Files = {} \/ owner \in {Uid[p], Euid[p]} \/ p \in Capable
  <2>1. count = 0 \/ allowed(p)
    BY <1>1 DEF OpenUser, CountOpen, IInv, Counting, OwnerOK, Step
  <2>2. QED BY <1>1, <2>1, NobodyCounted DEF allowed
<1>5. owner' = IF Files = {} THEN Uid[p] ELSE owner
  <2>1. CASE OpenUser(p)
    BY <1>1, <2>1, NobodyCounted DEF OpenUser, Grab
  <2>2. CASE CountOpen(p)
    BY <1>1, <2>2, NobodyCounted DEF CountOpen, IInv, Counting, GrabOK, Step
  <2>3. QED BY <2>1, <2>2
<1>6. QED BY <1>1, <1>2, <1>3, <1>4, <1>5 DEF Rules!OpenUser, Rules!Enter, User

LEMMA PrivRule ==
  ASSUME IInv, NEW p \in Procs,
         \/ OpenFound(p) \/ OpenNew(p)
         \/ OpenSlept(p) /\ Step(p, "c_alloc", Opened(p)) /\ Add(p)
  PROVE  Rules!OpenPriv(p)
<1>1. device = "priv" /\ UNCHANGED <<device, smp, owner>>
  BY DEF OpenFound, OpenNew, OpenSlept, IInv, Locking, KindOK, Step, fixed, users
<1>2. p \notin Files /\ Files' = Files \cup {p}
  <2>1. PICK from \in {"closed", "c_alloc"} : Step(p, from, Opened(p))
    BY DEF OpenFound, OpenNew
  <2>2. Opened(p) \in OpenPcs
    BY DEF Opened, OpenPcs
  <2>3. p \notin Files
    BY <2>1 DEF Step, Files, IsOpen, OpenPcs
  <2>4. QED BY <2>1, <2>2, <2>3, FilesMoved DEF IInv, Locking
<1>3. Tty[p] # NoTty
  BY DEF OpenFound, OpenNew, IInv, AllocOK, Step
<1>4. CASE OpenFound(p)
  BY <1>1, <1>2, <1>3, <1>4 DEF OpenFound, Found, Rules!OpenPriv, Rules!Enter, User
<1>5. CASE Add(p) /\ \A i \in DOMAIN list : list[i] = Tty[p] => ~smp
  <2>1. list \in Seq(Keys) /\ Tty[p] \in Keys
    BY DEF IInv, Locking, TypeOK, Keys
  <2>2. /\ list' = Append(list, Tty[p]) /\ DOMAIN list' = 1 .. Len(list')
        /\ Len(list') \in Nat \ {0} /\ list'[Len(list')] = Tty[p]
    BY <1>5, <2>1 DEF Add
  <2>3. file' = [file EXCEPT ![p] = Len(list')]
    BY <1>5 DEF Add
  <2>4. \E i \in DOMAIN list' :
          /\ list'[i] = Tty[p]
          /\ \A j \in DOMAIN list' : list'[j] = Tty[p] => j <= i
          /\ file' = [file EXCEPT ![p] = i]
    <3> DEFINE n == Len(list')
    <3>1. n \in DOMAIN list' /\ \A j \in DOMAIN list' : j <= n
      BY <2>2
    <3>2. QED BY <2>2, <2>3, <3>1
  <2>5. list' = Append(list, Tty[p])
    BY <2>2
  <2>6. UNCHANGED <<device, smp, User>>
    BY <1>1 DEF User
  <2>7. QED
    BY <1>1, <1>2, <1>3, <1>5, <2>4, <2>5, <2>6 DEF Rules!OpenPriv, Rules!Enter
<1>6. CASE OpenNew(p)
  BY <1>5, <1>6 DEF OpenNew, Found
<1>7. CASE OpenSlept(p) /\ Step(p, "c_alloc", Opened(p)) /\ Add(p)
  BY <1>5, <1>7 DEF IInv, AllocOK, Found, Step
<1>8. QED BY <1>4, <1>6, <1>7

(* A release is one, in its first step. *)
LEMMA CloseRule ==
  ASSUME IInv, NEW p \in Procs,
         CloseSingle(p) \/ CloseUser(p) \/ CloseWait(p) \/ ClosePriv(p)
  PROVE  Rules!Close(p)
<1>1. p \in Files /\ Files' = Files \ {p}
  <2>1. PICK to \in {"closed", "w_wake"} : Step(p, "open", to)
    BY DEF CloseSingle, CloseUser, CloseWait, ClosePriv
  <2>2. to \notin OpenPcs /\ "open" \in OpenPcs
    BY DEF OpenPcs
  <2>3. QED BY <2>1, <2>2, FilesMoved DEF IInv, Locking, Step, Files, IsOpen
<1>2. UNCHANGED <<device, smp, owner, list, file>>
  BY DEF CloseSingle, CloseUser, CloseWait, ClosePriv, fixed, users, items
<1>3. QED BY <1>1, <1>2 DEF Rules!Close, User

(* Everything else changes nothing that the rules are about; the owner that  *)
(* TryOpen writes is nobody's yet.                                           *)
LEMMA NoRule ==
  ASSUME IInv, NEW p \in Procs,
         \/ OpenBusy(p) \/ TryOpen(p) \/ OpenDenied(p) \/ WaitPrepare(p)
         \/ TestCount(p) \/ TestOwner(p) \/ Woken(p) \/ Interrupted(p)
         \/ CloseWake(p) \/ OpenSleep(p)
         \/ OpenSlept(p) /\ Step(p, "c_alloc", "closed") /\ UNCHANGED <<list, file>>
  PROVE  UNCHANGED Rules!vars
<1>1. Files' = Files
  <2>1. PICK from \in Pcs \ OpenPcs, to \in Pcs \ OpenPcs : Step(p, from, to)
    BY DEF OpenBusy, TryOpen, OpenDenied, WaitPrepare, TestCount, TestOwner,
       Woken, Interrupted, CloseWake, OpenSleep, Pcs, WaitPcs, OpenPcs
  <2>2. QED BY <2>1, FilesMoved DEF IInv, Locking, Step, Files, IsOpen
<1>2. UNCHANGED <<device, smp, list, file>>
  BY DEF OpenBusy, TryOpen, OpenDenied, WaitPrepare, TestCount, TestOwner,
     Woken, Interrupted, CloseWake, OpenSleep, OpenSlept, fixed, items
<1>3. owner' = owner \/ Files = {}
  <2>1. CASE TryOpen(p)
    BY <2>1, NobodyCounted DEF TryOpen, Grab
  <2>2. CASE ~TryOpen(p)
    BY <2>2 DEF OpenBusy, OpenDenied, WaitPrepare, TestCount, TestOwner,
       Woken, Interrupted, CloseWake, OpenSleep, OpenSlept, users
  <2>3. QED BY <2>1, <2>2
<1>4. QED BY <1>1, <1>2, <1>3, Unruled

(* A file in use stays a file. *)
LEMMA UseRule ==
  ASSUME IInv, NEW p \in Procs, Trimmed(p) \/ UseDevice(p) \/ Used(p)
  PROVE  UNCHANGED Rules!vars
<1>1. Files' = Files
  <2>1. PICK from \in OpenPcs, to \in OpenPcs : Step(p, from, to)
    BY DEF Trimmed, UseDevice, Used, OpenPcs
  <2>2. QED BY <2>1, FilesMoved DEF IInv, Locking, Step, Files, IsOpen
<1>2. UNCHANGED <<device, smp, owner, list, file>>
  BY DEF Trimmed, UseDevice, Used, fixed, users, items
<1>3. QED BY <1>1, <1>2, Unruled

(* So every step is one of the rules, or none. *)
LEMMA RulesStep == IInv /\ [Next]_vars => [Rules!Next]_(Rules!vars)
<1> SUFFICES ASSUME IInv, [Next]_vars PROVE [Rules!Next]_(Rules!vars)
  OBVIOUS
<1>1. CASE UNCHANGED vars
  BY <1>1 DEF vars, fixed, users, items, Rules!vars, User, Files, IsOpen
<1>2. CASE Next
  <2>1. PICK p \in Procs : Kernel(p) \/ Interrupted(p) \/ Call(p)
    BY <1>2 DEF Next
  <2>2. \/ Rules!OpenSingle(p) \/ Rules!OpenUser(p) \/ Rules!OpenPriv(p)
        \/ Rules!Close(p) \/ UNCHANGED Rules!vars
    <3>1. CASE Kernel(p)
      BY <2>1, <3>1, UserRule, PrivRule, NoRule, UseRule DEF Kernel, OpenSlept
    <3>2. CASE Interrupted(p)
      BY <3>2, NoRule
    <3>3. CASE Call(p)
      BY <3>3, SingleRule, UserRule, PrivRule, CloseRule, NoRule, UseRule DEF Call
    <3>4. QED BY <2>1, <3>1, <3>2, <3>3
  <2>3. QED BY <2>2 DEF Rules!Next
<1>3. QED BY <1>1, <1>2

-----------------------------------------------------------------------------
(* The theorems *)

(* The invariant is inductive. *)
LEMMA Inductive == IInv /\ [Next]_vars => IInv'
BY TypeStep, KindStep, SpinStep, CountStep, OwnerStep, HolderStep, GrabStep,
   SingleStep, WakeStep, ListStep
DEF IInv, Locking, Counting

(* It holds in every state of every behaviour. *)
THEOREM Invariance == Spec => []IInv
<1>1. QED BY Initially, Inductive, PTL DEF Spec

(* The types of the variables; in particular no release takes a count below  *)
(* zero.                                                                     *)
THEOREM TypeCorrect == Spec => []TypeOK
<1>1. IInv => TypeOK
  BY DEF IInv, Locking
<1>2. QED BY <1>1, Invariance, PTL

(* Two files are never open on scullsingle.                                  *)
THEOREM NeverTwoFiles == Spec => []SingleExclusive
<1>1. IInv => SingleExclusive
  BY DEF IInv
<1>2. QED BY <1>1, Invariance, PTL

(* scull_s_available is 1 less what is open or about to give back.           *)
THEOREM CounterComesBack == Spec => []AvailableExact
<1>1. IInv => AvailableExact
  BY DEF IInv, Counting, HolderOK, Holders, AvailableExact
<1>2. QED BY <1>1, Invariance, PTL

(* sculluid and scullwuid are open to one user, and to root, at a time.      *)
THEOREM OneUserAtATime == Spec => []SameUser
<1>1. IInv => SameUser
  BY DEF IInv, Counting, CountOK, OwnerOK, Files, SameUser
<1>2. QED BY <1>1, Invariance, PTL

(* The unlocked test of scull_w_open loses no wake-up.                       *)
THEOREM NoOpenerWakeupLost == Spec => []NoLostOpener
<1>1. IInv => NoLostOpener
  BY DEF IInv, WakeOK, Pending, NoLostOpener
<1>2. QED BY <1>1, Invariance, PTL

(* A terminal has one device, but for a kmalloc that slept without a lock.   *)
THEOREM PrivateDevice == Spec => []OneDevicePerTty
<1>1. IInv => OneDevicePerTty
  BY DEF IInv
<1>2. QED BY <1>1, Invariance, PTL

(* The counters of access.c, its locks and its queue admit whom the rules of *)
(* AccessRules admit, and nobody else.                                       *)
THEOREM CodeFollowsRules == Spec => ImplementsRules
<1>1. Init => Rules!Init
  BY DEF Init, Rules!Init, Files, User, IsOpen, OpenPcs
<1>2. QED
  BY <1>1, Invariance, RulesStep, PTL DEF Spec, ImplementsRules, Rules!Spec

(* On scullsingle the trim of scull_open, which takes no mutex, meets no read *)
(* and no write: there is no second file.  The other devices admit one.      *)
THEOREM SingleTrimsAlone == Spec => [](device = "single" => TrimExcludesIO)
<1>1. SingleExclusive => (device = "single" => TrimExcludesIO)
  BY DEF SingleExclusive, TrimExcludesIO, IsOpen, OpenPcs
<1>2. QED BY <1>1, NeverTwoFiles, PTL
=============================================================================
