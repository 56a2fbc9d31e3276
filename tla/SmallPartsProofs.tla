-------------------------- MODULE SmallPartsProofs --------------------------
(***************************************************************************)
(* Theorems about parts of SmallParts, for any processes and constants: an *)
(* exchange of a setting hands back what it replaced (ScullIoctl), blocks  *)
(* outlive the callbacks that use them (Jit), no byte outside of their     *)
(* memory is copied (GlobalMem, Silly), nobody but the dead blocks others  *)
(* (Scull03), and files in /proc show each device once (SeqFiles).         *)
(***************************************************************************)
EXTENDS SmallParts, TLAPS

\* A step of the composition is a step of each part, or leaves it alone.
LEMMA Frame ==
  [PartsNext]_all =>
    /\ ioctl!Next \/ UNCHANGED ioctl!vars
    /\ jit!Next \/ UNCHANGED jit!vars
    /\ globalmem!Next \/ UNCHANGED globalmem!vars
    /\ silly!Next \/ UNCHANGED silly!vars
    /\ scull03!Next \/ UNCHANGED scull03!vars
    /\ seq!Next \/ UNCHANGED seq!vars
BY DEF PartsNext, Others, all,
       ioctl!vars, jit!vars, globalmem!vars, silly!vars, scull03!vars, seq!vars

-----------------------------------------------------------------------------
(* The exchange and the shift of scull_ioctl. *)

\* What a call has loaded is still the setting until somebody overtakes it.
LoadedOK ==
  \A p \in Procs :
    ioctl_pc[p] \in {"exchange", "shift"} => tmp[p] = setting[on[p]] \/ p \in overtaken

IoctlInv == ioctl!TypeOK /\ LoadedOK /\ ioctl!OldValueKept

\* What a setting can be: what is passed, what a fault leaves, the module's parameters
\* and the defaults.
LEMMA IntsAre ==
  /\ ioctl!Ints = Values \cup {Zero, Quantum0, Qset0, QuantumDefault, QsetDefault}
  /\ Setting(Quantum0, Qset0) \in [ioctl!Settings -> ioctl!Ints]
  /\ Setting(QuantumDefault, QsetDefault) \in [ioctl!Settings -> ioctl!Ints]
BY DEF ioctl!Ints, ioctl!Settings, Setting

\* A store makes everybody who has loaded the setting a call that was overtaken.
LEMMA StoreKeeps ==
  ASSUME IoctlInv, NEW p \in Procs, NEW s \in ioctl!Settings,
         NEW v \in ioctl!Ints, ioctl!Store(p, s, v)
  PROVE  /\ setting' \in [ioctl!Settings -> ioctl!Ints]
         /\ overtaken' \subseteq Procs /\ overtaken \subseteq overtaken'
         /\ \A q \in Procs \ {p} :
              ioctl_pc[q] \in {"exchange", "shift"} =>
                tmp[q] = setting'[on[q]] \/ q \in overtaken'
BY DEF IoctlInv, ioctl!TypeOK, LoadedOK, ioctl!Store

\* Every step of a call keeps the invariant.
LEMMA IoctlKeeps ==
  ASSUME IoctlInv, NEW p \in Procs,
         \/ ioctl!Reset(p) \/ ioctl!Set(p) \/ ioctl!Load(p)
         \/ ioctl!Replace(p) \/ ioctl!Fail(p) \/ ioctl!Reply(p)
  PROVE  IoctlInv'
<1>. USE DEF IoctlInv, ioctl!TypeOK, LoadedOK, ioctl!OldValueKept, ioctl!Goto, ioctl!local,
         ioctl!Forget
<1>1. CASE ioctl!Reset(p)
  <2>1. PICK s \in ioctl!Settings, v \in ioctl!Ints :
          ioctl!Store(p, s, v) /\ ioctl_pc[p] \in {"out", "reset"}
    BY <1>1, IntsAre DEF ioctl!Reset, ioctl!Settings
  <2>. QED  BY <1>1, <2>1, StoreKeeps DEF ioctl!Reset
<1>2. CASE ioctl!Set(p)
  <2>1. PICK s \in ioctl!Settings, v \in Values \cup {Zero} : ioctl!Store(p, s, v)
    BY <1>2 DEF ioctl!Set
  <2>. QED  BY <1>2, <2>1, StoreKeeps, IntsAre DEF ioctl!Set
<1>3. CASE ioctl!Load(p)
  <2>1. PICK s \in ioctl!Settings, op \in {"exchange", "shift"} :
          /\ ioctl!Goto(p, "out", op)
          /\ on' = [on EXCEPT ![p] = s] /\ tmp' = [tmp EXCEPT ![p] = setting[s]]
    BY <1>3 DEF ioctl!Load, ioctl!Old
  <2>. QED  BY <1>3, <2>1 DEF ioctl!Load
<1>4. CASE ioctl!Replace(p)
  <2>1. PICK v \in Values : ioctl!Store(p, on[p], v)
    BY <1>4 DEF ioctl!Replace
  <2>2. ioctl_pc[p] \in {"exchange", "shift"} /\ ioctl_pc' = [ioctl_pc EXCEPT ![p] = "reply"]
    BY <1>4 DEF ioctl!Replace
  <2>3. tmp[p] = replaced'[p] \/ p \in overtaken
    BY <1>4, <2>2 DEF ioctl!Replace
  <2>. QED  BY <1>4, <2>1, <2>2, <2>3, StoreKeeps, IntsAre DEF ioctl!Replace
<1>5. CASE ioctl!Fail(p)
  <2>1. ioctl!Store(p, on[p], Zero)
    BY <1>5 DEF ioctl!Fail
  <2>. QED  BY <1>5, <2>1, StoreKeeps, IntsAre DEF ioctl!Fail, ioctl!Settings
<1>6. CASE ioctl!Reply(p)
  BY <1>6, IntsAre DEF ioctl!Reply, ioctl!Settings
<1>. QED  BY <1>1, <1>2, <1>3, <1>4, <1>5, <1>6

\* The invariant is inductive.
LEMMA IoctlInvariance == PartsSpec => []IoctlInv
<1>1. PartsInit => IoctlInv
  BY IntsAre DEF PartsInit, ioctl!Init, IoctlInv, ioctl!TypeOK, LoadedOK, ioctl!OldValueKept,
         ioctl!Settings
<1>2. IoctlInv /\ [PartsNext]_all => IoctlInv'
  <2>. SUFFICES ASSUME IoctlInv, [PartsNext]_all PROVE IoctlInv'  OBVIOUS
  <2>1. CASE UNCHANGED ioctl!vars
    BY <2>1 DEF ioctl!vars, IoctlInv, ioctl!TypeOK, LoadedOK, ioctl!OldValueKept
  <2>2. CASE ioctl!Next
    BY <2>2, IoctlKeeps DEF ioctl!Next, ioctl!Call
  <2>. QED  BY <2>1, <2>2, Frame
<1>. QED  BY <1>1, <1>2, PTL DEF PartsSpec

\* For any processes, privileges and values: what SCULL_IOCX and SCULL_IOCH hand back
\* is what their own store has replaced, unless another store came between.
THEOREM ExchangeExact == PartsSpec => []OldValueKept
<1>1. IoctlInv => OldValueKept
  BY DEF IoctlInv, OldValueKept
<1>. QED  BY IoctlInvariance, <1>1, PTL

-----------------------------------------------------------------------------
(* The timers and tasklets of jit.c. *)

\* A reader has a block while it is in the call, and nobody else has it.
DataOK ==
  /\ \A p \in Procs : jit_data[p] # None <=> jit_pc[p] \notin {"closed", "open"}
  /\ \A p, q \in Procs : jit_data[p] # None /\ jit_data[p] = jit_data[q] => p = q

\* A block is kept by the reader who has it or by the signal that took one away.
BlocksOK ==
  /\ \A p \in Procs : jit_data[p] # None => mem[jit_data[p]] = "used" /\ jit_data[p] \notin left
  /\ \A b \in left : mem[b] = "used"
  /\ \A b \in Blocks :
       /\ mem[b] = "free" => callback[b] = "none"
       /\ mem[b] = "freed" => callback[b] \in {"wake", "unlock"}
       /\ mem[b] = "used" => b \in left \/ \E p \in Procs : jit_data[p] = b

\* The callback has lines to print exactly as long as it has not got to its wake-up,
\* and only a signal lets a reader go before.
LoopsOK ==
  /\ \A b \in Blocks : callback[b] \in {"pending", "count"} =>
       loops[b] > 0 /\ (b \in left \/ \E p \in Procs : jit_data[p] = b)
  /\ \A p \in Procs : jit_pc[p] = "finish" => p \in jit_signals \/ loops[jit_data[p]] = 0

JitInv == jit!TypeOK /\ DataOK /\ BlocksOK /\ LoopsOK

\* Before the module is loaded there is nothing.
LEMMA JitInit == ASSUME jit!Init PROVE JitInv
<1>1. jit!TypeOK
  <2>1. 0 \in 0..Loops  BY LoopsAssumption
  <2>. QED  BY <2>1 DEF jit!Init, jit!TypeOK
<1>2. DataOK                BY DEF jit!Init, DataOK
<1>3. BlocksOK /\ LoopsOK   BY DEF jit!Init, BlocksOK, LoopsOK
<1>. QED  BY <1>1, <1>2, <1>3 DEF JitInv

\* Loading and unloading find no reader in a call and leave the blocks alone.
LEMMA JitModuleKeeps ==
  ASSUME JitInv, jit!Load \/ jit!Unload
  PROVE  JitInv'
<1>. USE DEF JitInv, jit!TypeOK, DataOK, BlocksOK, LoopsOK
<1>1. CASE jit!Load    BY <1>1 DEF jit!Load
<1>2. CASE jit!Unload  BY <1>2 DEF jit!Unload
<1>. QED  BY <1>1, <1>2

\* So do the steps of a reader that leave blocks and callbacks alone.
LEMMA JitWaitKeeps ==
  ASSUME JitInv, NEW p \in Procs,
         jit!Open(p) \/ jit!Close(p) \/ jit!Prepare(p) \/ jit!Test(p) \/ jit!Wake(p) \/ jit!Signal(p)
  PROVE  JitInv'
<1>. USE LoopsAssumption DEF JitInv, jit!TypeOK, DataOK, BlocksOK, LoopsOK, jit!Goto
<1>1. CASE jit!Open(p)    BY <1>1 DEF jit!Open
<1>2. CASE jit!Close(p)   BY <1>2 DEF jit!Close
<1>3. CASE jit!Prepare(p) BY <1>3 DEF jit!Prepare
<1>4. CASE jit!Test(p)    BY <1>4 DEF jit!Test, jit!Over
<1>5. CASE jit!Wake(p)    BY <1>5 DEF jit!Wake
<1>6. CASE jit!Signal(p)  BY <1>6 DEF jit!Signal
<1>. QED  BY <1>1, <1>2, <1>3, <1>4, <1>5, <1>6

\* A call that begins takes a block that nobody has and no callback touches.
LEMMA JitShowKeeps ==
  ASSUME JitInv, NEW p \in Procs, jit!Show(p)
  PROVE  JitInv'
<1>. USE LoopsAssumption DEF JitInv, jit!TypeOK, DataOK, BlocksOK, LoopsOK, jit!Goto
<1>1. PICK b \in Blocks :
        /\ mem[b] = "free" /\ mem' = [mem EXCEPT ![b] = "used"]
        /\ jit_data' = [jit_data EXCEPT ![p] = b]
        /\ loops' = [loops EXCEPT ![b] = Loops]
        /\ callback' = [callback EXCEPT ![b] = "pending"]
  BY DEF jit!Show
<1>2. b \notin left /\ \A q \in Procs : jit_data[q] # b
  BY <1>1
<1>. QED  BY <1>1, <1>2 DEF jit!Show

\* A call that ends without a signal has seen loops at zero: its callback is past
\* its last line, and what is left of it is the wake-up.
LEMMA JitFinishKeeps ==
  ASSUME JitInv, NEW p \in Procs, jit!Finish(p)
  PROVE  JitInv'
<1>. USE LoopsAssumption DEF JitInv, jit!TypeOK, DataOK, BlocksOK, LoopsOK, jit!Goto
<1>1. PICK b \in Blocks : b = jit_data[p] /\ mem[b] = "used" /\ b \notin left
  BY DEF jit!Finish
<1>2. CASE p \in jit_signals
  BY <1>1, <1>2 DEF jit!Finish
<1>3. CASE p \notin jit_signals
  <2>1. callback[b] \notin {"pending", "count"}
    BY <1>1, <1>3 DEF jit!Finish
  <2>. QED  BY <1>1, <1>3, <2>1 DEF jit!Finish
<1>. QED  BY <1>2, <1>3

\* The callback counts down to zero and does not go on from there.
LEMMA JitCallbackKeeps ==
  ASSUME JitInv, NEW b \in Blocks, jit!Callback(b)
  PROVE  JitInv'
<1>. USE LoopsAssumption DEF JitInv, jit!TypeOK, DataOK, BlocksOK, LoopsOK, jit!Step
<1>1. CASE jit!PrintLine(b)  BY <1>1 DEF jit!PrintLine
<1>2. CASE jit!Count(b)      BY <1>2 DEF jit!Count
<1>3. CASE jit!WakeUp(b)     BY <1>3 DEF jit!WakeUp, jit!Woken
<1>4. CASE jit!Unlock(b)     BY <1>4 DEF jit!Unlock
<1>. QED  BY <1>1, <1>2, <1>3, <1>4 DEF jit!Callback

\* The invariant is inductive.
LEMMA JitInvariance == PartsSpec => []JitInv
<1>1. PartsInit => JitInv
  BY JitInit DEF PartsInit
<1>2. JitInv /\ [PartsNext]_all => JitInv'
  <2>. SUFFICES ASSUME JitInv, [PartsNext]_all PROVE JitInv'  OBVIOUS
  <2>1. CASE UNCHANGED jit!vars
    BY <2>1 DEF jit!vars, JitInv, jit!TypeOK, DataOK, BlocksOK, LoopsOK
  <2>2. CASE jit!Next
    BY <2>2, JitModuleKeeps, JitWaitKeeps, JitShowKeeps, JitFinishKeeps, JitCallbackKeeps
       DEF jit!Next, jit!Call
  <2>. QED  BY <2>1, <2>2, Frame
<1>. QED  BY <1>1, <1>2, PTL DEF PartsSpec

\* For any readers, blocks and number of loops: the block, the file and the module
\* outlive the lines the callback prints, signals excepted, and a block that has been
\* freed is touched only by the wake-up the callback ends with.
THEOREM BlocksOutlive == PartsSpec => []OutlivesExplained
<1>1. JitInv => OutlivesExplained
  BY DEF JitInv, BlocksOK, LoopsOK, OutlivesExplained, jit!OutlivesExplained
<1>. QED  BY JitInvariance, <1>1, PTL

-----------------------------------------------------------------------------
(* The positions of globalmem.c. *)

\* What a call is going to copy is inside; what it is going to store is in the
\* file, or there has been a race; the sum a seek has tested was in the file.
PlacesOK ==
  \A t \in Procs :
    /\ gm_pc[t] = "copy" => gm_p[t] \in 0..Size /\ count[t] >= 0 /\ gm_p[t] + count[t] <= Size
    /\ gm_pc[t] = "store" => gm_p[t] + count[t] \in 0..Size \/ raced
    /\ gm_pc[t] = "add" => checked[t] + count[t] \in 0..Size

MemInv == globalmem!TypeOK /\ PlacesOK /\ globalmem!PositionExplained

\* A position below zero becomes a huge one in the driver.
LEMMA UnsignedPosition ==
  ASSUME NEW n \in -MaxPos..MaxPos, globalmem!Unsigned(n) < Size
  PROVE  n \in 0..Size
<1>. USE MemoryAssumption DEF globalmem!Unsigned
<1>1. CASE n < 0
  <2>1. (n + ULong) \in 0..ULong - 1 /\ n + ULong >= Size
    BY <1>1
  <2>2. n % ULong = n + ULong
    BY <1>1, <2>1
  <2>. QED  BY <2>1, <2>2
<1>2. CASE n >= 0
  <2>1. n % ULong = n
    BY <1>2
  <2>. QED  BY <1>2, <2>1
<1>. QED  BY <1>1, <1>2

\* A count is cut to what the memory has behind the position.
LEMMA CutInside ==
  ASSUME NEW s \in Sizes, NEW n \in 0..Size
  PROVE  /\ globalmem!Cut(s, n) \in Int /\ globalmem!Cut(s, n) >= 0
         /\ n + globalmem!Cut(s, n) <= Size
<1>1. s % UInt \in Nat
  BY MemoryAssumption
<1>. QED  BY <1>1, MemoryAssumption DEF globalmem!Cut

\* Loading, opening and closing move the position only back to the start.
LEMMA FileKeeps ==
  ASSUME MemInv, globalmem!Load \/ globalmem!Exit \/ globalmem!Open \/ globalmem!Release
  PROVE  MemInv'
<1>. USE MemoryAssumption DEF MemInv, globalmem!TypeOK, PlacesOK,
                              globalmem!PositionExplained
<1>1. CASE globalmem!Load     BY <1>1 DEF globalmem!Load
<1>2. CASE globalmem!Exit     BY <1>2 DEF globalmem!Exit
<1>3. CASE globalmem!Open     BY <1>3 DEF globalmem!Open
<1>4. CASE globalmem!Release
  <2>1. 0 \in 0..Size /\ 0 \in -MaxPos..MaxPos
    OBVIOUS
  <2>2. gm_f_pos' \in 0..Size /\ gm_f_pos' \in -MaxPos..MaxPos
    BY <1>4, <2>1 DEF globalmem!Release
  <2>3. globalmem!TypeOK'
    BY <1>4, <2>2 DEF globalmem!Release
  <2>4. PlacesOK'
    BY <1>4 DEF globalmem!Release
  <2>. QED  BY <2>2, <2>3, <2>4
<1>. QED  BY <1>1, <1>2, <1>3, <1>4

\* A read or write begins inside, or with nothing to copy.
LEMMA FetchKeeps ==
  ASSUME MemInv, NEW t \in Procs, globalmem!Fetch(t)
  PROVE  MemInv'
<1>. USE DEF MemInv, globalmem!TypeOK, PlacesOK, globalmem!PositionExplained,
             globalmem!Goto, globalmem!module
<1>1. CASE globalmem!Unsigned(gm_f_pos) >= Size
  BY <1>1 DEF globalmem!Fetch
<1>2. CASE ~(globalmem!Unsigned(gm_f_pos) >= Size)
  <2>1. gm_f_pos \in 0..Size
    <3>1. globalmem!Unsigned(gm_f_pos) \in Int
      BY MemoryAssumption DEF globalmem!Unsigned
    <3>. QED  BY <1>2, <3>1, UnsignedPosition, MemoryAssumption
  <2>2. PICK s \in Sizes : count' = [count EXCEPT ![t] = globalmem!Cut(s, gm_f_pos)]
    BY <1>2 DEF globalmem!Fetch
  <2>3. /\ globalmem!Cut(s, gm_f_pos) \in Int /\ globalmem!Cut(s, gm_f_pos) >= 0
        /\ gm_f_pos + globalmem!Cut(s, gm_f_pos) <= Size
    BY <2>1, CutInside
  <2>. QED  BY <1>2, <2>1, <2>2, <2>3 DEF globalmem!Fetch
<1>. QED  BY <1>1, <1>2

\* It ends inside, or where it began.
LEMMA CopyKeeps ==
  ASSUME MemInv, NEW t \in Procs, globalmem!Copy(t) \/ globalmem!Store(t)
  PROVE  MemInv'
<1>. USE MemoryAssumption
     DEF MemInv, globalmem!TypeOK, PlacesOK, globalmem!PositionExplained, globalmem!Goto,
         globalmem!Forget, globalmem!module
<1>1. CASE globalmem!Copy(t)   BY <1>1 DEF globalmem!Copy
<1>2. CASE globalmem!Store(t)  BY <1>2 DEF globalmem!Store
<1>. QED  BY <1>1, <1>2

\* A seek goes to where it has tested, unless the position has moved meanwhile.
LEMMA SeekKeeps ==
  ASSUME MemInv, NEW t \in Procs,
         globalmem!SeekSet(t) \/ globalmem!SeekTest(t) \/ globalmem!SeekAdd(t)
  PROVE  MemInv'
<1>. DEFINE Offsets == Ahead \cup {-n : n \in Back}
<1>0. \A o \in Offsets : o \in Int
  <2>1. \A n \in Back : -n \in Int
    BY MemoryAssumption
  <2>. QED  BY <2>1, MemoryAssumption
<1>. HIDE DEF Offsets
<1>. USE DEF MemInv, globalmem!TypeOK, PlacesOK, globalmem!PositionExplained,
             globalmem!Goto, globalmem!module
<1>1. CASE globalmem!SeekSet(t)
  <2>1. gm_f_pos' \in 0..Size /\ gm_f_pos' \in -MaxPos..MaxPos
    <3>1. PICK o \in Offsets : o % UInt <= Size /\ gm_f_pos' = o % UInt
      BY <1>1 DEF globalmem!SeekSet, Offsets
    <3>2. o % UInt \in Nat
      BY <1>0, MemoryAssumption
    <3>. QED  BY <3>1, <3>2, MemoryAssumption
  <2>2. \A u \in Procs : gm_pc[u] # "out" => raced' = raced
    BY <1>1 DEF globalmem!SeekSet
  <2>. QED  BY <1>1, <2>1, <2>2 DEF globalmem!SeekSet
<1>2. CASE globalmem!SeekTest(t)
  <2>1. PICK o \in Offsets :
          globalmem!InRange(gm_f_pos + o) /\ count' = [count EXCEPT ![t] = o]
    BY <1>2 DEF globalmem!SeekTest, Offsets
  <2>2. o \in Int /\ gm_f_pos + o \in 0..Size
    BY <1>0, <2>1, MemoryAssumption DEF globalmem!InRange
  <2>. QED  BY <1>2, <2>1, <2>2 DEF globalmem!SeekTest
<1>3. CASE globalmem!SeekAdd(t)
  <2>1. 0 \in -MaxPos..MaxPos
    BY MemoryAssumption
  <2>2. gm_f_pos + count[t] \in 0..Size \/ raced'
    BY <1>3 DEF globalmem!SeekAdd
  <2>. QED  BY <1>3, <2>1, <2>2 DEF globalmem!SeekAdd
<1>. QED  BY <1>1, <1>2, <1>3

\* The module begins with no file and no position.
LEMMA MemInit == ASSUME globalmem!Init PROVE MemInv
<1>1. 0 \in -MaxPos..MaxPos /\ 0 \in 0..Size
  BY MemoryAssumption
<1>2. globalmem!TypeOK
  <2>1. gm_f_pos \in -MaxPos..MaxPos /\ 0 \in Int
    BY <1>1 DEF globalmem!Init
  <2>2. /\ gm_p \in [Procs -> -MaxPos..MaxPos] /\ checked \in [Procs -> -MaxPos..MaxPos]
        /\ count \in [Procs -> Int]
    BY <1>1 DEF globalmem!Init
  <2>. QED  BY <2>1, <2>2 DEF globalmem!Init, globalmem!TypeOK
<1>3. PlacesOK
  BY DEF globalmem!Init, PlacesOK
<1>4. globalmem!PositionExplained
  BY <1>1 DEF globalmem!Init, globalmem!PositionExplained
<1>. QED  BY <1>2, <1>3, <1>4 DEF MemInv

\* The invariant is inductive.
LEMMA MemInvariance == PartsSpec => []MemInv
<1>1. PartsInit => MemInv
  BY MemInit DEF PartsInit
<1>2. MemInv /\ [PartsNext]_all => MemInv'
  <2>. SUFFICES ASSUME MemInv, [PartsNext]_all PROVE MemInv'  OBVIOUS
  <2>1. CASE UNCHANGED globalmem!vars
    BY <2>1 DEF globalmem!vars, MemInv, globalmem!TypeOK, PlacesOK,
                globalmem!PositionExplained
  <2>2. CASE globalmem!Next
    BY <2>2, FileKeeps, FetchKeeps, CopyKeeps, SeekKeeps DEF globalmem!Next
  <2>. QED  BY <2>1, <2>2, Frame
<1>. QED  BY <1>1, <1>2, PTL DEF PartsSpec

\* However the threads race for f_pos, no byte outside of the memory is copied: a
\* position below zero is a huge one in the driver.
THEOREM NeverOutside == PartsSpec => []CopiesInside
<1>1. MemInv => CopiesInside
  BY MemoryAssumption DEF MemInv, PlacesOK, CopiesInside, globalmem!CopiesInside
<1>. QED  BY MemInvariance, <1>1, PTL

\* The position is in the file, unless a SEEK_CUR has added its offset to another
\* position than the one it had tested.
THEOREM OnlyRacesLeave == PartsSpec => []PositionExplained
<1>1. MemInv => PositionExplained
  BY DEF MemInv, PositionExplained
<1>. QED  BY MemInvariance, <1>1, PTL

-----------------------------------------------------------------------------
(* silly.c *)

\* A transfer in units that divide it: a read, failed or not, gets at all of it, a
\* write leaves out nothing that a whole unit starts with.
LEMMA UnitsAccessed ==
  ASSUME NEW u \in {1, 2, 4}, NEW a \in Nat, NEW n \in Nat, a % u = 0, n % u = 0
  PROVE  /\ silly!Accessed("read", u, a, n) = silly!From(a, n)
         /\ silly!Accessed("fault", u, a, n) = silly!From(a, n)
         /\ silly!Accessed("write", u, a, n) \subseteq silly!From(a, n)
         /\ \A x \in silly!From(a, n) \ silly!Accessed("write", u, a, n) : u # 1 /\ x % 4 # 0
<1>1. (n \div u) * u = n
  <2>1. CASE u = 1  BY <2>1
  <2>2. CASE u = 2  BY <2>2
  <2>3. CASE u = 4  BY <2>3
  <2>. QED  BY <2>1, <2>2, <2>3
<1>2. /\ silly!Accessed("read", u, a, n) = silly!From(a, n)
      /\ silly!Accessed("fault", u, a, n) = silly!From(a, n)
  BY <1>1 DEF silly!Accessed
<1>3. silly!Accessed("write", u, a, n) = {a + k * u : k \in 0..((n \div u) - 1)}
  BY DEF silly!Accessed
<1>4. ASSUME NEW k \in 0..((n \div u) - 1) PROVE a + k * u \in silly!From(a, n)
  <2>1. k * u \in 0..(n - 1)
    <3>1. CASE u = 1  BY <3>1
    <3>2. CASE u = 2  BY <3>2
    <3>3. CASE u = 4  BY <3>3
    <3>. QED  BY <3>1, <3>2, <3>3
  <2>. QED  BY <2>1 DEF silly!From
<1>5. ASSUME NEW x \in silly!From(a, n), u = 1 \/ x % 4 = 0
      PROVE  \E k \in 0..((n \div u) - 1) : x = a + k * u
  <2>1. PICK j \in 0..(n - 1) : x = a + j
    BY DEF silly!From
  <2>2. j \div u \in 0..((n \div u) - 1) /\ x = a + (j \div u) * u
    <3>1. CASE u = 1  BY <2>1, <3>1
    <3>2. CASE u = 2  BY <1>5, <2>1, <3>2
    <3>3. CASE u = 4  BY <1>5, <2>1, <3>3
    <3>. QED  BY <3>1, <3>2, <3>3
  <2>. QED  BY <2>2
<1>. QED  BY <1>2, <1>3, <1>4, <1>5

\* No position that can be passed comes round to zero as an address.
LEMMA AddressIs ==
  ASSUME NEW pos \in 0..(Window + 1)
  PROVE  silly!isa_addr(pos) = Base + pos /\ Base + pos \in Nat
<1>1. Base \in Nat /\ Window \in Nat /\ ULong \in Nat \ {0} /\ Base + Window + 1 < ULong
  BY WindowAssumption, MemoryAssumption
<1>2. Base + pos \in 0..(ULong - 1)
  BY <1>1
<1>3. (Base + pos) % ULong = Base + pos
  BY <1>1, <1>2
<1>. QED  BY <1>2, <1>3 DEF silly!isa_addr

\* A transfer that goes on is cut to the window.
LEMMA CutToWindow ==
  ASSUME NEW pos \in 0..(Window + 1), NEW n \in 0..MaxBytes,
         silly!Cut(Base + pos, n) <= Largest
  PROVE  silly!Cut(Base + pos, n) \in Nat /\ pos + silly!Cut(Base + pos, n) <= Window
<1>1. Base \in Nat /\ Window \in Nat /\ Largest \in Nat /\ MaxBytes \in Nat
      /\ ULong \in Nat \ {0} /\ Largest + 1 < ULong /\ Window < ULong
  BY WindowAssumption, MemoryAssumption
<1>2. silly!Cut(Base + pos, n) = IF pos + n > Window THEN (Window - pos) % ULong ELSE n
  <2>1. (Base + pos) + n > Base + Window <=> pos + n > Window
    BY <1>1
  <2>2. (Base + Window) - (Base + pos) = Window - pos
    BY <1>1
  <2>. QED  BY <2>1, <2>2 DEF silly!Cut, silly!ISA_MAX
<1>3. CASE pos + n <= Window
  BY <1>1, <1>2, <1>3
<1>4. CASE pos + n > Window /\ pos <= Window
  <2>1. Window - pos \in 0..(ULong - 1)
    BY <1>1, <1>4
  <2>2. (Window - pos) % ULong = Window - pos
    BY <1>1, <2>1
  <2>. QED  BY <1>1, <1>2, <1>4, <2>2
<1>5. CASE pos = Window + 1
  <2>1. (-1) % ULong = ULong - 1
    BY <1>1
  <2>2. Window - pos = -1 /\ pos + n > Window
    BY <1>1, <1>5
  <2>. QED  BY <1>1, <1>2, <2>1, <2>2
<1>. QED  BY <1>1, <1>3, <1>4, <1>5

SillyInv ==
  /\ silly_open \in -1..4 /\ silly_f_pos \in -Efault..Window
  /\ call \in {"none", "read", "write", "fault"}
  /\ silly_open = -1 => call = "none"
  /\ call = "none" => range = {} /\ moved = {}
  /\ silly!TransfersExplained

\* What a transfer accesses, and where it leaves the position.
LEMMA TransferKeeps ==
  ASSUME SillyInv, NEW op \in {"read", "write", "fault"}, NEW pos \in -Efault..(Window + 1),
         NEW n \in 0..MaxBytes, NEW done2 \in BOOLEAN, silly!Transfer(op, pos, n, done2)
  PROVE  SillyInv'
<1>. DEFINE a == Base + pos
            c == silly!Cut(a, n)
            u == silly!Unit(silly_open, a, c)
<1>0. Base \in Nat /\ Window \in Nat /\ Efault \in Nat /\ pos \in 0..(Window + 1)
  BY WindowAssumption DEF silly!Transfer
<1>1. silly!isa_addr(pos) = a /\ a \in Nat
  BY <1>0, AddressIs
<1>2. c <= Largest
  BY <1>1 DEF silly!Transfer
<1>3. c \in Nat /\ pos + c <= Window
  BY <1>0, <1>2, CutToWindow
<1>4. CASE silly_open = 4
  BY <1>4 DEF SillyInv, silly!Transfer, silly!TransfersExplained, silly!Said
<1>5. CASE silly_open # 4
  <2>1. /\ u \in {1, 2, 4} /\ a % u = 0 /\ c % u = 0
        /\ u # 1 => silly_open \in {1, 2}
    <3>1. a % 1 = 0 /\ c % 1 = 0
      BY <1>1, <1>3
    <3>. QED  BY <3>1 DEF silly!Unit, silly!Aligned
  <2>2. /\ call' = op /\ range' = silly!From(a, c) /\ moved' = silly!Accessed(op, u, a, c)
        /\ silly_open' = silly_open /\ silly_open # -1
        /\ silly_f_pos' = IF ~done2 THEN silly_f_pos
                          ELSE IF op = "fault" THEN pos - Efault ELSE pos + c
    BY <1>1, <1>5 DEF silly!Transfer
  <2>3. range' \subseteq Base..(silly!ISA_MAX - 1)
    BY <1>0, <1>3, <2>2 DEF silly!From, silly!ISA_MAX
  <2>4. /\ moved' \subseteq range'
        /\ \A x \in range' \ moved' : op = "write" /\ u # 1 /\ x % 4 # 0
    BY <1>1, <1>3, <2>1, <2>2, UnitsAccessed
  <2>5. silly!Said' = IF op = "fault" THEN {} ELSE range'
    BY <2>2 DEF silly!Said
  <2>6. silly!TransfersExplained'
    <3>. HIDE DEF a, c, u
    <3>. QED  BY <2>1, <2>2, <2>3, <2>4, <2>5 DEF silly!TransfersExplained
  <2>7. silly_f_pos' \in -Efault..Window
    BY <1>0, <1>3, <2>2 DEF SillyInv
  <2>. QED  BY <2>2, <2>6, <2>7 DEF SillyInv
<1>. QED  BY <1>4, <1>5

LEMMA SillyKeeps ==
  ASSUME SillyInv, silly!Next
  PROVE  SillyInv'
<1>0. /\ 0 \in -Efault..Window /\ silly_f_pos \in -Efault..(Window + 1)
      /\ \A pos \in 0..(Window + 1) : pos \in -Efault..(Window + 1)
  BY WindowAssumption DEF SillyInv
<1>1. CASE silly!Return
  BY <1>1 DEF silly!Return, SillyInv, silly!TransfersExplained, silly!Said
<1>2. CASE silly!silly_init \/ silly!silly_cleanup
  BY <1>2 DEF silly!silly_init, silly!silly_cleanup, SillyInv, silly!TransfersExplained, silly!Said
<1>3. CASE silly!silly_open
  BY <1>3 DEF silly!silly_open, SillyInv, silly!TransfersExplained, silly!Said
<1>4. CASE silly!silly_release
  BY <1>0, <1>4 DEF silly!silly_release, SillyInv, silly!TransfersExplained, silly!Said
<1>5. CASE silly!silly_read \/ silly!silly_write
  BY <1>0, <1>5, TransferKeeps DEF silly!silly_read, silly!silly_write
<1>6. CASE silly!silly_pread \/ silly!silly_pwrite
  BY <1>0, <1>6, TransferKeeps DEF silly!silly_pread, silly!silly_pwrite
<1>. QED  BY <1>1, <1>2, <1>3, <1>4, <1>5, <1>6 DEF silly!Next

\* The invariant is inductive.
LEMMA SillyInvariance == PartsSpec => []SillyInv
<1>1. PartsInit => SillyInv
  BY WindowAssumption DEF PartsInit, silly!Init, SillyInv, silly!TransfersExplained, silly!Said
<1>2. SillyInv /\ [PartsNext]_all => SillyInv'
  <2>. SUFFICES ASSUME SillyInv, [PartsNext]_all PROVE SillyInv'  OBVIOUS
  <2>1. CASE UNCHANGED silly!vars
    BY <2>1 DEF silly!vars, SillyInv, silly!TransfersExplained, silly!Said
  <2>. QED  BY <2>1, SillyKeeps, Frame
<1>. QED  BY <1>1, <1>2, PTL DEF PartsSpec

\* For every base and window: a transfer stays in the window, wherever a failed read
\* has left the position.  A read returns what it has read, all of it and nothing else,
\* unless it ends with -EFAULT; a write leaves out what iowrite8 does of the units of
\* minor 1 and 2.
THEOREM TransfersInWindow == PartsSpec => []TransfersExplained
<1>1. SillyInv => TransfersExplained
  BY DEF SillyInv, TransfersExplained
<1>. QED  BY SillyInvariance, <1>1, PTL

-----------------------------------------------------------------------------
(* The author's first scull. *)

\* A file is open from its open to its close, and who trims holds the mutex of the
\* device he has opened.
FilesOK ==
  \A p \in Procs :
    /\ pc03[p] = "out" <=> file03[p] = None
    /\ pc03[p] = "trim" => mutex[file03[p]] = p

Scull03Inv == scull03!TypeOK /\ FilesOK /\ scull03!OnlyTheDeadBlock

\* What the modules and the files do that have no part in a step.
LEMMA Scull03ModuleKeeps ==
  ASSUME Scull03Inv, scull03!LoadModule \/ scull03!Setup \/ scull03!Unload
  PROVE  Scull03Inv'
<1>. USE DEF Scull03Inv, FilesOK, scull03!TypeOK, scull03!OnlyTheDeadBlock
<1>1. CASE scull03!LoadModule  BY <1>1 DEF scull03!LoadModule
<1>2. CASE scull03!Setup       BY <1>2 DEF scull03!Setup
<1>3. CASE scull03!Unload      BY <1>3 DEF scull03!Unload
<1>. QED  BY <1>1, <1>2, <1>3

\* An open, with its trim or without.
LEMMA Scull03OpenKeeps ==
  ASSUME Scull03Inv, NEW p \in Procs, scull03!Open(p) \/ scull03!OpenTrim(p)
  PROVE  Scull03Inv'
<1>. USE NamesAssumption
     DEF Scull03Inv, FilesOK, scull03!TypeOK, scull03!OnlyTheDeadBlock, scull03!Goto
<1>1. CASE scull03!Open(p)
  <2>1. PICK d \in live03 :
          /\ file03' = [file03 EXCEPT ![p] = d] /\ pc03[p] = "out"
          /\ \/ pc03' = [pc03 EXCEPT ![p] = "open"] /\ mutex' = mutex
             \/ /\ pc03' = [pc03 EXCEPT ![p] = "trim"] /\ mutex[d] = None
                /\ mutex' = [mutex EXCEPT ![d] = p]
    BY <1>1 DEF scull03!Open
  <2>2. live03' = live03 /\ locked' = locked /\ stage03' = stage03
    BY <1>1 DEF scull03!Open
  <2>3. \A e \in Devs03 : mutex[e] # p
    BY <2>1
  <2>4. scull03!TypeOK'
    BY <2>1, <2>2
  <2>5. FilesOK'
    BY <2>1, <2>2, <2>3
  <2>6. scull03!OnlyTheDeadBlock'
    BY <2>1, <2>2, <2>3
  <2>. QED  BY <2>4, <2>5, <2>6
<1>2. CASE scull03!OpenTrim(p)
  BY <1>2 DEF scull03!OpenTrim, scull03!Unlock
<1>. QED  BY <1>1, <1>2

\* The end of a file, and the read or write that ends it or spins.
LEMMA Scull03EndKeeps ==
  ASSUME Scull03Inv, NEW p \in Procs, scull03!Close(p) \/ scull03!Down(p)
  PROVE  Scull03Inv'
<1>. USE NamesAssumption
     DEF Scull03Inv, FilesOK, scull03!TypeOK, scull03!OnlyTheDeadBlock, scull03!Goto,
         scull03!Release
<1>1. CASE scull03!Close(p)  BY <1>1 DEF scull03!Close
<1>2. CASE scull03!Down(p)   BY <1>2 DEF scull03!Down
<1>. QED  BY <1>1, <1>2

\* The invariant is inductive.
LEMMA Scull03Invariance == PartsSpec => []Scull03Inv
<1>1. PartsInit => Scull03Inv
  BY DEF PartsInit, scull03!Init, Scull03Inv, FilesOK, scull03!TypeOK, scull03!OnlyTheDeadBlock
<1>2. Scull03Inv /\ [PartsNext]_all => Scull03Inv'
  <2>. SUFFICES ASSUME Scull03Inv, [PartsNext]_all PROVE Scull03Inv'  OBVIOUS
  <2>1. CASE UNCHANGED scull03!vars
    BY <2>1 DEF scull03!vars, Scull03Inv, FilesOK, scull03!TypeOK, scull03!OnlyTheDeadBlock
  <2>2. CASE scull03!Next
    BY <2>2, Scull03ModuleKeeps, Scull03OpenKeeps, Scull03EndKeeps DEF scull03!Next
  <2>. QED  BY <2>1, <2>2, Frame
<1>. QED  BY <1>1, <1>2, PTL DEF PartsSpec

\* For any processes and devices: who spins does so on a semaphore that somebody has
\* died with, a file that is open keeps its device, and a mutex is held only by a
\* write-only open of that device which has its unlock before it.
THEOREM NobodyElseBlocks == PartsSpec => []OnlyTheDeadBlock
<1>1. Scull03Inv => OnlyTheDeadBlock
  BY DEF Scull03Inv, OnlyTheDeadBlock
<1>. QED  BY Scull03Invariance, <1>1, PTL

-----------------------------------------------------------------------------
(* The files in /proc. *)

\* What a reader is about to show is what it has not been shown.  One of scullmem
\* that is not at its end has shown what its call has got to, and one that is has
\* shown every device or stopped at its limit.
SeqReaderOK(r) ==
  /\ seq_pc[r] = "idle" => index[r] = 0 /\ i[r] = 0 /\ shown[r] = 0 /\ kind[r] = None
  /\ seq_pc[r] = "open" =>
       /\ kind[r] \in seq!Kinds
       /\ kind[r] # "scullmem" => shown[r] = index[r]
       /\ kind[r] = "scullmem" /\ index[r] # 0 => shown[r] = N \/ r \in cut
       /\ kind[r] = "scullmem" /\ index[r] = 0 => shown[r] = 0
       /\ kind[r] = "scullseq" => index[r] <= N
       /\ kind[r] = "debug" => index[r] <= N + 1
  /\ seq_pc[r] \in {"load", "lock", "scan"} =>
       /\ kind[r] \in {"scullmem", "scullseq", "debug"}
       /\ i[r] = shown[r]
       /\ kind[r] = "scullmem" => index[r] = 0
       /\ kind[r] # "scullmem" => index[r] = i[r]
       /\ i[r] < N \/ (kind[r] = "debug" /\ i[r] = N)
  /\ seq_pc[r] = "load" => kind[r] = "scullmem"
  /\ seq_pc[r] = "count" => kind[r] = "sequence" /\ i[r] = shown[r] /\ index[r] = i[r]

\* The list a reader has is the device's, or has been replaced before it had the mutex.
SeqListOK(r) ==
  /\ seq_pc[r] = "lock" /\ kind[r] = "scullmem" => qs[r] = seq_data[i[r]] \/ r \in changed
  /\ seq_pc[r] = "scan" /\ i[r] \in 0..(N - 1) => qs[r] = seq_data[i[r]] \/ r \in changed

SeqTypes ==
  /\ index \in [Procs -> Nat] /\ i \in [Procs -> Nat] /\ shown \in [Procs -> Nat]
  /\ seq_pc \in [Procs -> {"idle", "open", "load", "lock", "scan", "count"}]
  /\ kind \in [Procs -> seq!Kinds \cup {None}]
  /\ qs \in [Procs -> Lists \cup {None}] /\ seq_data \in [seq!Devs -> Lists \cup {None}]

SeqInv == SeqTypes /\ \A r \in Procs : SeqReaderOK(r) /\ SeqListOK(r)

\* What a reader is about depends on nothing of another.
LEMMA SeqApart ==
  ASSUME NEW q \in Procs, SeqReaderOK(q), SeqListOK(q), seq_data' = seq_data,
         seq_pc'[q] = seq_pc[q], kind'[q] = kind[q], index'[q] = index[q], i'[q] = i[q],
         shown'[q] = shown[q], qs'[q] = qs[q], q \in changed => q \in changed',
         q \in cut => q \in cut'
  PROVE  SeqReaderOK(q)' /\ SeqListOK(q)'
<1>1. SeqReaderOK(q)'  BY DEF SeqReaderOK
<1>2. SeqListOK(q)'    BY DEF SeqListOK
<1>. QED  BY <1>1, <1>2

\* A step of a reader keeps what holds of it.
LEMMA SeqReaderKeeps ==
  ASSUME SeqInv, NEW r \in Procs,
         \/ seq!Open(r) \/ seq!Close(r) \/ seq!Start(r) \/ seq!Load(r) \/ seq!Lock(r)
         \/ seq!Interrupted(r) \/ seq!Overflow(r) \/ seq!Scan(r) \/ seq!Count(r)
  PROVE  SeqInv'
<1>0. N \in Nat \ {0}
  BY NumbersAssumption
<1>1. seq_data' = seq_data
  BY DEF seq!Open, seq!Close, seq!Start, seq!Load, seq!Lock, seq!Interrupted, seq!Overflow,
         seq!Dropped, seq!Scan, seq!Count
<1>2. ASSUME NEW q \in Procs \ {r} PROVE SeqReaderOK(q)' /\ SeqListOK(q)'
  <2>1. SeqReaderOK(q) /\ SeqListOK(q)
    BY DEF SeqInv
  <2>2. /\ seq_pc'[q] = seq_pc[q] /\ kind'[q] = kind[q] /\ index'[q] = index[q] /\ i'[q] = i[q]
        /\ shown'[q] = shown[q] /\ qs'[q] = qs[q] /\ (q \in changed => q \in changed')
        /\ (q \in cut => q \in cut')
    <3>. USE DEF SeqInv, SeqTypes, seq!Goto
    <3>1. CASE seq!Open(r)         BY <3>1 DEF seq!Open
    <3>2. CASE seq!Close(r)        BY <3>2 DEF seq!Close
    <3>3. CASE seq!Start(r)        BY <3>3 DEF seq!Start
    <3>4. CASE seq!Load(r)         BY <3>4 DEF seq!Load
    <3>5. CASE seq!Lock(r)         BY <3>5 DEF seq!Lock
    <3>6. CASE seq!Interrupted(r) \/ seq!Overflow(r)
      BY <3>6 DEF seq!Interrupted, seq!Overflow, seq!Dropped
    <3>7. CASE seq!Scan(r)         BY <3>7 DEF seq!Scan
    <3>8. CASE seq!Count(r)        BY <3>8 DEF seq!Count
    <3>. QED  BY <3>1, <3>2, <3>3, <3>4, <3>5, <3>6, <3>7, <3>8
  <2>. QED  BY <1>1, <2>1, <2>2, SeqApart
<1>3. SeqReaderOK(r) /\ SeqListOK(r) /\ SeqTypes
  BY DEF SeqInv
<1>4. CASE seq!Open(r)
  <2>. USE <1>0, <1>3, <1>4 DEF seq!Open, seq!Goto, SeqTypes, seq!Devs, seq!Kinds
  <2>1. SeqTypes'
    OBVIOUS
  <2>2. SeqReaderOK(r)'
    BY DEF SeqReaderOK
  <2>3. SeqListOK(r)'
    BY DEF SeqListOK, SeqReaderOK
  <2>. QED  BY <1>2, <2>1, <2>2, <2>3 DEF SeqInv
<1>5. CASE seq!Close(r)
  <2>. USE <1>0, <1>3, <1>5 DEF seq!Close, seq!Goto, SeqTypes, seq!Devs, seq!Kinds
  <2>1. SeqTypes'
    OBVIOUS
  <2>2. SeqReaderOK(r)'
    BY DEF SeqReaderOK
  <2>3. SeqListOK(r)'
    BY DEF SeqListOK, SeqReaderOK
  <2>. QED  BY <1>2, <2>1, <2>2, <2>3 DEF SeqInv
<1>6. CASE seq!Start(r)
  <2>. USE <1>0, <1>3, <1>6 DEF seq!Start, seq!Goto, SeqTypes, seq!Devs, seq!Kinds
  <2>1. SeqTypes'
    <3>1. seq_pc' \in [Procs -> {"idle", "open", "load", "lock", "scan", "count"}]
      BY DEF seq!Show
    <3>2. i' \in [Procs -> Nat]
      OBVIOUS
    <3>. QED  BY <3>1, <3>2
  <2>2. SeqReaderOK(r)'
    BY DEF SeqReaderOK, seq!Over, seq!Show
  <2>3. SeqListOK(r)'
    BY DEF SeqListOK, SeqReaderOK, seq!Over, seq!Show
  <2>. QED  BY <1>2, <2>1, <2>2, <2>3 DEF SeqInv
<1>7. CASE seq!Load(r)
  <2>. USE <1>0, <1>3, <1>7 DEF seq!Load, seq!Goto, SeqTypes, seq!Devs, seq!Kinds
  <2>1. SeqTypes'
    <3>1. i[r] \in seq!Devs
      BY DEF SeqReaderOK
    <3>2. qs' \in [Procs -> Lists \cup {None}]
      BY <3>1
    <3>. QED  BY <3>2
  <2>2. SeqReaderOK(r)'
    BY DEF SeqReaderOK
  <2>3. SeqListOK(r)'
    BY DEF SeqListOK, SeqReaderOK
  <2>. QED  BY <1>2, <2>1, <2>2, <2>3 DEF SeqInv
<1>8. CASE seq!Lock(r)
  <2>. USE <1>0, <1>3, <1>8 DEF seq!Lock, seq!Goto, SeqTypes, seq!Devs, seq!Kinds
  <2>1. SeqTypes'
    OBVIOUS
  <2>2. SeqReaderOK(r)'
    BY DEF SeqReaderOK
  <2>3. SeqListOK(r)'
    BY DEF SeqListOK, SeqReaderOK
  <2>. QED  BY <1>2, <2>1, <2>2, <2>3 DEF SeqInv
<1>9. CASE seq!Interrupted(r) \/ seq!Overflow(r)
  <2>. USE <1>0, <1>3, <1>9
       DEF seq!Interrupted, seq!Overflow, seq!Dropped, seq!Goto, SeqTypes, seq!Devs, seq!Kinds
  <2>1. SeqTypes'
    <3>1. seq_pc' = [seq_pc EXCEPT ![r] = "open"] /\ qs' = [qs EXCEPT ![r] = None]
      OBVIOUS
    <3>2. shown' \in [Procs -> Nat]
      <4>1. shown' \in {shown, [shown EXCEPT ![r] = 0]}
        BY DEF seq!Dropped
      <4>2. shown \in [Procs -> Nat] /\ [shown EXCEPT ![r] = 0] \in [Procs -> Nat]
        OBVIOUS
      <4>. QED  BY <4>1, <4>2
    <3>3. UNCHANGED <<seq_data, kind, index, i>>
      OBVIOUS
    <3>. QED  BY <3>1, <3>2, <3>3
  <2>2. SeqReaderOK(r)'
    BY DEF SeqReaderOK
  <2>3. SeqListOK(r)'
    BY DEF SeqListOK, SeqReaderOK
  <2>. QED  BY <1>2, <2>1, <2>2, <2>3 DEF SeqInv
<1>10. CASE seq!Scan(r)
  <2>. USE <1>0, <1>3, <1>10 DEF seq!Scan, seq!Goto, SeqTypes, seq!Devs, seq!Kinds
  <2>1. SeqTypes'
    <3>1. seq_pc' \in [Procs -> {"idle", "open", "load", "lock", "scan", "count"}]
      BY DEF seq!Show
    <3>2. index' \in [Procs -> Nat]
      OBVIOUS
    <3>3. i' \in [Procs -> Nat] /\ shown' \in [Procs -> Nat]
      OBVIOUS
    <3>4. qs' \in [Procs -> Lists \cup {None}]
      OBVIOUS
    <3>. QED  BY <3>1, <3>2, <3>3, <3>4
  <2>2. SeqReaderOK(r)'
    BY DEF SeqReaderOK, seq!Show
  <2>3. SeqListOK(r)'
    BY DEF SeqListOK, SeqReaderOK, seq!Show
  <2>. QED  BY <1>2, <2>1, <2>2, <2>3 DEF SeqInv
<1>11. CASE seq!Count(r)
  <2>. USE <1>0, <1>3, <1>11 DEF seq!Count, seq!Goto, SeqTypes, seq!Devs, seq!Kinds
  <2>1. SeqTypes'
    <3>1. seq_pc' \in [Procs -> {"idle", "open", "load", "lock", "scan", "count"}]
      OBVIOUS
    <3>2. index' \in [Procs -> Nat] /\ i' \in [Procs -> Nat] /\ shown' \in [Procs -> Nat]
      OBVIOUS
    <3>. QED  BY <3>1, <3>2
  <2>2. SeqReaderOK(r)'
    BY DEF SeqReaderOK
  <2>3. SeqListOK(r)'
    BY DEF SeqListOK, SeqReaderOK
  <2>. QED  BY <1>2, <2>1, <2>2, <2>3 DEF SeqInv
<1>. QED  BY <1>4, <1>5, <1>6, <1>7, <1>8, <1>9, <1>10, <1>11

\* A list is replaced only where nobody scans it, and who waits with it is told.
LEMMA SeqReplaceKeeps ==
  ASSUME SeqInv, NEW d \in seq!Devs, seq!Replace(d)
  PROVE  SeqInv'
<1>0. N \in Nat \ {0}
  BY NumbersAssumption
<1>1. SeqTypes'
  BY DEF SeqInv, SeqTypes, seq!Replace
<1>2. ASSUME NEW r \in Procs PROVE SeqReaderOK(r)'
  BY DEF SeqInv, SeqReaderOK, seq!Replace
<1>3. ASSUME NEW r \in Procs PROVE SeqListOK(r)'
  <2>1. SeqListOK(r) /\ SeqReaderOK(r)
    BY DEF SeqInv
  <2>2. (seq_pc[r] = "scan" => i[r] # d) /\ UNCHANGED <<seq_pc, kind, i, qs>>
    BY DEF seq!Replace, seq!Unheld
  <2>3. \A e \in seq!Devs \ {d} : seq_data'[e] = seq_data[e]
    BY DEF seq!Replace, SeqInv, SeqTypes
  <2>4. r \in changed => r \in changed'
    BY DEF seq!Replace
  <2>5. seq_pc[r] = "lock" /\ kind[r] = "scullmem" /\ i[r] = d => r \in changed'
    BY DEF seq!Replace
  <2>6. seq_pc[r] = "lock" /\ kind[r] = "scullmem" => i[r] \in seq!Devs
    BY <1>0, <2>1 DEF SeqReaderOK, seq!Devs, SeqInv, SeqTypes
  <2>. QED  BY <2>1, <2>2, <2>3, <2>4, <2>5, <2>6 DEF SeqListOK, seq!Devs
<1>. QED  BY <1>1, <1>2, <1>3 DEF SeqInv

\* Both facts about the files in /proc hang on the same invariant.
LEMMA SeqInvariance == PartsSpec => []SeqInv
<1>1. PartsInit => SeqInv
  BY DEF PartsInit, seq!Init, SeqInv, SeqTypes, SeqReaderOK, SeqListOK, seq!Devs
<1>2. SeqInv /\ [PartsNext]_all => SeqInv'
  <2>. SUFFICES ASSUME SeqInv, [PartsNext]_all PROVE SeqInv'  OBVIOUS
  <2>1. CASE UNCHANGED seq!vars
    BY <2>1 DEF seq!vars, SeqInv, SeqTypes, SeqReaderOK, SeqListOK
  <2>2. CASE seq!Next
    BY <2>2, SeqReaderKeeps, SeqReplaceKeeps DEF seq!Next
  <2>. QED  BY <2>1, <2>2, Frame
<1>. QED  BY <1>1, <1>2, PTL DEF PartsSpec

\* For any devices, readers and lists: a dump scans the list its device has, or is the
\* dump of scullmem that loaded it before it took the mutex.
THEOREM OwnListScanned == PartsSpec => []ScansOwnList
<1>1. SeqInv => ScansOwnList
  BY DEF SeqInv, SeqListOK, ScansOwnList, seq!ScansOwnList, seq!Devs
<1>. QED  BY <1>1, SeqInvariance, PTL

\* For any number of devices, whatever signals, full pages and overflows come between:
\* a file shows its devices in order, none twice and none left out, and who has come to
\* its end has seen all of them, one more in the debug version, and fewer only where
\* scullmem has stopped at its limit.
THEOREM ShownOnce == PartsSpec => []EachOnce
<1>1. SeqInv => EachOnce
  <2>. SUFFICES ASSUME SeqInv, NEW r \in Procs
                PROVE  /\ seq_pc[r] \in {"scan", "count"} =>
                            /\ i[r] = shown[r]
                            /\ \/ i[r] < N
                               \/ kind[r] = "sequence"
                               \/ kind[r] = "debug" /\ i[r] = N
                       /\ seq_pc[r] = "open" /\ seq!Over(r) =>
                            \/ shown[r] = IF kind[r] = "debug" THEN N + 1 ELSE N
                            \/ kind[r] = "scullmem" /\ r \in cut
    BY DEF EachOnce, seq!EachOnce
  <2>. QED  BY NumbersAssumption DEF SeqInv, SeqTypes, SeqReaderOK, seq!Over
<1>. QED  BY <1>1, SeqInvariance, PTL
=============================================================================
