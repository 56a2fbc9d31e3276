------------------------ MODULE SmallPartsWaitProofs ------------------------
(***************************************************************************)
(* Theorems about the parts of SmallParts that wait: no wake-up of sleepy  *)
(* and complete is lost, nor one of jiq by a reader that is alone;         *)
(* asynctest misses data only where its source says so, before it asks to  *)
(* be told, or through signals; and the delays of jit are as long as they  *)
(* should be wherever jiffies wraps.  At the end the types of all parts,   *)
(* from the invariants of this module and of the two it extends.           *)
(***************************************************************************)
EXTENDS SmallPartsProofs, ScullModuleProofs, FiniteSetTheorems, TLAPS

\* A step of the composition is a step of each part, or leaves it alone.
LEMMA WaitFrame ==
  [PartsNext]_all =>
    /\ sleepy!Next \/ UNCHANGED sleepy!vars
    /\ complete!Next \/ UNCHANGED complete!vars
    /\ jiq!Next \/ UNCHANGED jiq!vars
    /\ asynctest!Next \/ UNCHANGED asynctest!vars
    /\ jitdelay!Next \/ UNCHANGED jitdelay!vars
BY DEF PartsNext, Others, all,
       sleepy!vars, complete!vars, jiq!vars, asynctest!vars, jitdelay!vars, jiq!data,
       asynctest!history

-----------------------------------------------------------------------------
(* sleepy.c *)

SleepyInv == sleepy!TypeOK /\ sleepy!FlagNoticed

\* A reader goes to sleep only where it has just seen no flag, and a writer leaves
\* nobody in the queue.
LEMMA SleepyKeeps ==
  ASSUME SleepyInv, sleepy!Next
  PROVE  SleepyInv'
<1>. USE DEF SleepyInv, sleepy!TypeOK, sleepy!FlagNoticed, sleepy!Goto, sleepy!Order
<1>1. CASE sleepy!sleepy_init \/ sleepy!sleepy_cleanup
  BY <1>1 DEF sleepy!sleepy_init, sleepy!sleepy_cleanup
<1>2. ASSUME NEW p \in Sleepers,
       sleepy!Read(p)     PROVE SleepyInv'  BY <1>2 DEF sleepy!Read
<1>3. ASSUME NEW p \in Sleepers,
       sleepy!Prepare(p)  PROVE SleepyInv'  BY <1>3 DEF sleepy!Prepare
<1>4. ASSUME NEW p \in Sleepers,
       sleepy!Test(p)     PROVE SleepyInv'  BY <1>4 DEF sleepy!Test
<1>5. ASSUME NEW p \in Sleepers,
       sleepy!Wake(p)     PROVE SleepyInv'  BY <1>5 DEF sleepy!Wake
<1>6. ASSUME NEW p \in Sleepers,
       sleepy!Clear(p)    PROVE SleepyInv'  BY <1>6 DEF sleepy!Clear
<1>7. ASSUME NEW p \in Sleepers,
       sleepy!Write(p)    PROVE SleepyInv'  BY <1>7 DEF sleepy!Write
<1>8. ASSUME NEW p \in Sleepers,
       sleepy!WakeUp(p)   PROVE SleepyInv'  BY <1>8 DEF sleepy!WakeUp
<1>9. ASSUME NEW p \in Sleepers,
       sleepy!Signal(p)   PROVE SleepyInv'  BY <1>9 DEF sleepy!Signal
<1>. QED  BY <1>1, <1>2, <1>3, <1>4, <1>5, <1>6, <1>7, <1>8, <1>9 DEF sleepy!Next

\* The invariant is inductive.
LEMMA SleepyInvariance == PartsSpec => []SleepyInv
<1>1. PartsInit => SleepyInv
  BY DEF PartsInit, sleepy!Init, SleepyInv, sleepy!TypeOK, sleepy!FlagNoticed
<1>2. SleepyInv /\ [PartsNext]_all => SleepyInv'
  <2>. SUFFICES ASSUME SleepyInv, [PartsNext]_all PROVE SleepyInv'  OBVIOUS
  <2>1. CASE UNCHANGED sleepy!vars
    BY <2>1 DEF sleepy!vars, SleepyInv, sleepy!TypeOK, sleepy!FlagNoticed
  <2>. QED  BY <2>1, SleepyKeeps, WaitFrame
<1>. QED  BY <1>1, <1>2, PTL DEF PartsSpec

\* For any number of processes: no reader of sleepy sleeps beside a flag once its
\* writer has made its wake-up, whoever else clears and sets the flag meanwhile.
THEOREM NoSleeperForgotten == PartsSpec => []FlagNoticed
<1>1. SleepyInv => FlagNoticed
  BY DEF SleepyInv, FlagNoticed
<1>. QED  BY SleepyInvariance, <1>1, PTL

-----------------------------------------------------------------------------
(* complete.c *)

CompleteInv == complete!TypeOK /\ complete!CompletionsCovered

\* The module counts as FiniteSets does.
LEMMA SameCount == \A S : complete!Cardinality(S) = Cardinality(S)
BY DEF complete!Cardinality, Cardinality

\* The readers woken and not yet back are finitely many.
LEMMA WokenFinite ==
  ASSUME complete!TypeOK
  PROVE  IsFiniteSet(woken) /\ Cardinality(woken) \in Nat
<1>1. woken \in SUBSET Waiters
  BY DEF complete!TypeOK
<1>. QED  BY <1>1, WaitersAssumption, FS_Subset, FS_CardinalityType

\* A read takes at most one completion and one reader off; a write adds one of each.
LEMMA CompleteKeeps ==
  ASSUME CompleteInv, complete!Next
  PROVE  CompleteInv'
<1>. USE DEF CompleteInv
<1>0. IsFiniteSet(woken) /\ Cardinality(woken) \in Nat /\ MaxDone \in Nat /\ 0 \in 0..MaxDone
  BY WokenFinite, WaitersAssumption
<1>a. complete!CompletionsCovered <=> (complete_wait # {} => Cardinality(woken) >= done)
  BY SameCount DEF complete!CompletionsCovered
<1>b. complete!CompletionsCovered' <=> (complete_wait' # {} => Cardinality(woken') >= done')
  BY SameCount DEF complete!CompletionsCovered
<1>1. CASE complete!complete_init
  BY <1>1 DEF complete!complete_init, complete!TypeOK, complete!CompletionsCovered
<1>2. CASE complete!complete_cleanup
  <2>1. complete_wait' = {} /\ complete!TypeOK'
    BY <1>0, <1>2 DEF complete!complete_cleanup, complete!TypeOK
  <2>. QED  BY <1>2, <2>1 DEF complete!complete_cleanup, complete!CompletionsCovered
<1>3. ASSUME NEW p \in Waiters, complete!complete_read(p) PROVE CompleteInv'
  <2>1. complete!TypeOK'
    BY <1>0, <1>3 DEF complete!complete_read, complete!TypeOK
  <2>2. woken' = woken \ {p}
    BY <1>3 DEF complete!complete_read
  <2>3. Cardinality(woken') = IF p \in woken THEN Cardinality(woken) - 1 ELSE Cardinality(woken)
    BY <1>0, <2>2, FS_RemoveElement
  <2>4. done \in Nat /\ (complete_wait # {} => Cardinality(woken) >= done)
    BY <1>0, <1>a DEF complete!TypeOK
  <2>5. CASE done > 0
    <3>1. complete_wait' = complete_wait /\ done' = done - 1
      BY <1>3, <2>5 DEF complete!complete_read
    <3>2. complete_wait # {} => Cardinality(woken') >= done - 1
      BY <1>0, <2>3, <2>4
    <3>. QED  BY <2>1, <3>1, <3>2, <1>b
  <2>6. CASE ~(done > 0)
    <3>1. done' = 0
      BY <1>3, <2>4, <2>6 DEF complete!complete_read
    <3>2. Cardinality(woken') \in Nat
      BY <1>0, <2>2, FS_Subset, FS_CardinalityType
    <3>3. Cardinality(woken') >= done'
      BY <3>1, <3>2
    <3>. QED  BY <2>1, <3>3, <1>b
  <2>. QED  BY <2>5, <2>6
<1>4. CASE complete!complete_write
  <2>0. done \in Nat /\ done' = done + 1 /\ done' \in 0..MaxDone
    BY <1>0, <1>4 DEF complete!complete_write, complete!TypeOK
  <2>1. CASE complete_wait = {}
    <3>1. complete_wait' = {} /\ woken' = woken
      BY <1>4, <2>1 DEF complete!complete_write, complete!Chosen
    <3>2. complete!TypeOK'
      BY <1>4, <2>0, <2>1, <3>1 DEF complete!complete_write, complete!TypeOK
    <3>. QED  BY <3>1, <3>2, <1>b
  <2>2. CASE complete_wait # {}
    <3>1. PICK p \in complete_wait : woken' = woken \cup {p} /\ complete_wait' = complete_wait \ {p}
      BY <1>4, <2>2 DEF complete!complete_write, complete!Chosen
    <3>2. p \notin woken
      BY <3>1 DEF complete!TypeOK
    <3>3. Cardinality(woken') = Cardinality(woken) + 1
      BY <1>0, <3>1, <3>2, FS_AddElement
    <3>4. Cardinality(woken) >= done
      BY <2>2, <1>a
    <3>5. Cardinality(woken') >= done'
      BY <1>0, <2>0, <3>3, <3>4
    <3>6. complete!TypeOK'
      BY <1>4, <2>0, <3>1 DEF complete!complete_write, complete!TypeOK
    <3>. QED  BY <3>5, <3>6, <1>b
  <2>. QED  BY <2>1, <2>2
<1>. QED  BY <1>1, <1>2, <1>3, <1>4 DEF complete!Next

\* The invariant is inductive.
LEMMA CompleteInvariance == PartsSpec => []CompleteInv
<1>1. PartsInit => CompleteInv
  <2>. SUFFICES ASSUME complete!Init PROVE CompleteInv  BY DEF PartsInit
  <2>1. 0 \in 0..MaxDone
    BY WaitersAssumption
  <2>2. complete!TypeOK
    BY <2>1 DEF complete!Init, complete!TypeOK
  <2>3. complete!CompletionsCovered
    BY DEF complete!Init, complete!CompletionsCovered
  <2>. QED  BY <2>2, <2>3 DEF CompleteInv
<1>2. CompleteInv /\ [PartsNext]_all => CompleteInv'
  <2>. SUFFICES ASSUME CompleteInv, [PartsNext]_all PROVE CompleteInv'  OBVIOUS
  <2>1. CASE UNCHANGED complete!vars
    BY <2>1 DEF complete!vars, CompleteInv, complete!TypeOK, complete!CompletionsCovered
  <2>. QED  BY <2>1, CompleteKeeps, WaitFrame
<1>. QED  BY <1>1, <1>2, PTL DEF PartsSpec

\* For any number of readers: as long as one sleeps, every completion has a reader on
\* its way to take it.
THEOREM EveryCompletionTaken == PartsSpec => []CompletionsCovered
<1>1. CompleteInv => CompletionsCovered
  BY DEF CompleteInv, CompletionsCovered
<1>. QED  BY CompleteInvariance, <1>1, PTL

-----------------------------------------------------------------------------
(* asynctest.c *)

\* Data that nothing announces any more was there before FASYNC, was left by the last
\* read or by one that was interrupted, or was announced where it is forgotten.
Explained == early \/ more \/ interrupted \/ missed

AsyncTestInv ==
  /\ asynctest!TypeOK
  /\ at_pc = "test" => gotdata > 0
  /\ at_pc \in {"call", "asleep", "reset"} /\ avail > 0 => sigio \/ Explained

LEMMA AsyncTestKeeps ==
  ASSUME AsyncTestInv, asynctest!Next
  PROVE  AsyncTestInv'
<1>. USE DEF AsyncTestInv, asynctest!TypeOK, asynctest!Goto, asynctest!history
<1>0. Chunk \in Nat /\ MaxAvail \in Nat
  BY ChunkAssumption
<1>1. CASE asynctest!Arrive
  <2>1. avail' \in 0..MaxAvail
    BY <1>0, <1>1 DEF asynctest!Arrive
  <2>2. sigio' \in BOOLEAN /\ (at_pc \in {"call", "asleep", "reset"} => sigio')
    BY <1>1 DEF asynctest!Arrive
  <2>3. UNCHANGED <<at_pc, gotdata, early, more, interrupted, missed>>
    BY <1>1 DEF asynctest!Arrive
  <2>. QED  BY <2>1, <2>2, <2>3
<1>2. CASE asynctest!SetAsync
  <2>1. (avail > 0) \in BOOLEAN
    BY <1>0
  <2>2. early' \in BOOLEAN /\ (early' <=> avail > 0)
    BY <1>2, <2>1, Zenon DEF asynctest!SetAsync
  <2>3. at_pc' = "call" /\ UNCHANGED <<gotdata, avail, sigio, more, interrupted, missed>>
    BY <1>2 DEF asynctest!SetAsync
  <2>4. asynctest!TypeOK'
    BY <2>2, <2>3
  <2>5. avail' > 0 => Explained'
    BY <2>2, <2>3, Zenon DEF Explained
  <2>. QED  BY <2>3, <2>4, <2>5
<1>3. CASE asynctest!sighandler
  <2>1. gotdata' \in 0..2 /\ gotdata' > 0 /\ avail' = avail
    BY <1>3 DEF asynctest!sighandler
  <2>2. UNCHANGED <<early, more>> /\ interrupted' \in BOOLEAN /\ missed' \in BOOLEAN
        /\ sigio' \in BOOLEAN
    BY <1>3, Zenon DEF asynctest!sighandler
  <2>3. /\ at_pc' \in {"setup", "call", "asleep", "test", "read", "reset"}
        /\ at_pc' \in {"call", "asleep", "reset"} => Explained'
    BY <1>3 DEF asynctest!sighandler, Explained
  <2>. QED  BY <2>1, <2>2, <2>3
<1>4. CASE asynctest!Sleep
  <2>1. asynctest!TypeOK'
    BY <1>4 DEF asynctest!Sleep
  <2>. QED  BY <1>4, <2>1, Zenon DEF asynctest!Sleep, Explained
<1>5. CASE asynctest!Test
  <2>1. asynctest!TypeOK'
    BY <1>5 DEF asynctest!Test
  <2>2. at_pc' = "read"
    BY <1>5 DEF asynctest!Test, asynctest!Got
  <2>. QED  BY <2>1, <2>2
<1>6. CASE asynctest!Read
  <2>1. avail' \in 0..MaxAvail
    BY <1>0, <1>6 DEF asynctest!Read
  <2>2. (avail > Chunk) \in BOOLEAN
    BY <1>0
  <2>3. /\ early' \in BOOLEAN /\ more' \in BOOLEAN /\ interrupted' \in BOOLEAN
        /\ missed' \in BOOLEAN /\ (more' <=> avail > Chunk)
    BY <1>6, <2>2, Zenon DEF asynctest!Read
  <2>4. at_pc' = "reset" /\ UNCHANGED <<gotdata, sigio>>
    BY <1>6 DEF asynctest!Read
  <2>5. asynctest!TypeOK'
    BY <2>1, <2>3, <2>4
  <2>6. CASE avail > Chunk
    <3>1. Explained'
      BY <2>3, <2>6, Zenon DEF Explained
    <3>. QED  BY <2>4, <2>5, <3>1
  <2>7. CASE ~(avail > Chunk)
    <3>1. avail' = 0
      BY <1>6, <2>7 DEF asynctest!Read
    <3>. QED  BY <2>4, <2>5, <3>1
  <2>. QED  BY <2>6, <2>7
<1>7. CASE asynctest!Reset
  <2>1. asynctest!TypeOK'
    BY <1>7 DEF asynctest!Reset
  <2>2. at_pc = "reset" /\ at_pc' = "call"
    BY <1>7 DEF asynctest!Reset
  <2>3. UNCHANGED <<avail, sigio, early, more, interrupted, missed>>
    BY <1>7 DEF asynctest!Reset
  <2>4. avail' > 0 => sigio' \/ Explained'
    <3>1. avail > 0 => sigio \/ Explained
      BY <2>2
    <3>. QED  BY <2>3, <3>1, Zenon DEF Explained
  <2>. QED  BY <2>1, <2>2, <2>4
<1>. QED  BY <1>1, <1>2, <1>3, <1>4, <1>5, <1>6, <1>7 DEF asynctest!Next

\* The invariant is inductive.
LEMMA AsyncTestInvariance == PartsSpec => []AsyncTestInv
<1>1. PartsInit => AsyncTestInv
  <2>. SUFFICES ASSUME asynctest!Init PROVE AsyncTestInv  BY DEF PartsInit
  <2>1. 0 \in 0..MaxAvail
    BY ChunkAssumption
  <2>2. /\ sigio \in BOOLEAN /\ early \in BOOLEAN /\ more \in BOOLEAN
        /\ interrupted \in BOOLEAN /\ missed \in BOOLEAN
    BY Zenon DEF asynctest!Init
  <2>3. at_pc = "setup" /\ gotdata \in 0..2 /\ avail \in 0..MaxAvail
    BY <2>1 DEF asynctest!Init
  <2>. QED  BY <2>2, <2>3 DEF AsyncTestInv, asynctest!TypeOK
<1>2. AsyncTestInv /\ [PartsNext]_all => AsyncTestInv'
  <2>. SUFFICES ASSUME AsyncTestInv, [PartsNext]_all PROVE AsyncTestInv'  OBVIOUS
  <2>1. CASE UNCHANGED asynctest!vars
    BY <2>1 DEF asynctest!vars, asynctest!history, AsyncTestInv, asynctest!TypeOK, Explained
  <2>. QED  BY <2>1, AsyncTestKeeps, WaitFrame
<1>. QED  BY <1>1, <1>2, PTL DEF PartsSpec

\* For any buffer and any amount of data: asynctest sleeps beside data it could read
\* only when the data was there before FASYNC was set, when the last read has left some
\* or was interrupted, or when a signal fell between that read and the sleep.
THEOREM MissesExplained == PartsSpec => []DataNoticed
<1>1. AsyncTestInv => DataNoticed
  BY DEF AsyncTestInv, Explained, DataNoticed, asynctest!DataNoticed
<1>. QED  BY AsyncTestInvariance, <1>1, PTL

-----------------------------------------------------------------------------
(* jit.c, the delays *)

\* Until a whole turn of the clock has passed since the call began, the clock tells
\* how long that is.
JitDelayInv ==
  /\ jiffies \in 0..(Wrap - 1) /\ j0 \in 0..(Wrap - 1) /\ elapsed \in 0..Wrap
  /\ show # "none" =>
       /\ j1 = IF j0 + Delay < Wrap THEN j0 + Delay ELSE j0 + Delay - Wrap
       /\ elapsed < Wrap =>
            jiffies = IF j0 + elapsed < Wrap THEN j0 + elapsed ELSE j0 + elapsed - Wrap

\* What % does to a sum of two times, and to their difference.
LEMMA SumMod ==
  ASSUME NEW w \in Nat \ {0}, NEW a \in 0..(w - 1), NEW b \in 0..w
  PROVE  (a + b) % w = IF a + b < w THEN a + b ELSE a + b - w
<1>1. DEFINE q == IF a + b < w THEN 0 ELSE 1
             r == IF a + b < w THEN a + b ELSE a + b - w
<1>2. a + b = q * w + r /\ r \in 0..(w - 1)
  OBVIOUS
<1>. QED  BY <1>2

LEMMA DiffMod ==
  ASSUME NEW w \in Nat \ {0}, NEW a \in 0..(w - 1), NEW b \in 0..(w - 1)
  PROVE  (a - b) % w = IF a >= b THEN a - b ELSE a - b + w
OBVIOUS

LEMMA JitDelayKeeps ==
  ASSUME JitDelayInv, jitdelay!Next
  PROVE  JitDelayInv'
<1>0. Wrap \in Nat \ {0} /\ Delay \in 0..Wrap
  BY DelayAssumption
<1>1. CASE jitdelay!Tick
  <2>1. jiffies' = IF jiffies + 1 < Wrap THEN jiffies + 1 ELSE jiffies + 1 - Wrap
    <3>1. jiffies \in 0..(Wrap - 1) /\ 1 \in 0..Wrap /\ jiffies' = (jiffies + 1) % Wrap
      BY <1>0, <1>1 DEF jitdelay!Tick, JitDelayInv
    <3>. QED  BY <1>0, <3>1, SumMod
  <2>. QED  BY <1>0, <1>1, <2>1 DEF jitdelay!Tick, JitDelayInv
<1>2. CASE jitdelay!Begin
  <2>1. j1' = IF j0' + Delay < Wrap THEN j0' + Delay ELSE j0' + Delay - Wrap
    BY <1>0, <1>2, SumMod DEF jitdelay!Begin, JitDelayInv
  <2>. QED  BY <1>0, <1>2, <2>1 DEF jitdelay!Begin, JitDelayInv
<1>3. CASE jitdelay!Signal
  BY <1>3 DEF jitdelay!Signal, JitDelayInv
<1>4. CASE jitdelay!End
  BY <1>4 DEF jitdelay!End, JitDelayInv
<1>. QED  BY <1>1, <1>2, <1>3, <1>4 DEF jitdelay!Next

\* A loop that finds the time come has run for delay ticks, or for a whole turn.
LEMMA TimeCome ==
  ASSUME JitDelayInv, show # "none", ~jitdelay!time_before(jiffies, j1)
  PROVE  elapsed >= Delay
<1>0. Wrap \in Nat \ {0} /\ Delay \in Nat /\ Delay + Delay <= Wrap
  BY DelayAssumption
<1>. SUFFICES ASSUME elapsed < Delay PROVE FALSE
  BY <1>0 DEF JitDelayInv
<1>1. jiffies \in 0..(Wrap - 1) /\ j1 \in 0..(Wrap - 1)
  BY <1>0 DEF JitDelayInv
<1>2. (jiffies - j1) % Wrap = IF jiffies >= j1 THEN jiffies - j1 ELSE jiffies - j1 + Wrap
  BY <1>0, <1>1, DiffMod
<1>3. (jiffies - j1) % Wrap = elapsed - Delay + Wrap
  BY <1>0, <1>1, <1>2 DEF JitDelayInv
<1>4. Wrap \div 2 <= Wrap - Delay
  BY <1>0
<1>. QED  BY <1>0, <1>3, <1>4 DEF jitdelay!time_before, JitDelayInv

\* The invariant is inductive.
LEMMA JitDelayInvariance == PartsSpec => []JitDelayInv
<1>1. PartsInit => JitDelayInv
  BY DelayAssumption DEF PartsInit, jitdelay!Init, JitDelayInv
<1>2. JitDelayInv /\ [PartsNext]_all => JitDelayInv'
  <2>. SUFFICES ASSUME JitDelayInv, [PartsNext]_all PROVE JitDelayInv'  OBVIOUS
  <2>1. CASE UNCHANGED jitdelay!vars
    BY <2>1 DEF jitdelay!vars, JitDelayInv
  <2>. QED  BY <2>1, JitDelayKeeps, WaitFrame
<1>. QED  BY <1>1, <1>2, PTL DEF PartsSpec

\* For every size of the clock that has room for the delay twice: nobody returns before
\* delay ticks have passed, a sleeper that a signal wakes excepted.
THEOREM NobodyEarly == PartsSpec => DelayHonoured
<1>1. JitDelayInv /\ [PartsNext]_all =>
        [jitdelay!End => elapsed >= Delay
           \/ (show \in {"JIT_QUEUE", "JIT_SCHEDTO"} /\ delay_hurried)]_(jitdelay!vars)
  BY TimeCome, WaitFrame DEF jitdelay!End, jitdelay!Ready
<1>. QED
  BY JitDelayInvariance, <1>1, PTL DEF PartsSpec, DelayHonoured, jitdelay!DelayHonoured

-----------------------------------------------------------------------------
(* jiq.c *)

JiqTypes ==
  /\ jiq_pc \in [Procs -> {"out", "print", "prepare", "start", "sleep", "done"}]
  /\ jiq_file \in [Procs -> jiq!Files \cup {None}]
  /\ printing \in [jiq!Files -> Procs \cup {None, Gone}]
  /\ pending \subseteq jiq!Files /\ jiq_proc \subseteq jiq!Files
  /\ m \in Procs \cup {None, Gone}
  /\ past \in {"quiet", "hurried", "crowded"}
  /\ \A p \in Procs : jiq!Reading(p) => jiq_file[p] \in jiq!Files
  /\ \A p \in Procs : jiq_pc[p] = "print" => jiq_file[p] = "timer"
  /\ \A p \in Procs : p \in jiq_signals => jiq!Reading(p)
  /\ \A p \in Procs : m = p => jiq!Reading(p)

\* While nobody has met another, a reader is alone and the seq_file is its own.
JiqAlone ==
  past # "crowded" =>
    \A p \in Procs : jiq!Reading(p) =>
      /\ m = p
      /\ \A q \in Procs : jiq!Reading(q) => q = p

\* A reader that waits has its callback due or at work, or has been woken.
JiqDue ==
  past # "crowded" =>
    \A p \in Procs :
      /\ jiq_file[p] \in Works /\ jiq_pc[p] = "sleep" =>
           p \notin jiq_wait \/ jiq_file[p] \in pending \/ printing[jiq_file[p]] # None
      /\ jiq_file[p] \notin Works /\ jiq_pc[p] \in {"prepare", "sleep"} =>
           wait_cond \/ jiq_file[p] \in pending \/ printing[jiq_file[p]] # None

\* Nothing is left of a reader p that has been alone and without signals, but for a
\* timer that del_timer_sync will stop.
JiqQuietFor(p) ==
  /\ p \notin jiq_signals
  /\ \A c \in jiq!Files : c # jiq_file[p] => c \notin pending /\ printing[c] = None
  /\ printing[jiq_file[p]] \in {None, p}
  /\ jiq_file[p] \in pending => printing[jiq_file[p]] = None
  /\ jiq_pc[p] \in {"print", "start"} => jiq!Idle
  /\ jiq_file[p] \in Works =>
       /\ jiq_pc[p] \in {"prepare", "done"} => jiq!Idle
       /\ jiq_pc[p] = "sleep" /\ p \notin jiq_wait => jiq!Idle
       /\ jiq_pc[p] = "start" => p \in jiq_wait
  /\ jiq_file[p] = "tasklet" =>
       /\ jiq_pc[p] = "done" \/ wait_cond => jiq!Idle
       /\ jiq_pc[p] = "start" => ~wait_cond

JiqQuiet ==
  past = "quiet" =>
    /\ \A p \in Procs : jiq!Reading(p) => JiqQuietFor(p)
    /\ (\A p \in Procs : ~jiq!Reading(p)) => jiq!Idle

JiqInv == JiqTypes /\ JiqAlone /\ JiqDue /\ JiqQuiet

\* Types, and that a seq_file in jiq_data is of a reader.
LEMMA JiqTypesKept ==
  ASSUME JiqInv, jiq!Next
  PROVE  JiqTypes'
<1>. USE NamesAssumption
     DEF JiqInv, JiqTypes, JiqAlone,  jiq!Reading, jiq!Goto, jiq!data, jiq!Files,
         jiq!Idle, jiq!Woken
<1>1. CASE jiq!Load    BY <1>1 DEF jiq!Load
<1>2. CASE jiq!Unload  BY <1>2 DEF jiq!Unload
<1>3. ASSUME NEW p \in Procs, jiq!Begin(p) PROVE JiqTypes'
  BY <1>3 DEF jiq!Begin, jiq!Place
<1>4. ASSUME NEW p \in Procs, jiq!PrintFirst(p) PROVE JiqTypes'
  BY <1>4 DEF jiq!PrintFirst
<1>5. ASSUME NEW p \in Procs, jiq!Prepare(p) PROVE JiqTypes'
  BY <1>5 DEF jiq!Prepare
<1>6. ASSUME NEW p \in Procs, jiq!Start(p) PROVE JiqTypes'
  BY <1>6 DEF jiq!Start
<1>7. ASSUME NEW p \in Procs, jiq!Wake(p) PROVE JiqTypes'
  BY <1>7 DEF jiq!Wake
<1>8. ASSUME NEW p \in Procs, jiq!End(p) PROVE JiqTypes'
  BY <1>8 DEF jiq!End
<1>9. ASSUME NEW p \in Procs, jiq!Signal(p) PROVE JiqTypes'
  BY <1>9 DEF jiq!Signal
<1>10. ASSUME NEW c \in jiq!Files, jiq!Run(c) PROVE JiqTypes'
  BY <1>10 DEF jiq!Run
<1>11. ASSUME NEW c \in jiq!Files, jiq!PrintLine(c) PROVE JiqTypes'
  BY <1>11 DEF jiq!PrintLine
<1>. QED  BY <1>1, <1>2, <1>3, <1>4, <1>5, <1>6, <1>7, <1>8, <1>9, <1>10,
       <1>11 DEF jiq!Next, jiq!Reader

\* Who is alone stays it until another begins.
LEMMA JiqAloneKept ==
  ASSUME JiqInv, jiq!Next
  PROVE  JiqAlone'
<1>. USE NamesAssumption
     DEF JiqInv, JiqTypes, JiqAlone,  jiq!Reading, jiq!Goto, jiq!data, jiq!Files,
         jiq!Idle, jiq!Woken
<1>1. CASE jiq!Load    BY <1>1 DEF jiq!Load
<1>2. CASE jiq!Unload  BY <1>2 DEF jiq!Unload
<1>3. ASSUME NEW p \in Procs, jiq!Begin(p) PROVE JiqAlone'
  BY <1>3 DEF jiq!Begin, jiq!Place
<1>4. ASSUME NEW p \in Procs, jiq!PrintFirst(p) PROVE JiqAlone'
  BY <1>4 DEF jiq!PrintFirst
<1>5. ASSUME NEW p \in Procs, jiq!Prepare(p) PROVE JiqAlone'
  BY <1>5 DEF jiq!Prepare
<1>6. ASSUME NEW p \in Procs, jiq!Start(p) PROVE JiqAlone'
  BY <1>6 DEF jiq!Start
<1>7. ASSUME NEW p \in Procs, jiq!Wake(p) PROVE JiqAlone'
  BY <1>7 DEF jiq!Wake
<1>8. ASSUME NEW p \in Procs, jiq!End(p) PROVE JiqAlone'
  BY <1>8 DEF jiq!End
<1>9. ASSUME NEW p \in Procs, jiq!Signal(p) PROVE JiqAlone'
  BY <1>9 DEF jiq!Signal
<1>10. ASSUME NEW c \in jiq!Files, jiq!Run(c) PROVE JiqAlone'
  BY <1>10 DEF jiq!Run
<1>11. ASSUME NEW c \in jiq!Files, jiq!PrintLine(c) PROVE JiqAlone'
  BY <1>11 DEF jiq!PrintLine
<1>. QED  BY <1>1, <1>2, <1>3, <1>4, <1>5, <1>6, <1>7, <1>8, <1>9, <1>10,
       <1>11 DEF jiq!Next, jiq!Reader

\* A callback that has run is due again or has woken.
LEMMA JiqDueKept ==
  ASSUME JiqInv, jiq!Next
  PROVE  JiqDue'
<1>. USE NamesAssumption
     DEF JiqInv, JiqTypes, JiqAlone, JiqDue, jiq!Reading, jiq!Goto, jiq!data, jiq!Files,
         jiq!Idle, jiq!Woken
<1>1. CASE jiq!Load    BY <1>1 DEF jiq!Load
<1>2. CASE jiq!Unload  BY <1>2 DEF jiq!Unload
<1>3. ASSUME NEW p \in Procs, jiq!Begin(p) PROVE JiqDue'
  BY <1>3 DEF jiq!Begin, jiq!Place
<1>4. ASSUME NEW p \in Procs, jiq!PrintFirst(p) PROVE JiqDue'
  BY <1>4 DEF jiq!PrintFirst
<1>5. ASSUME NEW p \in Procs, jiq!Prepare(p) PROVE JiqDue'
  BY <1>5 DEF jiq!Prepare
<1>6. ASSUME NEW p \in Procs, jiq!Start(p) PROVE JiqDue'
  BY <1>6 DEF jiq!Start
<1>7. ASSUME NEW p \in Procs, jiq!Wake(p) PROVE JiqDue'
  BY <1>7 DEF jiq!Wake
<1>8. ASSUME NEW p \in Procs, jiq!End(p) PROVE JiqDue'
  BY <1>8 DEF jiq!End
<1>9. ASSUME NEW p \in Procs, jiq!Signal(p) PROVE JiqDue'
  BY <1>9 DEF jiq!Signal
<1>10. ASSUME NEW c \in jiq!Files, jiq!Run(c) PROVE JiqDue'
  BY <1>10 DEF jiq!Run
<1>11. ASSUME NEW c \in jiq!Files, jiq!PrintLine(c) PROVE JiqDue'
  BY <1>11 DEF jiq!PrintLine
<1>. QED  BY <1>1, <1>2, <1>3, <1>4, <1>5, <1>6, <1>7, <1>8, <1>9, <1>10,
       <1>11 DEF jiq!Next, jiq!Reader

\* A callback outlasts a quiet reader only as far as del_timer_sync waits.
LEMMA JiqQuietKept ==
  ASSUME JiqInv, jiq!Next
  PROVE  JiqQuiet'
<1>. USE NamesAssumption
     DEF JiqInv, JiqTypes, JiqAlone, JiqQuiet, JiqQuietFor, jiq!Reading, jiq!Goto,
         jiq!data, jiq!Files, jiq!Idle, jiq!Woken
<1>1. CASE jiq!Load    BY <1>1 DEF jiq!Load
<1>2. CASE jiq!Unload  BY <1>2 DEF jiq!Unload
<1>3. ASSUME NEW p \in Procs, jiq!Begin(p) PROVE JiqQuiet'
  <2>1. past' = "quiet" => jiq!Idle /\ \A q \in Procs : jiq!Reading(q) => q = p
    BY <1>3 DEF jiq!Begin
  <2>2. PICK f \in jiq_proc :
          /\ jiq_pc' = [jiq_pc EXCEPT ![p] = jiq!Place(f)]
          /\ jiq_file' = [jiq_file EXCEPT ![p] = f] /\ wait_cond' = (wait_cond /\ f \in Works)
          /\ pending' \subseteq pending /\ printing' = printing /\ jiq_signals' = jiq_signals
          /\ jiq_pc[p] = "out"
    BY <1>3 DEF jiq!Begin
  <2>3. past' = "quiet" => jiq!Idle'
    BY <2>1, <2>2
  <2>4. past' = "quiet" => JiqQuietFor(p)'
    <3>1. jiq_pc'[p] = jiq!Place(f) /\ jiq_file'[p] = f /\ p \notin jiq_signals' /\ f \in jiq!Files
      BY <2>2
    <3>2. f = "tasklet" => ~wait_cond'
      BY <2>2
    <3>. QED  BY <2>3, <3>1, <3>2 DEF jiq!Place
  <2>5. past' = "quiet" => \A q \in Procs : jiq!Reading(q)' => q = p
    BY <2>1, <2>2
  <2>. QED  BY <2>3, <2>4, <2>5
<1>4. ASSUME NEW p \in Procs, jiq!PrintFirst(p) PROVE JiqQuiet'
  BY <1>4 DEF jiq!PrintFirst
<1>5. ASSUME NEW p \in Procs, jiq!Prepare(p) PROVE JiqQuiet'
  BY <1>5 DEF jiq!Prepare
<1>6. ASSUME NEW p \in Procs, jiq!Start(p) PROVE JiqQuiet'
  BY <1>6 DEF jiq!Start
<1>7. ASSUME NEW p \in Procs, jiq!Wake(p) PROVE JiqQuiet'
  BY <1>7 DEF jiq!Wake
<1>8. ASSUME NEW p \in Procs, jiq!End(p) PROVE JiqQuiet'
  BY <1>8 DEF jiq!End
<1>9. ASSUME NEW p \in Procs, jiq!Signal(p) PROVE JiqQuiet'
  BY <1>9 DEF jiq!Signal
<1>10. ASSUME NEW c \in jiq!Files, jiq!Run(c) PROVE JiqQuiet'
  BY <1>10 DEF jiq!Run
<1>11. ASSUME NEW c \in jiq!Files, jiq!PrintLine(c) PROVE JiqQuiet'
  BY <1>11 DEF jiq!PrintLine
<1>. QED  BY <1>1, <1>2, <1>3, <1>4, <1>5, <1>6, <1>7, <1>8, <1>9, <1>10,
       <1>11 DEF jiq!Next, jiq!Reader

\* The invariant is inductive.
LEMMA JiqInvariance == PartsSpec => []JiqInv
<1>1. PartsInit => JiqInv
  BY NamesAssumption
     DEF PartsInit, jiq!Init, JiqInv, JiqTypes, JiqAlone, JiqDue, JiqQuiet, JiqQuietFor,
         jiq!Reading, jiq!Idle, jiq!Files
<1>2. JiqInv /\ [PartsNext]_all => JiqInv'
  <2>. SUFFICES ASSUME JiqInv, [PartsNext]_all PROVE JiqInv'  OBVIOUS
  <2>1. CASE UNCHANGED jiq!vars
    BY <2>1 DEF jiq!vars, JiqInv, JiqTypes, JiqAlone, JiqDue, JiqQuiet, JiqQuietFor,
                jiq!Reading, jiq!Idle
  <2>2. CASE jiq!Next
    BY <2>2, JiqTypesKept, JiqAloneKept, JiqDueKept, JiqQuietKept DEF JiqInv
  <2>. QED  BY <2>1, <2>2, WaitFrame
<1>. QED  BY <1>1, <1>2, PTL DEF PartsSpec

\* For any processes and files: readers that come one at a time are not left asleep,
\* and without signals no callback prints to what has been released.
THEOREM AloneIsSafe == PartsSpec => []AloneUndisturbed
<1>1. JiqInv => AloneUndisturbed
  <2>. SUFFICES ASSUME JiqInv PROVE jiq!AloneUndisturbed  BY DEF AloneUndisturbed
  <2>1. past # "crowded" => \A p \in Procs : ~jiq!Stranded(p)
    BY DEF JiqInv, JiqDue, JiqTypes, jiq!Stranded, jiq!Idle, jiq!Reading
  <2>2. past = "quiet" => Gone \notin {printing[c] : c \in jiq!Files}
    BY NamesAssumption DEF JiqInv, JiqQuiet, JiqQuietFor, JiqTypes, jiq!Idle, jiq!Reading
  <2>3. past = "quiet" /\ m \notin Procs => pending = {}
    BY NamesAssumption DEF JiqInv, JiqAlone, JiqQuiet, JiqTypes, jiq!Idle, jiq!Reading
  <2>. QED  BY <2>1, <2>2, <2>3 DEF jiq!AloneUndisturbed
<1>. QED  BY JiqInvariance, <1>1, PTL

-----------------------------------------------------------------------------
(* The types of all the parts *)

\* A behaviour of the composition is, for scull's module, one of ScullModule.
LEMMA ModulePart == PartsSpec => Spec
<1>1. PartsInit => Init
  BY DEF PartsInit
<1>2. [PartsNext]_all => [Next]_vars
  BY DEF PartsNext, Others, all, vars, files
<1>. QED  BY <1>1, <1>2, PTL DEF PartsSpec, Spec

\* What the invariant of jiq leaves open of the types.
JiqWaitTypes ==
  wait_cond \in BOOLEAN /\ jiq_wait \subseteq Procs /\ jiq_signals \subseteq Procs

LEMMA JiqWaitTypesKept ==
  ASSUME JiqWaitTypes, jiq!Next
  PROVE  JiqWaitTypes'
<1>. USE DEF JiqWaitTypes, jiq!data, jiq!Woken
<1>1. CASE jiq!Load    BY <1>1 DEF jiq!Load
<1>2. CASE jiq!Unload  BY <1>2 DEF jiq!Unload
<1>3. ASSUME NEW p \in Procs, jiq!Begin(p) \/ jiq!End(p) \/ jiq!Signal(p) PROVE JiqWaitTypes'
  BY <1>3 DEF jiq!Begin, jiq!End, jiq!Signal
<1>4. ASSUME NEW p \in Procs,
             jiq!PrintFirst(p) \/ jiq!Prepare(p) \/ jiq!Start(p) \/ jiq!Wake(p)
      PROVE  JiqWaitTypes'
  BY <1>4 DEF jiq!PrintFirst, jiq!Prepare, jiq!Start, jiq!Wake
<1>5. ASSUME NEW c \in jiq!Files, jiq!Run(c) \/ jiq!PrintLine(c) PROVE JiqWaitTypes'
  BY <1>5 DEF jiq!Run, jiq!PrintLine
<1>. QED  BY <1>1, <1>2, <1>3, <1>4, <1>5 DEF jiq!Next, jiq!Reader

\* A file in /proc never gets beyond what there is to show, and who counts is where
\* ct_seq_next has left it: before the last number.
SeqBounds ==
  /\ \A r \in Procs :
       /\ {index[r], i[r], shown[r]} \subseteq 0..(N + MaxCount + 1)
       /\ seq_pc[r] = "count" => i[r] < MaxCount
  /\ seq_pos = {r \in Procs : seq_pc[r] = "count"}
  /\ changed \subseteq Procs /\ cut \subseteq Procs

LEMMA SeqBoundsKept ==
  ASSUME SeqInv, SeqBounds, seq!Next
  PROVE  SeqBounds'
<1>0. N \in Nat \ {0} /\ MaxCount \in Nat
  BY NumbersAssumption
<1>. USE <1>0 DEF SeqInv, SeqTypes, SeqBounds, seq!Goto
<1>1. ASSUME NEW r \in Procs, seq!Open(r) PROVE SeqBounds'
  BY <1>1 DEF seq!Open
<1>2. ASSUME NEW r \in Procs, seq!Close(r) PROVE SeqBounds'
  BY <1>2 DEF seq!Close
<1>3. ASSUME NEW r \in Procs, seq!Start(r) PROVE SeqBounds'
  BY <1>3 DEF seq!Start, seq!Show
<1>4. ASSUME NEW r \in Procs, seq!Load(r) PROVE SeqBounds'
  BY <1>4 DEF seq!Load
<1>5. ASSUME NEW r \in Procs, seq!Lock(r) PROVE SeqBounds'
  BY <1>5 DEF seq!Lock
<1>6. ASSUME NEW r \in Procs, seq!Interrupted(r) \/ seq!Overflow(r) PROVE SeqBounds'
  BY <1>6 DEF seq!Interrupted, seq!Overflow, seq!Dropped
<1>7. ASSUME NEW r \in Procs, seq!Scan(r) PROVE SeqBounds'
  BY <1>7 DEF seq!Scan, seq!Show, SeqReaderOK
<1>8. ASSUME NEW r \in Procs, seq!Count(r) PROVE SeqBounds'
  BY <1>8 DEF seq!Count, SeqReaderOK
<1>9. ASSUME NEW d \in seq!Devs, seq!Replace(d) PROVE SeqBounds'
  BY <1>9 DEF seq!Replace
<1>. QED  BY <1>1, <1>2, <1>3, <1>4, <1>5, <1>6, <1>7, <1>8, <1>9 DEF seq!Next

\* What the invariant of silly leaves open.
SillyTypes ==
  silly_loaded \in BOOLEAN /\ leaked \in BOOLEAN

LEMMA SillyTypesKept ==
  ASSUME SillyTypes, silly!Next
  PROVE  SillyTypes'
BY DEF SillyTypes, silly!Next, silly!Return, silly!silly_init, silly!silly_cleanup,
       silly!silly_open, silly!silly_release, silly!silly_read, silly!silly_write,
       silly!silly_pread, silly!silly_pwrite, silly!Transfer

\* And the one of the delays of jit.
JitDelayTypes ==
  /\ j1 \in 0..(Wrap - 1) /\ delay_hurried \in BOOLEAN
  /\ show \in {"none", "JIT_BUSY", "JIT_SCHED", "JIT_QUEUE", "JIT_SCHEDTO"}

LEMMA JitDelayTypesKept ==
  ASSUME JitDelayInv, JitDelayTypes, jitdelay!Next
  PROVE  JitDelayTypes'
<1>0. Wrap \in Nat \ {0} /\ Delay \in Nat /\ jiffies \in 0..(Wrap - 1)
  BY DelayAssumption DEF JitDelayInv
<1>1. CASE jitdelay!Tick \/ jitdelay!Signal \/ jitdelay!End
  BY <1>0, <1>1 DEF jitdelay!Tick, jitdelay!Signal, jitdelay!End, JitDelayTypes
<1>2. CASE jitdelay!Begin
  <2>1. (jiffies + Delay) % Wrap \in 0..(Wrap - 1)
    BY <1>0
  <2>. QED  BY <1>2, <2>1 DEF jitdelay!Begin, JitDelayTypes
<1>. QED  BY <1>1, <1>2 DEF jitdelay!Next

\* The types as parts of inductive invariants.
LEMMA JiqTypesInvariance == PartsSpec => []JiqWaitTypes
<1>1. PartsInit => JiqWaitTypes
  BY DEF PartsInit, jiq!Init, JiqWaitTypes
<1>2. JiqWaitTypes /\ [PartsNext]_all => JiqWaitTypes'
  BY JiqWaitTypesKept, WaitFrame DEF jiq!vars, jiq!data, JiqWaitTypes
<1>. QED  BY <1>1, <1>2, PTL DEF PartsSpec

LEMMA SeqBoundsInvariance == PartsSpec => []SeqBounds
<1>1. PartsInit => SeqBounds
  BY NumbersAssumption DEF PartsInit, seq!Init, SeqBounds
<1>2. SeqInv /\ SeqBounds /\ [PartsNext]_all => SeqBounds'
  BY SeqBoundsKept, Frame DEF seq!vars, SeqBounds
<1>. QED  BY SeqInvariance, <1>1, <1>2, PTL DEF PartsSpec

LEMMA SillyTypesInvariance == PartsSpec => []SillyTypes
<1>1. PartsInit => SillyTypes
  BY DEF PartsInit, silly!Init, SillyTypes
<1>2. SillyTypes /\ [PartsNext]_all => SillyTypes'
  BY SillyTypesKept, Frame DEF silly!vars, SillyTypes
<1>. QED  BY <1>1, <1>2, PTL DEF PartsSpec

LEMMA JitDelayTypesInvariance == PartsSpec => [](JitDelayInv /\ JitDelayTypes)
<1>1. PartsInit => JitDelayTypes
  <2>. SUFFICES ASSUME jitdelay!Init PROVE JitDelayTypes  BY DEF PartsInit
  <2>1. delay_hurried \in BOOLEAN
    BY Zenon DEF jitdelay!Init
  <2>2. j1 \in 0..(Wrap - 1)
    BY DelayAssumption DEF jitdelay!Init
  <2>3. show = "none"
    BY DEF jitdelay!Init
  <2>. QED  BY <2>1, <2>2, <2>3 DEF JitDelayTypes
<1>2. JitDelayInv /\ JitDelayTypes /\ [PartsNext]_all => JitDelayTypes'
  BY JitDelayTypesKept, WaitFrame DEF jitdelay!vars, JitDelayTypes
<1>. QED  BY JitDelayInvariance, <1>1, <1>2, PTL DEF PartsSpec

LEMMA PartStays == PartsSpec => [](which \in Part)
<1>1. PartsInit => which \in Part
  BY DEF PartsInit
<1>2. which \in Part /\ [PartsNext]_all => (which \in Part)'
  BY DEF PartsNext, Others, all
<1>. QED  BY <1>1, <1>2, PTL DEF PartsSpec

\* In every behaviour, which is one of one part, that part keeps to its types: every
\* position, counter and index stays in the range its module names, and every queue
\* holds only processes.
THEOREM PartsTypes == PartsSpec => []PartsTypeOK
<1>1. JiqInv /\ JiqWaitTypes => jiq!TypeOK
  BY DEF JiqInv, JiqTypes, JiqWaitTypes, jiq!TypeOK
<1>2. SeqInv /\ SeqBounds => seq!TypeOK
  BY DEF SeqInv, SeqTypes, SeqBounds, seq!TypeOK
<1>3. SillyInv /\ SillyTypes => silly!TypeOK
  BY WindowAssumption
     DEF SillyInv, SillyTypes, silly!TypeOK, silly!TransfersExplained, silly!ISA_MAX
<1>4. JitDelayInv /\ JitDelayTypes => jitdelay!TypeOK
  BY DEF JitDelayInv, JitDelayTypes, jitdelay!TypeOK
<1>5. /\ IoctlInv => ioctl!TypeOK
      /\ JitInv => jit!TypeOK
      /\ MemInv => globalmem!TypeOK
      /\ SleepyInv => sleepy!TypeOK
      /\ CompleteInv => complete!TypeOK
      /\ AsyncTestInv => asynctest!TypeOK
      /\ Scull03Inv => scull03!TypeOK
      /\ IInv => TypeOK
  BY DEF Scull03Inv, IoctlInv, JitInv, MemInv, SleepyInv, CompleteInv, AsyncTestInv, IInv
<1>6. /\ which \in Part /\ IInv /\ JitInv /\ JiqInv /\ JiqWaitTypes /\ IoctlInv /\ SeqInv
      /\ SeqBounds /\ SleepyInv /\ CompleteInv /\ Scull03Inv /\ MemInv /\ SillyInv
      /\ SillyTypes /\ AsyncTestInv /\ JitDelayInv /\ JitDelayTypes
      => PartsTypeOK
  BY <1>1, <1>2, <1>3, <1>4, <1>5 DEF PartsTypeOK
<1>. QED
  BY <1>6, ModulePart, Invariance, IoctlInvariance, JitInvariance, MemInvariance,
     SleepyInvariance, CompleteInvariance, AsyncTestInvariance, JiqInvariance,
     JiqTypesInvariance, SeqInvariance, SeqBoundsInvariance, SillyInvariance,
     SillyTypesInvariance, Scull03Invariance, JitDelayTypesInvariance, PartStays, PTL
=============================================================================
