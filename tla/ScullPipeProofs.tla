-------------------------- MODULE ScullPipeProofs --------------------------
(***************************************************************************)
(* Theorems about ScullPipe, for any processes, byte values, buffer sizes  *)
(* and counts: the mutex is held exactly where it should be, the pointers  *)
(* stay in the buffer, hence every variable keeps its type; no wake-up of  *)
(* a reader is ever lost, and none of a writer is but by an open.  The     *)
(* processes that wait test the pointers without the mutex, one load at a  *)
(* time, so the invariants about them speak of what a process between its  *)
(* two loads has seen as well as of the sleepers.                          *)
(***************************************************************************)
EXTENDS ScullPipe, TLAPS

(* What `%' gives in the range the pointer arithmetic of spacefree uses. *)
LEMMA ModBelow ==
  ASSUME NEW x \in Nat, NEW n \in Nat, n > 0, x < n
  PROVE  x % n = x
  BY SMT

(* The other half: an argument of `%' at most once too large. *)
LEMMA ModOnce ==
  ASSUME NEW x \in Nat, NEW n \in Nat, n > 0, n <= x, x < n + n
  PROVE  x % n = x - n
  BY SMT

(* With both pointers inside the buffer, spacefree is never negative, and it *)
(* is the room up to rp when the write pointer has wrapped.                  *)
LEMMA SpaceFreeRange ==
  ASSUME buffersize \in Nat, rp \in Nat, wp \in Nat,
         rp < buffersize, wp < buffersize
  PROVE  /\ SpaceFree \in 0 .. buffersize - 1
         /\ wp < rp => SpaceFree = rp - wp - 1
<1>1. CASE rp = wp
  BY <1>1 DEF SpaceFree, SpaceFrom
<1>2. CASE wp < rp
  <2>1. (rp + buffersize - wp) % buffersize = (rp + buffersize - wp) - buffersize
    BY <1>2, ModOnce
  <2>2. QED BY <1>2, <2>1 DEF SpaceFree, SpaceFrom
<1>3. CASE rp < wp
  <2>1. (rp + buffersize - wp) % buffersize = rp + buffersize - wp
    BY <1>3, ModBelow
  <2>2. QED BY <1>3, <2>1 DEF SpaceFree, SpaceFrom
<1>4. QED BY <1>1, <1>2, <1>3

(* What a write accepts never takes wp past the end of the buffer. *)
LEMMA AcceptedRange ==
  ASSUME buffersize \in Nat, rp \in Nat, wp \in Nat,
         rp < buffersize, wp < buffersize, NEW n \in Nat
  PROVE  Accepted(n) \in 0 .. (buffersize - wp)
<1>1. SpaceFree \in 0 .. buffersize - 1
  BY SpaceFreeRange
<1>2. QED BY <1>1 DEF Accepted, Min2

(* Storing bytes in the buffer leaves it an array of bytes. *)
LEMMA StoredType ==
  ASSUME NEW V, buffer \in [0 .. BufMax - 1 -> V], NEW b \in Seq(V), NEW at \in Nat
  PROVE  Stored(at, b) \in [0 .. BufMax - 1 -> V]
  BY DEF Stored

-----------------------------------------------------------------------------
(* The inductive invariant: an open at its last store has already set the   *)
(* size and the write pointer.                                              *)
OpeningOK == \A p \in Procs : pc[p] = "o_rp" => buffersize > 0 /\ wp = 0

IInv == TypeOK /\ LockBalanced /\ RingOK /\ OpeningOK

(* The driver starts in the invariant: nobody is in a call, both pointers are 0. *)
LEMMA InitIInv == Init => IInv
<1> SUFFICES ASSUME Init PROVE IInv
  OBVIOUS
<1> USE SizesAssumption DEF Init
<1>1. TypeOK
  BY DEF TypeOK, Pcs, Outside
<1>2. LockBalanced
  BY ProcsAssumption DEF LockBalanced, Locked
<1>3. RingOK /\ OpeningOK
  BY DEF RingOK, SomeOpen, IsOpen, Unopened, OpeningOK
<1>4. QED BY <1>1, <1>2, <1>3 DEF IInv


ANext(p) ==
  Kernel(p) \/ Call(p) \/ Close(p) \/ Fasync(p) \/ IoctlSize(p) \/ Signal(p)

CallsTyped ==
  /\ pc \in [Procs -> Pcs]
  /\ sig \subseteq Procs
  /\ ubuf \in [Procs -> Seq(Values \cup {Junk})]

(* A step of a call leaves the places, signals and read bytes well typed ... *)
LEMMA StepTyped ==
  ASSUME CallsTyped, NEW p \in Procs, NEW from, NEW to \in Pcs, Step(p, from, to)
  PROVE  CallsTyped'
  BY DEF CallsTyped, Step, Goto

(* ... and so does the return to user space. *)
LEMMA ReturnTyped ==
  ASSUME CallsTyped, NEW p \in Procs, NEW from, NEW to \in Pcs, Return(p, from, to)
  PROVE  CallsTyped'
<1>1. <<>> \in Seq(Values \cup {Junk})
  OBVIOUS
<1>2. QED BY <1>1 DEF CallsTyped, Return, Goto

(* The places the model names are places. *)
LEMMA PcsTyped ==
  /\ {"closed", "idle"} \subseteq Pcs
  /\ {"o_lock", "o_alloc", "o_set", "o_rp", "c_lock", "c_cs", "p_lock", "p_cs",
      "p_sleep"} \subseteq Pcs
  /\ {"r_lock", "r_cs", "r_prep", "r_test", "r_test2", "r_sleep", "r_wrap",
      "r_wake"} \subseteq Pcs
  /\ {"w_lock", "w_cs", "w_prep", "w_test", "w_test2", "w_sleep", "w_fin", "w_wrap",
      "w_wake", "w_async"} \subseteq Pcs
  BY DEF Pcs, Outside, Locked

(* Every step of every call goes to a place and keeps what it carries typed. *)
LEMMA CallsStep ==
  ASSUME CallsTyped, async_queue \subseteq Procs, NEW p \in Procs, ANext(p),
         ReadCopy(p) => ubuf' \in [Procs -> Seq(Values \cup {Junk})]
  PROVE  CallsTyped'
<1> USE PcsTyped, StepTyped, ReturnTyped
<1>1. CASE MutexLock(p) \/ TestLoad(p) \/ Woken(p) \/ OpenSet(p)
  BY <1>1 DEF MutexLock, TestLoad, Woken, OpenSet
<1>2. CASE LockInterrupted(p) \/ OpenAlloc(p) \/ OpenReset(p) \/ CloseFree(p)
  BY <1>2 DEF LockInterrupted, OpenAlloc, OpenReset, CloseFree
<1>3. CASE ReadEmpty(p) \/ ReadPrepare(p) \/ ReadTest(p) \/ ReadFault(p) \/ ReadWrap(p) \/ ReadWake(p)
  BY <1>3 DEF ReadEmpty, ReadPrepare, ReadTest, ReadFault, ReadWrap, ReadWake
<1>4. CASE WriteFull(p) \/ WritePrepare(p) \/ WriteTest(p) \/ WriteFinishWait(p) 
  BY <1>4 DEF WriteFull, WritePrepare, WriteTest, WriteFinishWait
<1>5. CASE WriteCopy(p) \/ WriteFault(p) \/ WriteWrap(p) \/ WriteWake(p)
  BY <1>5 DEF WriteCopy, WriteFault, WriteWrap, WriteWake
<1>6. CASE PollScan(p) \/ PollWoken(p) 
  BY <1>6 DEF PollScan, PollWoken
<1>7. CASE Call(p) \/ Close(p)
  BY <1>7 DEF Call, Close
<1>8. CASE ReadCopy(p)
  BY <1>8 DEF ReadCopy, CallsTyped, Goto
<1>9. CASE WriteAsync(p)
  <2>1. <<>> \in Seq(Values \cup {Junk})
    OBVIOUS
  <2>2. QED BY <1>9, <2>1 DEF WriteAsync, CallsTyped, Goto
<1>10. CASE Fasync(p) \/ IoctlSize(p) \/ Signal(p)
  BY <1>10 DEF Fasync, IoctlSize, Signal, CallsTyped, calls
<1>11. QED BY <1>1, <1>2, <1>3, <1>4, <1>5, <1>6, <1>7, <1>8, <1>9, <1>10
           DEF ANext, Kernel

-----------------------------------------------------------------------------
(* The mutex.  A process that moves either takes it, gives it back or stays *)
(* on its side.                                                             *)

(* Taking the mutex on the way into a locked place. *)
LEMMA Taken ==
  ASSUME CallsTyped, LockBalanced, NEW p \in Procs, NEW from, NEW to \in Locked,
         Goto(p, from, to), mutex = NoProc, mutex' = p
  PROVE  LockBalanced'
  BY ProcsAssumption DEF CallsTyped, LockBalanced, Goto

(* Giving it back on the way out of one. *)
LEMMA Released ==
  ASSUME CallsTyped, LockBalanced, NEW p \in Procs, NEW from \in Locked, NEW to,
         to \notin Locked, Goto(p, from, to), Unlock
  PROVE  LockBalanced'
  BY ProcsAssumption DEF CallsTyped, LockBalanced, Goto, Unlock

(* Staying on the same side without touching it. *)
LEMMA Kept ==
  ASSUME CallsTyped, LockBalanced, NEW p \in Procs, NEW from, NEW to,
         from \in Locked <=> to \in Locked, Goto(p, from, to), mutex' = mutex
  PROVE  LockBalanced'
  BY DEF CallsTyped, LockBalanced, Goto

(* Which of the places hold the mutex. *)
LEMMA LockedPcs ==
  /\ {"o_alloc", "o_set", "o_rp", "c_cs", "r_cs", "r_wrap", "w_cs", "w_wrap", "p_cs"}
       \subseteq Locked
  /\ Locked \cap {"closed", "idle", "o_lock", "c_lock", "p_lock", "p_sleep",
                  "r_lock", "r_prep", "r_test", "r_test2", "r_sleep", "r_wake", 
                  "w_lock", "w_prep", "w_test", "w_test2", "w_sleep", "w_fin",
                  "w_wake", "w_async"} = {}
  BY DEF Locked

(* Every step of every call keeps the mutex and the places in agreement. *)
LEMMA LockStep ==
  ASSUME CallsTyped, LockBalanced, NEW p \in Procs, ANext(p)
  PROVE  LockBalanced'
<1> USE LockedPcs DEF Step, Return
<1>1. CASE MutexLock(p)
  BY <1>1, Taken DEF MutexLock
<1>2. CASE OpenReset(p) \/ CloseFree(p) \/ ReadEmpty(p) \/ ReadFault(p) \/ ReadWrap(p)
  BY <1>2, Released DEF OpenReset, CloseFree, ReadEmpty, ReadFault, ReadWrap
<1>3. CASE WriteFull(p) \/ WriteFault(p) \/ WriteWrap(p) \/ PollScan(p)
  BY <1>3, Released DEF WriteFull, WriteFault, WriteWrap, PollScan
<1>4. CASE OpenAlloc(p)
  BY <1>4, Released, Kept DEF OpenAlloc
<1>5. CASE LockInterrupted(p) \/ Call(p) \/ Close(p) \/ TestLoad(p) \/ Woken(p)
  BY <1>5, Kept DEF LockInterrupted, Call, Close, TestLoad, Woken
<1>6. CASE OpenSet(p) \/ ReadPrepare(p) \/ ReadTest(p) \/ ReadCopy(p) \/ ReadWake(p)
  BY <1>6, Kept DEF OpenSet, ReadPrepare, ReadTest, ReadCopy, ReadWake
<1>7. CASE WritePrepare(p) \/ WriteTest(p) \/ WriteFinishWait(p) \/ WriteCopy(p)
  BY <1>7, Kept DEF WritePrepare, WriteTest, WriteFinishWait, WriteCopy
<1>8. CASE WriteWake(p) \/ WriteAsync(p) \/ PollWoken(p)
  BY <1>8, Kept DEF WriteWake, WriteAsync, PollWoken
<1>9. CASE Fasync(p) \/ IoctlSize(p) \/ Signal(p)
  BY <1>9 DEF Fasync, IoctlSize, Signal, LockBalanced, calls
<1>10. QED BY <1>1, <1>2, <1>3, <1>4, <1>5, <1>6, <1>7, <1>8, <1>9 DEF ANext, Kernel

-----------------------------------------------------------------------------
(* The pointers. *)

\* A step that leaves them alone, opens nothing and is not the second half of
\* a wrap.
LEMMA RingKept ==
  ASSUME CallsTyped, RingOK, OpeningOK, NEW p \in Procs, NEW from, NEW to, Goto(p, from, to),
         from \notin {"r_wrap", "w_wrap", "o_rp"}, to # "o_rp",
         to \notin Unopened => from \notin Unopened,
         UNCHANGED <<buffersize, rp, wp>>
  PROVE  RingOK' /\ OpeningOK'
<1>1. \A q \in Procs : q # p => pc'[q] = pc[q]
  BY DEF Goto, CallsTyped
<1>2. pc[p] = from /\ pc'[p] = to
  BY DEF Goto, CallsTyped
<1>3. OpeningOK'
  BY <1>1, <1>2 DEF OpeningOK
<1>4. ASSUME SomeOpen', ~At({"o_rp"})'
      PROVE  SomeOpen /\ ~At({"o_rp"})
  BY <1>1, <1>2, <1>4 DEF SomeOpen, IsOpen, At
<1>5. /\ At({"r_wrap"}) => At({"r_wrap"})'
      /\ At({"w_wrap"}) => At({"w_wrap"})'
  BY <1>1, <1>2 DEF At
<1>6. QED BY <1>3, <1>4, <1>5 DEF RingOK

\* What a process that holds the mutex of an open device knows.
LEMMA RingInside ==
  ASSUME IInv, NEW p \in Procs, pc[p] \in Locked, pc[p] \notin Unopened
  PROVE  /\ buffersize \in 1 .. BufMax
         /\ rp \in 0 .. buffersize /\ wp \in 0 .. buffersize
         /\ pc[p] # "r_wrap" => rp < buffersize
         /\ pc[p] # "w_wrap" => wp < buffersize
<1>1. \A q \in Procs : pc[q] \in Locked => q = p
  BY DEF IInv, LockBalanced
<1>2. SomeOpen
  BY DEF SomeOpen, IsOpen
<1>3. ~At({"o_rp"})
  BY <1>1 DEF At, Locked, Unopened
<1>4. /\ At({"r_wrap"}) => pc[p] = "r_wrap"
      /\ At({"w_wrap"}) => pc[p] = "w_wrap"
  BY <1>1 DEF At, Locked
<1>5. QED BY <1>2, <1>3, <1>4, SizesAssumption DEF IInv, TypeOK, RingOK

(* The places of a process that has no open file. *)
LEMMA UnopenedPcs == Unopened = {"closed", "o_lock", "o_alloc", "o_set", "o_rp"}
  BY DEF Unopened

\* What a read copies lies in the buffer, and leaves rp there.
LEMMA ReadCopied ==
  ASSUME IInv, NEW p \in Procs, ReadCopy(p)
  PROVE  rp' \in 0 .. buffersize /\ ubuf' \in [Procs -> Seq(Values \cup {Junk})]
<1> DEFINE B == Values \cup {Junk}
<1>1. /\ buffersize \in 1 .. BufMax
      /\ rp \in 0 .. buffersize - 1 /\ wp \in 0 .. buffersize - 1
  <2>1. pc[p] = "r_cs"
    BY DEF ReadCopy, Goto
  <2>2. QED BY <2>1, RingInside, SizesAssumption DEF Locked, Unopened
<1>2. PICK n \in Counts :
        LET count == Min2(n, IF wp > rp THEN wp - rp ELSE buffersize - rp) IN
          /\ ubuf' = [ubuf EXCEPT ![p] = [i \in 1 .. count |-> buffer[rp + i - 1]]]
          /\ rp' = rp + count
  BY DEF ReadCopy
<1> DEFINE count == Min2(n, IF wp > rp THEN wp - rp ELSE buffersize - rp)
           got == [i \in 1 .. count |-> buffer[rp + i - 1]]
<1>3. ubuf' = [ubuf EXCEPT ![p] = got] /\ rp' = rp + count
  BY <1>2
<1>4. count \in 0 .. buffersize - rp
  BY <1>1, CountsAssumption DEF Min2
<1>5. \A i \in 1 .. count : buffer[rp + i - 1] \in B
  BY <1>1, <1>4, SizesAssumption DEF IInv, TypeOK
<1>6. got \in Seq(B)
  BY <1>4, <1>5
<1>7. rp' \in 0 .. buffersize
  BY <1>1, <1>3, <1>4
<1> HIDE DEF got, count
<1>8. ubuf' \in [Procs -> Seq(B)]
  BY <1>3, <1>6 DEF IInv, TypeOK
<1>9. QED BY <1>7, <1>8

(* Every step keeps the pointers inside the buffer while the device is open. *)
LEMMA RingStep ==
  ASSUME IInv, NEW p \in Procs, ANext(p)
  PROVE  RingOK' /\ OpeningOK'
<1> USE UnopenedPcs DEF IInv, Step, Return, mem, ptrs
<1>0. CallsTyped
  BY DEF TypeOK, CallsTyped
<1>1. CASE MutexLock(p) \/ LockInterrupted(p) \/ Call(p) \/ Close(p) \/ TestLoad(p) \/ Woken(p)
  BY <1>0, <1>1, RingKept DEF MutexLock, LockInterrupted, Call, Close, TestLoad, Woken
<1>2. CASE OpenAlloc(p) \/ CloseFree(p) \/ ReadEmpty(p) \/ ReadFault(p) \/ ReadPrepare(p)
  BY <1>0, <1>2, RingKept DEF OpenAlloc, CloseFree, ReadEmpty, ReadFault, ReadPrepare
<1>3. CASE ReadTest(p) \/ ReadWake(p) \/ WriteFull(p) \/ WriteFault(p) \/ WritePrepare(p)
  BY <1>0, <1>3, RingKept DEF ReadTest, ReadWake, WriteFull, WriteFault, WritePrepare
<1>4. CASE WriteTest(p) \/ WriteFinishWait(p) \/ WriteWake(p) \/ WriteAsync(p)
  BY <1>0, <1>4, RingKept DEF WriteTest, WriteFinishWait, WriteWake, WriteAsync
<1>5. CASE PollScan(p) \/ PollWoken(p)
  BY <1>0, <1>5, RingKept DEF PollScan, PollWoken
<1>6. CASE Fasync(p) \/ IoctlSize(p) \/ Signal(p)
  BY <1>6 DEF Fasync, IoctlSize, Signal, RingOK, OpeningOK, SomeOpen, IsOpen, At, calls
<1>7. CASE OpenSet(p)
  <2>1. pc'[p] = "o_rp" /\ wp' = 0 /\ buffersize' > 0
    BY <1>0, <1>7, SizesAssumption DEF OpenSet, Goto, TypeOK, CallsTyped
  <2>2. QED BY <2>1 DEF RingOK, OpeningOK, At
<1>8. CASE OpenReset(p)
  <2>1. wp' = 0 /\ rp' = 0 /\ buffersize' > 0 /\ buffersize' \in Nat
    BY <1>8, SizesAssumption DEF OpenReset, Goto, OpeningOK, TypeOK
  <2>2. QED BY <2>1 DEF RingOK, OpeningOK
<1>9. CASE ReadCopy(p)
  <2>1. pc[p] = "r_cs" /\ pc'[p] = "r_wrap" /\ UNCHANGED <<buffersize, wp>>
    BY <1>0, <1>9 DEF ReadCopy, Goto, CallsTyped
  <2>2. buffersize \in 1 .. BufMax /\ rp \in 0 .. buffersize - 1 /\ wp \in 0 .. buffersize - 1
    BY <2>1, RingInside, SizesAssumption DEF Locked
  <2>3. rp' \in 0 .. buffersize
    BY <1>9, ReadCopied
  <2>4. QED BY <2>1, <2>2, <2>3, <1>0, <1>9 DEF RingOK, OpeningOK, At, ReadCopy, Goto, CallsTyped
<1>10. CASE ReadWrap(p)
  <2>1. pc[p] = "r_wrap" /\ UNCHANGED <<buffersize, wp>>
    BY <1>10 DEF ReadWrap, Goto
  <2>2. buffersize \in 1 .. BufMax /\ rp \in 0 .. buffersize /\ wp \in 0 .. buffersize - 1
    BY <2>1, RingInside, SizesAssumption DEF Locked
  <2>3. rp' \in 0 .. buffersize - 1
    BY <1>10, <2>2 DEF ReadWrap
  <2>4. QED BY <2>1, <2>2, <2>3, <1>0, <1>10 DEF RingOK, OpeningOK, ReadWrap, Goto, CallsTyped
<1>11. CASE WriteCopy(p)
  <2>1. pc[p] = "w_cs" /\ pc'[p] = "w_wrap" /\ UNCHANGED <<buffersize, rp>>
    BY <1>0, <1>11 DEF WriteCopy, Goto, CallsTyped
  <2>2. buffersize \in 1 .. BufMax /\ rp \in 0 .. buffersize - 1 /\ wp \in 0 .. buffersize - 1
    BY <2>1, RingInside, SizesAssumption DEF Locked
  <2>3. PICK n \in Counts : wp' = wp + Accepted(n)
    BY <1>11 DEF WriteCopy
  <2>4. Accepted(n) \in 0 .. buffersize - wp
    BY <2>2, AcceptedRange, CountsAssumption
  <2>5. wp' \in 0 .. buffersize
    BY <2>2, <2>3, <2>4
  <2>6. \A q \in Procs : pc'[q] # "o_rp"
    BY <2>1, <1>0, <1>11 DEF LockBalanced, Locked, WriteCopy, Goto, CallsTyped
  <2>7. QED BY <2>1, <2>2, <2>5, <2>6 DEF RingOK, OpeningOK, At
<1>12. CASE WriteWrap(p)
  <2>1. pc[p] = "w_wrap" /\ UNCHANGED <<buffersize, rp>>
    BY <1>12 DEF WriteWrap, Goto
  <2>2. buffersize \in 1 .. BufMax /\ rp \in 0 .. buffersize - 1 /\ wp \in 0 .. buffersize
    BY <2>1, RingInside, SizesAssumption DEF Locked
  <2>3. wp' \in 0 .. buffersize - 1
    BY <1>12, <2>2 DEF WriteWrap
  <2>4. QED BY <2>1, <2>2, <2>3, <1>0, <1>12 DEF RingOK, OpeningOK, WriteWrap, Goto, CallsTyped
<1>13. QED BY <1>1, <1>2, <1>3, <1>4, <1>5, <1>6, <1>7, <1>8, <1>9, <1>10, <1>11, <1>12
           DEF ANext, Kernel

-----------------------------------------------------------------------------
(* Types. *)

DevTyped ==
  /\ mutex \in Procs \cup {NoProc}
  /\ buffer \in [0 .. BufMax - 1 -> Values \cup {Junk}]
  /\ alloc \in 0 .. BufMax /\ buffersize \in 0 .. BufMax
  /\ rp \in 0 .. BufMax /\ wp \in 0 .. BufMax
  /\ nreaders \in Int /\ nwriters \in Int
  /\ inq \subseteq Procs /\ outq \subseteq Procs /\ reset \subseteq outq
  /\ async_queue \subseteq Procs /\ scull_p_buffer \in Sizes
  /\ seen \in [Procs -> 0 .. BufMax]

(* Every step keeps the types, the pointers because they stay in the buffer. *)
LEMMA TypeStep ==
  ASSUME IInv, NEW p \in Procs, ANext(p)
  PROVE  TypeOK'
<1>0. ASSUME DevTyped' PROVE TypeOK'
  <2>1. CallsTyped /\ async_queue \subseteq Procs
    BY DEF IInv, TypeOK, CallsTyped
  <2>2. CallsTyped'
    BY <2>1, ReadCopied, CallsStep
  <2>3. QED BY <1>0, <2>2 DEF DevTyped, CallsTyped, TypeOK
<1>1. SUFFICES DevTyped'
  BY <1>0
<1>2. DevTyped
  BY DEF IInv, TypeOK, DevTyped
<1> USE <1>2, SizesAssumption DEF DevTyped, mem, ptrs, opens, waits, params
<1>3. CASE MutexLock(p) \/ LockInterrupted(p) \/ Call(p) \/ Close(p) \/ Woken(p)
  BY <1>3 DEF MutexLock, LockInterrupted, Call, Close, Woken
<1>4. CASE TestLoad(p) \/ ReadTest(p) \/ WriteTest(p)
  <2>1. seen' \in [Procs -> 0 .. BufMax]
    BY <1>4 DEF TestLoad, ReadTest, WriteTest
  <2>2. inq' \subseteq Procs
    BY <1>4 DEF TestLoad, ReadTest, WriteTest
  <2>3. QED BY <1>4, <2>1, <2>2 DEF TestLoad, ReadTest, WriteTest
<1>5. CASE OpenAlloc(p) \/ OpenSet(p) 
  BY <1>5 DEF OpenAlloc, OpenSet, Unlock
<1>6. CASE OpenReset(p) \/ CloseFree(p)
  <2>1. CASE OpenReset(p)
    BY <2>1 DEF OpenReset, Unlock
  <2>2. CASE CloseFree(p)
    BY <2>2 DEF CloseFree, Unlock
  <2>3. QED BY <1>6, <2>1, <2>2
<1>7. CASE ReadEmpty(p) \/ ReadPrepare(p) \/ ReadFault(p) 
  BY <1>7 DEF ReadEmpty, ReadPrepare, ReadFault, Unlock
<1>8. CASE ReadWake(p) \/ WriteFull(p) \/ WritePrepare(p)
  BY <1>8 DEF ReadWake, WriteFull, WritePrepare, Unlock, wake_up
<1>9. CASE WriteFinishWait(p) \/ WriteWake(p) \/ WriteAsync(p)
  BY <1>9 DEF WriteFinishWait, WriteWake, WriteAsync, wake_up
<1>10. CASE PollScan(p) \/ PollWoken(p)
  BY <1>10 DEF PollScan, PollWoken, Unlock
<1>11. CASE Fasync(p) \/ IoctlSize(p) \/ Signal(p)
  BY <1>11 DEF Fasync, IoctlSize, Signal
<1>12. CASE ReadCopy(p)
  <2>1. rp' \in 0 .. BufMax
    BY <1>12, ReadCopied
  <2>2. QED BY <1>12, <2>1 DEF ReadCopy
<1>13. CASE ReadWrap(p) \/ WriteWrap(p)
  BY <1>13 DEF ReadWrap, WriteWrap, Unlock
<1>14. CASE WriteCopy(p) \/ WriteFault(p)
  <2>1. pc[p] = "w_cs"
    BY <1>14 DEF WriteCopy, WriteFault, Step, Return, Goto
  <2>2. /\ buffersize \in 1 .. BufMax
        /\ rp \in 0 .. buffersize - 1 /\ wp \in 0 .. buffersize - 1
    BY <2>1, RingInside DEF Locked, Unopened
  <2>3. PICK n \in Counts, b \in Seq(Values \cup {Junk}) :
          buffer' = Stored(wp, b) /\ wp' \in {wp, wp + Accepted(n)}
    <3>1. \A n \in Counts : Accepted(n) \in Nat
      BY <2>2, AcceptedRange, CountsAssumption
    <3>2. CASE WriteCopy(p)
      BY <3>1, <3>2 DEF WriteCopy
    <3>3. CASE WriteFault(p)
      BY <3>1, <3>3 DEF WriteFault
    <3>4. QED BY <1>14, <3>2, <3>3
  <2>4. wp' \in 0 .. BufMax
    <3>1. n \in Nat
      BY CountsAssumption
    <3>2. Accepted(n) \in 0 .. buffersize - wp
      BY <3>1, <2>2, AcceptedRange
    <3>3. QED BY <3>2, <2>2, <2>3
  <2>5. buffer' \in [0 .. BufMax - 1 -> Values \cup {Junk}]
    BY <2>3, StoredType
  <2>6. QED BY <1>14, <2>4, <2>5 DEF WriteCopy, WriteFault, Unlock
<1>15. QED BY <1>3, <1>4, <1>5, <1>6, <1>7, <1>8, <1>9, <1>10, <1>11, <1>12, <1>13, <1>14
           DEF ANext, Kernel

-----------------------------------------------------------------------------
(* The invariant of pipe.c is inductive. *)
LEMMA Inductive == IInv /\ [Next]_vars => IInv'
<1> SUFFICES ASSUME IInv, [Next]_vars PROVE IInv'
  OBVIOUS
<1>1. CASE Next
  <2>1. PICK p \in Procs : ANext(p)
    BY <1>1 DEF Next, ANext
  <2>2. CallsTyped /\ LockBalanced
    BY DEF IInv, TypeOK, CallsTyped
  <2>3. TypeOK' /\ LockBalanced' /\ RingOK' /\ OpeningOK'
    BY <2>1, <2>2, TypeStep, LockStep, RingStep
  <2>4. QED BY <2>3 DEF IInv
<1>2. CASE UNCHANGED vars
  BY <1>2 DEF vars, mem, ptrs, opens, waits, params, calls, IInv, TypeOK, LockBalanced,
              RingOK, OpeningOK, SomeOpen, IsOpen, At
<1>3. QED BY <1>1, <1>2

(* It holds of every behaviour of the driver, for any number of processes. *)
THEOREM Invariance == Spec => []IInv
  BY InitIInv, Inductive, PTL DEF Spec

(* Every variable keeps its type: no copy in scull_p_read or scull_p_write *)
(* takes a pointer out of the buffer.                                      *)
THEOREM TypeCorrect == Spec => []TypeOK
  BY Invariance, PTL DEF IInv

(* dev->mutex is held in the places meant to hold it and nowhere else: no  *)
(* return of open, read, write, release or poll keeps it, none gives it up *)
(* twice.                                                                  *)
THEOREM MutexDiscipline == Spec => []LockBalanced
  BY Invariance, PTL DEF IInv

(* While the device is open rp and wp lie in the buffer, and reach its end *)
(* only inside the read or the write that is about to wrap them.           *)
THEOREM PointersInside == Spec => []RingOK
  BY Invariance, PTL DEF IInv

-----------------------------------------------------------------------------
(* Wake-ups *)

\* Somebody is on the way to waking the readers, or to emptying the buffer.
ReadersDue == At({"w_wrap", "w_wake", "o_rp"})

\* A queued reader between its loads that is going to find the two pointers
\* equal finds the truth, or is due to be woken.
ReadersInv ==
  \A p \in inq :
    /\ AsleepForData(p) => rp = wp \/ ReadersDue
    /\ pc[p] = "r_test2" => seen[p] = rp \/ seen[p] # wp \/ ReadersDue

(* What ReadersInv says of a sleeper is what NoLostReader says. *)
LEMMA ReadersInvImplies == ReadersInv => NoLostReader
  BY DEF ReadersInv, NoLostReader, AsleepForData, ReadersDue

(* Nobody is queued at first. *)
LEMMA ReadersInit == Init => ReadersInv
  BY DEF Init, ReadersInv

(* A step that moves no pointer, ends no wake-up and leaves the process that *)
(* takes it neither asleep for data nor between its loads.                   *)
LEMMA ReadersKept ==
  ASSUME CallsTyped, inq \subseteq Procs, ReadersInv, NEW p \in Procs, NEW from, NEW to, Goto(p, from, to),
         from \notin {"w_wrap", "w_wake", "o_rp"},
         to \notin {"r_sleep", "p_sleep", "r_test2"},
         inq' \subseteq inq \cup {p}, UNCHANGED <<rp, wp>>,
         \A q \in Procs : q # p => seen'[q] = seen[q]
  PROVE  ReadersInv'
<1>1. \A q \in Procs : q # p => pc'[q] = pc[q]
  BY DEF Goto, CallsTyped
<1>2. pc[p] = from /\ pc'[p] = to
  BY DEF Goto, CallsTyped
<1>3. ReadersDue => ReadersDue'
  BY <1>1, <1>2 DEF ReadersDue, At
<1>4. SUFFICES ASSUME NEW q \in inq'
      PROVE  /\ AsleepForData(q)' => rp = wp \/ ReadersDue'
             /\ pc'[q] = "r_test2" => seen'[q] = rp \/ seen'[q] # wp \/ ReadersDue'
  BY DEF ReadersInv
<1>5. CASE q = p
  BY <1>2, <1>5 DEF AsleepForData
<1>6. CASE q # p
  BY <1>1, <1>3, <1>6 DEF AsleepForData, ReadersInv
<1>7. QED BY <1>5, <1>6

(* Every step of every call keeps the promise to the readers. *)
LEMMA ReadersStep ==
  ASSUME IInv, ReadersInv, NEW p \in Procs, ANext(p)
  PROVE  ReadersInv'
<1> USE DEF Step, Return, ptrs, waits
<1>0. CallsTyped /\ inq \subseteq Procs /\ seen \in [Procs -> 0 .. BufMax]
  BY DEF IInv, TypeOK, CallsTyped
<1>1. CASE MutexLock(p) \/ LockInterrupted(p) \/ Call(p) \/ Close(p) \/ Woken(p)
  BY <1>0, <1>1, ReadersKept DEF MutexLock, LockInterrupted, Call, Close, Woken
<1>2. CASE OpenAlloc(p) \/ CloseFree(p) \/ ReadEmpty(p) \/ ReadFault(p) \/ ReadPrepare(p)
  BY <1>0, <1>2, ReadersKept DEF OpenAlloc, CloseFree, ReadEmpty, ReadFault, ReadPrepare
<1>3. CASE ReadWake(p) \/ WriteFull(p) \/ WriteFault(p) \/ WritePrepare(p)
  BY <1>0, <1>3, ReadersKept DEF ReadWake, WriteFull, WriteFault, WritePrepare
<1>4. CASE WriteTest(p) \/ WriteFinishWait(p) \/ WriteAsync(p) \/ PollWoken(p)
  BY <1>0, <1>4, ReadersKept DEF WriteTest, WriteFinishWait, WriteAsync, PollWoken
<1>5. CASE Fasync(p) \/ IoctlSize(p) \/ Signal(p)
  BY <1>5 DEF Fasync, IoctlSize, Signal, ReadersInv, AsleepForData, ReadersDue, At, calls
<1>6. CASE WriteWake(p)
  BY <1>6 DEF WriteWake, wake_up, ReadersInv
<1>7. CASE OpenSet(p) \/ WriteCopy(p) \/ WriteWrap(p)
  <2>1. pc'[p] \in {"o_rp", "w_wrap", "w_wake"}
    BY <1>0, <1>7 DEF OpenSet, WriteCopy, WriteWrap, Goto, CallsTyped
  <2>2. ReadersDue'
    BY <2>1 DEF ReadersDue, At
  <2>3. QED BY <2>2 DEF ReadersInv
<1>8. CASE OpenReset(p)
  <2>1. rp' = 0 /\ wp' = 0 /\ UNCHANGED seen
    BY <1>8 DEF OpenReset, Goto, IInv, OpeningOK
  <2>2. QED BY <2>1 DEF ReadersInv
<1>9. CASE TestLoad(p) \/ ReadTest(p) \/ PollScan(p)
  <2>1. \A q \in Procs : q # p => pc'[q] = pc[q] /\ seen'[q] = seen[q]
    BY <1>0, <1>9 DEF TestLoad, ReadTest, PollScan, Goto, CallsTyped
  <2>2. UNCHANGED <<rp, wp>> /\ inq' \subseteq inq \cup {p}
    BY <1>9 DEF TestLoad, ReadTest, PollScan
  <2>3. ReadersDue => ReadersDue'
    <3>1. pc[p] \in {"r_test", "w_test", "r_test2", "p_cs"}
      BY <1>9 DEF TestLoad, ReadTest, PollScan, Goto
    <3>2. QED BY <2>1, <3>1 DEF ReadersDue, At
  <2>4. SUFFICES ASSUME NEW q \in inq'
        PROVE  /\ AsleepForData(q)' => rp = wp \/ ReadersDue'
               /\ pc'[q] = "r_test2" => seen'[q] = rp \/ seen'[q] # wp \/ ReadersDue'
    BY <2>2 DEF ReadersInv
  <2>5. CASE q # p
    BY <2>1, <2>2, <2>3, <2>5, <1>0 DEF ReadersInv, AsleepForData
  <2>6. CASE q = p /\ TestLoad(p)
    BY <1>0, <2>6 DEF TestLoad, Goto, CallsTyped, AsleepForData
  <2>7. CASE q = p /\ ReadTest(p)
    <3>1. p \in inq
      BY <2>7 DEF ReadTest
    <3>2. pc[p] = "r_test2" /\ pc'[p] # "r_test2"
      BY <1>0, <2>7 DEF ReadTest, Goto, CallsTyped
    <3>3. AsleepForData(p)' => seen[p] = wp
      BY <1>0, <2>7 DEF ReadTest, Goto, CallsTyped, AsleepForData
    <3>4. QED BY <2>3, <2>7, <3>1, <3>2, <3>3 DEF ReadersInv
  <2>8. CASE q = p /\ PollScan(p)
    <3>1. pc'[p] \in {"idle", "p_sleep"}
      BY <1>0, <2>8 DEF PollScan, Goto, CallsTyped
    <3>2. pc'[p] = "p_sleep" /\ p \in Readers => rp = wp
      BY <1>0, <2>8 DEF PollScan, Goto, CallsTyped
    <3>3. QED BY <2>8, <3>1, <3>2 DEF AsleepForData
  <2>9. QED BY <1>9, <2>5, <2>6, <2>7, <2>8
<1>10. CASE ReadCopy(p) \/ ReadWrap(p)
  <2>1. /\ pc[p] \in {"r_cs", "r_wrap"} /\ pc'[p] \in {"r_wrap", "r_wake"}
        /\ \A q \in Procs : q # p => pc'[q] = pc[q]
        /\ UNCHANGED <<wp, seen, inq>>
    BY <1>0, <1>10 DEF ReadCopy, ReadWrap, Goto, CallsTyped
  <2>2. ReadersDue => ReadersDue'
    BY <2>1 DEF ReadersDue, At
  <2>3. ReadCopy(p) => rp # wp
    BY DEF ReadCopy
  <2>4. ReadWrap(p) => rp' = rp \/ (rp = buffersize /\ wp < buffersize /\ wp \in Nat)
    <3>1. ASSUME ReadWrap(p) PROVE pc[p] = "r_wrap"
      BY <3>1 DEF ReadWrap, Goto
    <3>2. QED BY <3>1, RingInside, SizesAssumption DEF ReadWrap, Locked, Unopened
  <2>5. rp' = rp \/ rp # wp
    BY <1>10, <2>3, <2>4, SizesAssumption DEF IInv, TypeOK
  <2>6. QED BY <1>0, <2>1, <2>2, <2>5 DEF ReadersInv, AsleepForData
<1>11. QED BY <1>1, <1>2, <1>3, <1>4, <1>5, <1>6, <1>7, <1>8, <1>9, <1>10 DEF ANext, Kernel

(* A reader or poller never sleeps through the arrival of data. *)
THEOREM NoReaderWakeupLost == Spec => []NoLostReader
<1>1. IInv /\ ReadersInv /\ [Next]_vars => ReadersInv'
  <2> SUFFICES ASSUME IInv, ReadersInv, [Next]_vars PROVE ReadersInv'
    OBVIOUS
  <2>1. CASE Next
    BY <2>1, ReadersStep DEF Next, ANext
  <2>2. CASE UNCHANGED vars
    BY <2>2 DEF vars, ptrs, waits, calls, ReadersInv, AsleepForData, ReadersDue, At
  <2>3. QED BY <2>1, <2>2
<1>2. Spec => []ReadersInv
  BY <1>1, ReadersInit, Invariance, PTL DEF Spec
<1>3. QED BY <1>2, ReadersInvImplies, PTL

-----------------------------------------------------------------------------
\* The same for writers, of the sleepers no open has interfered with.  A write
\* that fills the last slots leaves one free, so the wrap of wp changes nothing
\* for them.
WritersDue == At({"r_wrap", "r_wake", "o_rp"})

WrapInv == \A p \in Procs : pc[p] = "w_wrap" => ~(wp = buffersize /\ rp = 0)

WritersInv ==
  \A p \in outq \ reset :
    /\ AsleepForSpace(p) => ~(SpaceFree > 0) \/ WritersDue
    /\ pc[p] = "w_test2" => seen[p] = rp \/ WritersDue

(* What WritersInv says of a sleeper is what StrandedOnlyByOpen says. *)
LEMMA WritersInvImplies == WritersInv => StrandedOnlyByOpen
  BY DEF WritersInv, StrandedOnlyByOpen, Stranded, WritersDue

(* Nobody is queued at first, and nobody is wrapping a pointer. *)
LEMMA WritersInit == Init => WritersInv /\ WrapInv
  BY DEF Init, WritersInv, WrapInv

(* A step outside the two copies and the two wraps cannot leave a pointer at *)
(* the end.                                                                 *)
LEMMA WrapKept ==
  ASSUME IInv, WrapInv, NEW p \in Procs, NEW from, NEW to, Goto(p, from, to),
         to # "w_wrap", from \in Locked \/ UNCHANGED <<rp, wp, buffersize>>
  PROVE  WrapInv'
<1>1. pc \in [Procs -> Pcs]
  BY DEF IInv, TypeOK
<1>2. CASE from \in Locked
  BY <1>1, <1>2 DEF IInv, LockBalanced, Goto, WrapInv, Locked
<1>3. CASE UNCHANGED <<rp, wp, buffersize>>
  BY <1>1, <1>3 DEF Goto, WrapInv
<1>4. QED BY <1>2, <1>3

(* At the end of the buffer a pointer is about to wrap, whoever steps. *)
LEMMA WrapStep ==
  ASSUME IInv, WrapInv, NEW p \in Procs, ANext(p)
  PROVE  WrapInv'
<1> USE DEF Step, Return
<1>0. CallsTyped
  BY DEF IInv, TypeOK, CallsTyped
<1>1. CASE WriteCopy(p)
  <2>1. pc[p] = "w_cs" /\ UNCHANGED <<rp, buffersize>>
    BY <1>1 DEF WriteCopy, Goto
  <2>2. /\ buffersize \in 1 .. BufMax
        /\ rp \in 0 .. buffersize - 1 /\ wp \in 0 .. buffersize - 1
    BY <2>1, RingInside, SizesAssumption DEF Locked, Unopened
  <2>3. PICK n \in Counts : wp' = wp + Accepted(n)
    BY <1>1 DEF WriteCopy
  <2>4. n \in Nat
    BY CountsAssumption
  <2>5. rp = 0 => SpaceFree = buffersize - 1 - wp
    <3>1. rp = 0 /\ wp # 0 => (rp + buffersize - wp) % buffersize = buffersize - wp
      BY <2>2, ModBelow
    <3>2. QED BY <2>2, <3>1 DEF SpaceFree, SpaceFrom
  <2>6. rp = 0 => wp + Accepted(n) < buffersize
    BY <2>2, <2>4, <2>5 DEF Accepted, Min2
  <2>7. \A q \in Procs : q # p => pc'[q] # "w_wrap"
    BY <1>0, <1>1, <2>1 DEF IInv, LockBalanced, Locked, WriteCopy, Goto, CallsTyped
  <2>8. QED BY <2>1, <2>2, <2>3, <2>6, <2>7 DEF WrapInv
<1> USE LockedPcs, WrapKept DEF mem, ptrs
<1>2. CASE MutexLock(p) \/ LockInterrupted(p) \/ Call(p) \/ Close(p) \/ TestLoad(p)
           \/ Woken(p)
  BY <1>2 DEF MutexLock, LockInterrupted, Call, Close, TestLoad, Woken
<1>3. CASE OpenAlloc(p) \/ OpenSet(p) \/ OpenReset(p) \/ CloseFree(p)
  BY <1>3 DEF OpenAlloc, OpenSet, OpenReset, CloseFree
<1>4. CASE ReadEmpty(p) \/ ReadFault(p) \/ ReadPrepare(p) \/ ReadTest(p)
  BY <1>4 DEF ReadEmpty, ReadFault, ReadPrepare, ReadTest
<1>5. CASE ReadCopy(p) \/ ReadWrap(p) \/ ReadWake(p)
  BY <1>5 DEF ReadCopy, ReadWrap, ReadWake
<1>6. CASE WriteFull(p) \/ WriteFault(p) \/ WritePrepare(p) \/ WriteTest(p)
  BY <1>6 DEF WriteFull, WriteFault, WritePrepare, WriteTest
<1>7. CASE WriteFinishWait(p) \/ WriteWrap(p) \/ WriteWake(p) \/ WriteAsync(p)
  BY <1>7 DEF WriteFinishWait, WriteWrap, WriteWake, WriteAsync
<1>8. CASE PollScan(p) \/ PollWoken(p)
  BY <1>8 DEF PollScan, PollWoken
<1>9. CASE Fasync(p) \/ IoctlSize(p) \/ Signal(p)
  BY <1>9 DEF Fasync, IoctlSize, Signal, WrapInv, calls
<1>10. QED BY <1>1, <1>2, <1>3, <1>4, <1>5, <1>6, <1>7, <1>8, <1>9 DEF ANext, Kernel

(* A step that leaves the ring alone, ends no wake-up and leaves the process *)
(* that takes it neither asleep for space nor between its loads.             *)
LEMMA WritersKept ==
  ASSUME CallsTyped, outq \subseteq Procs, WritersInv, NEW p \in Procs,
         NEW from, NEW to, Goto(p, from, to), from \notin {"r_wrap", "r_wake", "o_rp"},
         to \notin {"w_sleep", "p_sleep", "w_test2"},
         outq' \ reset' \subseteq (outq \ reset) \cup {p},
         UNCHANGED <<rp, wp, buffersize>>,
         \A q \in Procs : q # p => seen'[q] = seen[q]
  PROVE  WritersInv'
<1>1. \A q \in Procs : q # p => pc'[q] = pc[q]
  BY DEF Goto, CallsTyped
<1>2. pc[p] = from /\ pc'[p] = to
  BY DEF Goto, CallsTyped
<1>3. WritersDue => WritersDue'
  BY <1>1, <1>2 DEF WritersDue, At
<1>4. SpaceFree' = SpaceFree
  BY DEF SpaceFree, SpaceFrom
<1>5. SUFFICES ASSUME NEW q \in outq' \ reset'
      PROVE  /\ AsleepForSpace(q)' => ~(SpaceFree > 0) \/ WritersDue'
             /\ pc'[q] = "w_test2" => seen'[q] = rp \/ WritersDue'
  BY <1>4 DEF WritersInv
<1>6. CASE q = p
  BY <1>2, <1>6 DEF AsleepForSpace
<1>7. CASE q # p
  BY <1>1, <1>3, <1>7 DEF AsleepForSpace, WritersInv
<1>8. QED BY <1>6, <1>7

(* Every step of every call keeps the promise to the writers, an open excepted. *)
LEMMA WritersStep ==
  ASSUME IInv, WrapInv, WritersInv, NEW p \in Procs, ANext(p)
  PROVE  WritersInv'
<1> USE DEF Step, Return, mem, ptrs, waits
<1>0. CallsTyped /\ outq \subseteq Procs /\ seen \in [Procs -> 0 .. BufMax]
  BY DEF IInv, TypeOK, CallsTyped
<1>1. CASE MutexLock(p) \/ LockInterrupted(p) \/ Call(p) \/ Close(p) \/ Woken(p)
  BY <1>0, <1>1, WritersKept DEF MutexLock, LockInterrupted, Call, Close, Woken
<1>2. CASE OpenAlloc(p) \/ CloseFree(p) \/ ReadEmpty(p) \/ ReadFault(p) \/ ReadPrepare(p)
  BY <1>0, <1>2, WritersKept DEF OpenAlloc, CloseFree, ReadEmpty, ReadFault, ReadPrepare
<1>3. CASE ReadTest(p) \/ WriteFull(p) \/ WriteFault(p) \/ WritePrepare(p)
  BY <1>0, <1>3, WritersKept DEF ReadTest, WriteFull, WriteFault, WritePrepare
<1>4. CASE WriteFinishWait(p) \/ WriteWake(p) \/ WriteAsync(p) \/ PollWoken(p)
  BY <1>0, <1>4, WritersKept DEF WriteFinishWait, WriteWake, WriteAsync, PollWoken
<1>5. CASE Fasync(p) \/ IoctlSize(p) \/ Signal(p)
  BY <1>5 DEF Fasync, IoctlSize, Signal, WritersInv, AsleepForSpace, WritersDue, At,
              SpaceFree, SpaceFrom, calls
<1>6. CASE ReadWake(p)
  BY <1>6 DEF ReadWake, wake_up, WritersInv
<1>7. CASE ReadCopy(p) \/ ReadWrap(p) \/ OpenSet(p)
  <2>1. pc'[p] \in {"r_wrap", "r_wake", "o_rp"}
    BY <1>0, <1>7 DEF ReadCopy, ReadWrap, OpenSet, Goto, CallsTyped
  <2>2. WritersDue'
    BY <2>1 DEF WritersDue, At
  <2>3. QED BY <2>2 DEF WritersInv
<1>8. CASE OpenReset(p)
  BY <1>8 DEF OpenReset, WritersInv
<1>9. CASE TestLoad(p) \/ WriteTest(p) \/ PollScan(p)
  <2>1. \A q \in Procs : q # p => pc'[q] = pc[q] /\ seen'[q] = seen[q]
    BY <1>0, <1>9 DEF TestLoad, WriteTest, PollScan, Goto, CallsTyped
  <2>2. UNCHANGED <<rp, wp, buffersize>> /\ outq' \ reset' \subseteq (outq \ reset) \cup {p}
    BY <1>9 DEF TestLoad, WriteTest, PollScan
  <2>3. WritersDue => WritersDue'
    <3>1. pc[p] \in {"r_test", "w_test", "w_test2", "p_cs"}
      BY <1>9 DEF TestLoad, WriteTest, PollScan, Goto
    <3>2. QED BY <2>1, <3>1 DEF WritersDue, At
  <2>4. SpaceFree' = SpaceFree
    BY <2>2 DEF SpaceFree, SpaceFrom
  <2>5. SUFFICES ASSUME NEW q \in outq' \ reset'
        PROVE  /\ AsleepForSpace(q)' => ~(SpaceFree > 0) \/ WritersDue'
               /\ pc'[q] = "w_test2" => seen'[q] = rp \/ WritersDue'
    BY <2>2, <2>4 DEF WritersInv
  <2>6. CASE q # p
    BY <1>0, <2>1, <2>2, <2>3, <2>6 DEF WritersInv, AsleepForSpace
  <2>7. CASE q = p /\ TestLoad(p)
    BY <1>0, <2>7 DEF TestLoad, Goto, CallsTyped, AsleepForSpace
  <2>8. CASE q = p /\ WriteTest(p)
    <3>1. p \in outq \ reset
      BY <2>8 DEF WriteTest
    <3>2. pc[p] = "w_test2" /\ pc'[p] # "w_test2"
      BY <1>0, <2>8 DEF WriteTest, Goto, CallsTyped
    <3>3. AsleepForSpace(p)' => SpaceFrom(seen[p]) = 0
      BY <1>0, <2>8 DEF WriteTest, Goto, CallsTyped, AsleepForSpace
    <3>4. seen[p] = rp \/ WritersDue
      BY <3>1, <3>2 DEF WritersInv
    <3>5. QED BY <2>3, <2>8, <3>2, <3>3, <3>4 DEF SpaceFree
  <2>9. CASE q = p /\ PollScan(p)
    <3>1. pc'[p] \in {"idle", "p_sleep"}
      BY <1>0, <2>9 DEF PollScan, Goto, CallsTyped
    <3>2. pc'[p] = "p_sleep" /\ p \notin Readers => SpaceFree = 0
      BY <1>0, <2>9 DEF PollScan, Goto, CallsTyped
    <3>3. QED BY <2>9, <3>1, <3>2 DEF AsleepForSpace
  <2>10. QED BY <1>9, <2>6, <2>7, <2>8, <2>9
<1>10. CASE WriteCopy(p)
  <2>1. /\ pc[p] = "w_cs" /\ pc'[p] = "w_wrap"
        /\ \A q \in Procs : q # p => pc'[q] = pc[q]
        /\ UNCHANGED <<rp, seen, outq, reset>> /\ SpaceFree # 0
    BY <1>0, <1>10 DEF WriteCopy, Goto, CallsTyped
  <2>2. /\ buffersize \in 1 .. BufMax
        /\ rp \in 0 .. buffersize - 1 /\ wp \in 0 .. buffersize - 1
    BY <2>1, RingInside, SizesAssumption DEF Locked, Unopened
  <2>3. SpaceFree > 0
    <3>1. SpaceFree \in 0 .. buffersize - 1
      BY <2>2, SpaceFreeRange
    <3>2. QED BY <2>1, <2>2, <3>1
  <2>4. WritersDue => WritersDue'
    BY <2>1 DEF WritersDue, At
  <2>5. QED BY <1>0, <2>1, <2>3, <2>4 DEF WritersInv, AsleepForSpace
<1>11. CASE WriteWrap(p)
  <2>1. /\ pc[p] = "w_wrap" /\ pc'[p] = "w_wake"
        /\ \A q \in Procs : q # p => pc'[q] = pc[q]
        /\ UNCHANGED <<rp, buffersize, seen, outq, reset>>
        /\ wp' = IF wp = buffersize THEN 0 ELSE wp
    BY <1>0, <1>11 DEF WriteWrap, Goto, CallsTyped
  <2>2. /\ buffersize \in 1 .. BufMax
        /\ rp \in 0 .. buffersize - 1 /\ wp \in 0 .. buffersize
    BY <2>1, RingInside, SizesAssumption DEF Locked, Unopened
  <2>3. SpaceFree' = SpaceFree
    <3>1. CASE wp = buffersize
      <4>1. rp # 0 /\ wp' = 0
        BY <2>1, <3>1 DEF WrapInv
      <4>2. (rp + buffersize - wp) % buffersize = rp
        BY <2>2, <3>1, ModBelow
      <4>3. (rp + buffersize - wp') % buffersize = rp
        BY <2>2, <4>1, ModOnce
      <4>4. QED BY <2>1, <2>2, <3>1, <4>1, <4>2, <4>3 DEF SpaceFree, SpaceFrom
    <3>2. CASE wp # buffersize
      BY <2>1, <3>2 DEF SpaceFree, SpaceFrom
    <3>3. QED BY <3>1, <3>2
  <2>4. WritersDue => WritersDue'
    BY <2>1 DEF WritersDue, At
  <2>5. QED BY <1>0, <2>1, <2>3, <2>4 DEF WritersInv, AsleepForSpace
<1>12. QED BY <1>1, <1>2, <1>3, <1>4, <1>5, <1>6, <1>7, <1>8, <1>9, <1>10, <1>11
           DEF ANext, Kernel

(* A writer asleep while there is space, and that nobody is about to wake, *)
(* has had the pointers reset under it by an open.                         *)
THEOREM OnlyOpenStrandsWriters == Spec => []StrandedOnlyByOpen
<1>1. IInv /\ WrapInv /\ WritersInv /\ [Next]_vars => WrapInv' /\ WritersInv'
  <2> SUFFICES ASSUME IInv, WrapInv, WritersInv, [Next]_vars PROVE WrapInv' /\ WritersInv'
    OBVIOUS
  <2>1. CASE Next
    BY <2>1, WrapStep, WritersStep DEF Next, ANext
  <2>2. CASE UNCHANGED vars
    BY <2>2 DEF vars, mem, ptrs, waits, calls, WrapInv, WritersInv, AsleepForSpace,
                WritersDue, At, SpaceFree, SpaceFrom
  <2>3. QED BY <2>1, <2>2
<1>2. Spec => [](WrapInv /\ WritersInv)
  BY <1>1, WritersInit, Invariance, PTL DEF Spec
<1>3. QED BY <1>2, WritersInvImplies, PTL
=============================================================================
