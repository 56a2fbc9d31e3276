------------------------ MODULE ScullPipeFifoProofs ------------------------
(***************************************************************************)
(* Theorems about ScullPipe: the counters of pipe.c are the numbers of     *)
(* open files, so that the buffer is there while it is used, and the ring  *)
(* implements PipeFifo, the bounded queue.  The bytes are those of the     *)
(* cells the pointers name: that all of these cells are the driver's own   *)
(* is InsideAllocation, which an open with another size breaks.            *)
(***************************************************************************)
EXTENDS ScullPipeProofs, FiniteSetTheorems, SequenceTheorems

OpenIn(S) == {p \in S : IsOpen(p)}

\* An open allocates where there is no buffer, and has one afterwards.
OpeningAlloc ==
  \A p \in Procs :
    /\ pc[p] = "o_alloc" => alloc = 0
    /\ pc[p] \in {"o_set", "o_rp"} => alloc > 0

AllocInv == BufferWhileOpen /\ OpeningAlloc

\* The counters are finite, as the processes are.
LEMMA OpenFinite ==
  ASSUME NEW S, S \subseteq Procs
  PROVE  IsFiniteSet(OpenIn(S)) /\ Cardinality(OpenIn(S)) \in Nat
<1>1. OpenIn(S) \subseteq Procs
  BY DEF OpenIn
<1>. QED  BY <1>1, ProcsAssumption, FS_Subset, FS_CardinalityType

LEMMA AllocInit == Init => AllocInv
<1>. SUFFICES ASSUME Init PROVE AllocInv  OBVIOUS
<1>1. OpenIn(Readers) = {} /\ OpenIn(Writers) = {} /\ ~SomeOpen
  BY DEF Init, OpenIn, SomeOpen, IsOpen, Unopened, Procs
<1>2. Cardinality({}) = 0
  BY FS_EmptySet
<1>3. nreaders = Cardinality(OpenIn(Readers)) /\ nwriters = Cardinality(OpenIn(Writers))
  BY <1>1, <1>2 DEF Init
<1>4. BufferWhileOpen
  BY <1>1, <1>3 DEF BufferWhileOpen, OpenIn, Init
<1>5. OpeningAlloc
  BY DEF OpeningAlloc, Init
<1>. QED  BY <1>4, <1>5 DEF AllocInv

\* A step that neither opens nor closes a file, nor touches the buffer, and gives the
\* mutex up only where there is an open file or no buffer.
LEMMA AllocStay ==
  ASSUME AllocInv, UNCHANGED <<nreaders, nwriters, alloc>>, NEW p \in Procs,
         NEW from, NEW to, pc \in [Procs -> Pcs], Goto(p, from, to),
         from \in Unopened <=> to \in Unopened,
         to = "o_alloc" => alloc = 0, to \in {"o_set", "o_rp"} => alloc > 0,
         mutex' = NoProc => mutex = NoProc \/ from \notin Unopened \/ alloc = 0
  PROVE  AllocInv'
<1>1. \A q \in Procs : pc'[q] = IF q = p THEN to ELSE pc[q]
  BY DEF Goto
<1>2. pc[p] = from
  BY DEF Goto
<1>3. \A q \in Procs : IsOpen(q)' <=> IsOpen(q)
  BY <1>1, <1>2 DEF IsOpen
<1>4. OpenIn(Readers)' = OpenIn(Readers) /\ OpenIn(Writers)' = OpenIn(Writers)
  BY <1>3 DEF OpenIn, Procs
<1>5. SomeOpen' <=> SomeOpen
  BY <1>3 DEF SomeOpen
<1>6. from \notin Unopened => SomeOpen
  BY <1>2 DEF SomeOpen, IsOpen
<1>7. BufferWhileOpen'
  BY <1>4, <1>5, <1>6 DEF AllocInv, BufferWhileOpen, OpenIn
<1>8. OpeningAlloc'
  BY <1>1 DEF AllocInv, OpeningAlloc
<1>. QED  BY <1>7, <1>8 DEF AllocInv

\* A process that holds the mutex is alone at the places that need it.
LEMMA Alone ==
  ASSUME IInv, NEW p \in Procs, pc[p] \in Locked
  PROVE  mutex = p /\ \A q \in Procs : pc[q] \in Locked => q = p
BY DEF IInv, LockBalanced

\* The last store of an open counts the file.
LEMMA AllocOpen ==
  ASSUME IInv, AllocInv, NEW p \in Procs, OpenReset(p)
  PROVE  AllocInv'
<1>1. pc[p] = "o_rp" /\ pc' = [pc EXCEPT ![p] = "idle"] /\ alloc' = alloc /\ pc \in [Procs -> Pcs]
  BY DEF OpenReset, Return, Goto, mem, IInv, TypeOK
<1>2. alloc > 0 /\ ~IsOpen(p) /\ IsOpen(p)'
  BY <1>1 DEF AllocInv, OpeningAlloc, IsOpen, Unopened
<1>3. \A q \in Procs \ {p} : IsOpen(q)' <=> IsOpen(q)
  BY <1>1 DEF IsOpen
<1>4. ASSUME NEW S, S \subseteq Procs
      PROVE  Cardinality(OpenIn(S)') = Cardinality(OpenIn(S)) + (IF p \in S THEN 1 ELSE 0)
  <2>1. CASE p \in S
    <3>1. OpenIn(S)' = OpenIn(S) \cup {p} /\ p \notin OpenIn(S)
      BY <1>2, <1>3, <1>4, <2>1 DEF OpenIn
    <3>. QED  BY <2>1, <3>1, <1>4, OpenFinite, FS_AddElement
  <2>2. CASE p \notin S
    <3>1. OpenIn(S)' = OpenIn(S)
      BY <1>3, <1>4, <2>2 DEF OpenIn
    <3>. QED  BY <2>2, <3>1, <1>4, OpenFinite
  <2>. QED  BY <2>1, <2>2
<1>5. nreaders' = Cardinality(OpenIn(Readers)') /\ nwriters' = Cardinality(OpenIn(Writers)')
  <2>1. nreaders = Cardinality(OpenIn(Readers)) /\ nwriters = Cardinality(OpenIn(Writers))
    BY DEF AllocInv, BufferWhileOpen, OpenIn
  <2>2. Readers \subseteq Procs /\ Writers \subseteq Procs
    BY DEF Procs
  <2>3. Cardinality(OpenIn(Readers)) \in Nat /\ Cardinality(OpenIn(Writers)) \in Nat
    BY <2>2, OpenFinite
  <2>4. /\ Cardinality(OpenIn(Readers)') = Cardinality(OpenIn(Readers)) + (IF p \in Readers THEN 1 ELSE 0)
        /\ Cardinality(OpenIn(Writers)') = Cardinality(OpenIn(Writers)) + (IF p \in Writers THEN 1 ELSE 0)
    BY <2>2, <1>4
  <2>. QED  BY <2>1, <2>3, <2>4 DEF OpenReset
<1>6. SomeOpen'
  BY <1>2 DEF SomeOpen
<1>7. BufferWhileOpen'
  BY <1>1, <1>2, <1>5, <1>6 DEF BufferWhileOpen, OpenIn
<1>8. OpeningAlloc'
  BY <1>1 DEF AllocInv, OpeningAlloc
<1>. QED  BY <1>7, <1>8 DEF AllocInv

\* The release of a file takes it off, and frees the buffer with the last one.
LEMMA AllocClose ==
  ASSUME IInv, AllocInv, NEW p \in Procs, CloseFree(p)
  PROVE  AllocInv'
<1>1. pc[p] = "c_cs" /\ pc' = [pc EXCEPT ![p] = "closed"] /\ pc \in [Procs -> Pcs]
  BY DEF CloseFree, Return, Goto, IInv, TypeOK
<1>2. IsOpen(p) /\ ~IsOpen(p)'
  BY <1>1 DEF IsOpen, Unopened
<1>3. \A q \in Procs \ {p} : IsOpen(q)' <=> IsOpen(q)
  BY <1>1 DEF IsOpen
<1>4. ASSUME NEW S, S \subseteq Procs
      PROVE  Cardinality(OpenIn(S)') = Cardinality(OpenIn(S)) - (IF p \in S THEN 1 ELSE 0)
  <2>1. CASE p \in S
    <3>1. OpenIn(S)' = OpenIn(S) \ {p} /\ p \in OpenIn(S)
      BY <1>2, <1>3, <1>4, <2>1 DEF OpenIn
    <3>. QED  BY <2>1, <3>1, <1>4, OpenFinite, FS_RemoveElement
  <2>2. CASE p \notin S
    <3>1. OpenIn(S)' = OpenIn(S)
      BY <1>3, <1>4, <2>2 DEF OpenIn
    <3>. QED  BY <2>2, <3>1, <1>4, OpenFinite
  <2>. QED  BY <2>1, <2>2
<1>5. Readers \subseteq Procs /\ Writers \subseteq Procs
  BY DEF Procs
<1>6. nreaders' = Cardinality(OpenIn(Readers)') /\ nwriters' = Cardinality(OpenIn(Writers)')
  <2>1. nreaders = Cardinality(OpenIn(Readers)) /\ nwriters = Cardinality(OpenIn(Writers))
    BY DEF AllocInv, BufferWhileOpen, OpenIn
  <2>3. Cardinality(OpenIn(Readers)) \in Nat /\ Cardinality(OpenIn(Writers)) \in Nat
    BY <1>5, OpenFinite
  <2>4. /\ Cardinality(OpenIn(Readers)') = Cardinality(OpenIn(Readers)) - (IF p \in Readers THEN 1 ELSE 0)
        /\ Cardinality(OpenIn(Writers)') = Cardinality(OpenIn(Writers)) - (IF p \in Writers THEN 1 ELSE 0)
    BY <1>4, <1>5
  <2>. QED  BY <2>1, <2>3, <2>4 DEF CloseFree
<1>7. LastClose <=> ~SomeOpen'
  <2>1. /\ OpenIn(Readers)' \subseteq OpenIn(Readers) /\ OpenIn(Writers)' \subseteq OpenIn(Writers)
        /\ SomeOpen' <=> OpenIn(Readers)' # {} \/ OpenIn(Writers)' # {}
    BY <1>2, <1>3 DEF OpenIn, SomeOpen, Procs
  <2>2. IsFiniteSet(OpenIn(Readers)') /\ IsFiniteSet(OpenIn(Writers)')
    BY <1>5, <2>1, OpenFinite, FS_Subset
  <2>3. nreaders' \in Nat /\ nwriters' \in Nat
    BY <1>6, <2>2, FS_CardinalityType
  <2>4. /\ nreaders' = 0 <=> OpenIn(Readers)' = {}
        /\ nwriters' = 0 <=> OpenIn(Writers)' = {}
    BY <1>6, <2>2, FS_EmptySet
  <2>5. LastClose => nreaders' = 0 /\ nwriters' = 0
    <3>1. \A a, b \in Nat : a + b = 0 => a = 0 /\ b = 0
      OBVIOUS
    <3>. QED  BY <2>3, <3>1, Zenon DEF LastClose
  <2>6. nreaders' = 0 /\ nwriters' = 0 => LastClose
    BY DEF LastClose
  <2>. QED  BY <2>1, <2>4, <2>5, <2>6
<1>8. BufferWhileOpen'
  <2>1. alloc' = IF LastClose THEN 0 ELSE alloc
    BY DEF CloseFree
  <2>2. alloc > 0
    BY <1>2 DEF AllocInv, BufferWhileOpen, SomeOpen
  <2>. QED  BY <1>6, <1>7, <2>1, <2>2 DEF BufferWhileOpen, OpenIn
<1>9. OpeningAlloc'
  <2>1. \A q \in Procs : pc'[q] \in {"o_alloc", "o_set", "o_rp"} => FALSE
    BY <1>1, Alone DEF Locked
  <2>. QED  BY <2>1 DEF OpeningAlloc
<1>. QED  BY <1>8, <1>9 DEF AllocInv

\* The allocation of an open.
LEMMA AllocAlloc ==
  ASSUME IInv, AllocInv, NEW p \in Procs, OpenAlloc(p)
  PROVE  AllocInv'
<1>1. pc[p] = "o_alloc" /\ alloc = 0 /\ pc \in [Procs -> Pcs] /\ UNCHANGED <<nreaders, nwriters>>
  BY DEF OpenAlloc, Step, Return, Goto, opens, AllocInv, OpeningAlloc, IInv, TypeOK
<1>2. CASE Return(p, "o_alloc", "closed") /\ UNCHANGED mem
  BY <1>1, <1>2, AllocStay DEF Return, mem, Unopened
<1>3. CASE Step(p, "o_alloc", "o_set") /\ alloc' = scull_p_buffer /\ mutex' = mutex
  <2>1. pc' = [pc EXCEPT ![p] = "o_set"] /\ alloc' > 0 /\ mutex' = p /\ p # NoProc
    BY <1>1, <1>3, Alone, SizesAssumption, ProcsAssumption
       DEF Step, Goto, IInv, TypeOK, Locked
  <2>2. \A q \in Procs : IsOpen(q)' <=> IsOpen(q)
    BY <1>1, <2>1 DEF IsOpen, Unopened
  <2>3. OpenIn(Readers)' = OpenIn(Readers) /\ OpenIn(Writers)' = OpenIn(Writers)
    BY <2>2 DEF OpenIn, Procs
  <2>4. BufferWhileOpen'
    BY <1>1, <2>1, <2>3 DEF AllocInv, BufferWhileOpen, OpenIn
  <2>5. \A q \in Procs : pc'[q] # "o_alloc"
    BY <1>1, <2>1, Alone DEF Locked
  <2>. QED  BY <2>1, <2>4, <2>5 DEF AllocInv, OpeningAlloc
<1>. QED  BY <1>2, <1>3 DEF OpenAlloc

\* All the other steps leave counters and buffer alone.
LEMMA AllocStep ==
  ASSUME IInv, AllocInv, NEW p \in Procs, ANext(p)
  PROVE  AllocInv'
<1>0. pc \in [Procs -> Pcs] /\ alloc \in Nat /\ p # NoProc
  BY SizesAssumption, ProcsAssumption DEF IInv, TypeOK
<1>. USE DEF Step, Return, opens, mem, Unopened, Unlock
<1>1. CASE OpenReset(p)  BY <1>1, AllocOpen
<1>2. CASE CloseFree(p)  BY <1>2, AllocClose
<1>3. CASE OpenAlloc(p)  BY <1>3, AllocAlloc
<1>4. CASE MutexLock(p)
  BY <1>0, <1>4, AllocStay DEF MutexLock
<1>5. CASE OpenSet(p)
  <2>1. alloc > 0
    BY <1>5 DEF OpenSet, Goto, AllocInv, OpeningAlloc
  <2>. QED  BY <1>0, <1>5, <2>1, AllocStay DEF OpenSet
<1>6. CASE LockInterrupted(p) \/ Call(p) \/ Close(p) \/ TestLoad(p) \/ Woken(p)
  BY <1>0, <1>6, AllocStay DEF LockInterrupted, Call, Close, TestLoad, Woken
<1>7. CASE ReadEmpty(p) \/ ReadFault(p) \/ ReadPrepare(p) \/ ReadTest(p)
  BY <1>0, <1>7, AllocStay DEF ReadEmpty, ReadFault, ReadPrepare, ReadTest
<1>8. CASE ReadCopy(p) \/ ReadWrap(p) \/ ReadWake(p)
  BY <1>0, <1>8, AllocStay DEF ReadCopy, ReadWrap, ReadWake
<1>9. CASE WriteFull(p) \/ WriteFault(p) \/ WritePrepare(p) \/ WriteTest(p)
  BY <1>0, <1>9, AllocStay DEF WriteFull, WriteFault, WritePrepare, WriteTest
<1>10. CASE WriteCopy(p) \/ WriteWrap(p) \/ WriteWake(p) \/ WriteAsync(p) \/ WriteFinishWait(p)
  BY <1>0, <1>10, AllocStay DEF WriteCopy, WriteWrap, WriteWake, WriteAsync, WriteFinishWait
<1>11. CASE PollScan(p) \/ PollWoken(p)
  BY <1>0, <1>11, AllocStay DEF PollScan, PollWoken
<1>12. CASE Fasync(p) \/ IoctlSize(p) \/ Signal(p)
  BY <1>12 DEF Fasync, IoctlSize, Signal, AllocInv, BufferWhileOpen, OpeningAlloc, IsOpen,
               SomeOpen, calls
<1>. QED  BY <1>1, <1>2, <1>3, <1>4, <1>5, <1>6, <1>7, <1>8, <1>9, <1>10, <1>11, <1>12
          DEF ANext, Kernel

LEMMA AllocKept == IInv /\ AllocInv /\ [Next]_vars => AllocInv'
<1>. SUFFICES ASSUME IInv, AllocInv, [Next]_vars PROVE AllocInv'  OBVIOUS
<1>1. CASE UNCHANGED vars
  BY <1>1 DEF vars, mem, opens, calls, AllocInv, BufferWhileOpen, OpeningAlloc, IsOpen, SomeOpen
<1>2. CASE Next
  BY <1>2, AllocStep DEF Next, ANext
<1>. QED  BY <1>1, <1>2

\* For any number of processes and any order of opens and closes: the counters are the
\* numbers of open files, and the buffer is there exactly as long as somebody needs it.
LEMMA AllocInvariance == Spec => []AllocInv
BY AllocInit, AllocKept, Invariance, PTL DEF Spec

THEOREM BufferOutlivesFiles == Spec => []BufferWhileOpen
<1>1. AllocInv => BufferWhileOpen
  BY DEF AllocInv
<1>. QED  BY <1>1, AllocInvariance, PTL

-----------------------------------------------------------------------------
(* The size of the buffer, where nobody changes it while there is one. *)

\* A step that leaves the parameter scull_p_buffer alone as long as there is a buffer.
SizeKept == alloc # 0 => UNCHANGED scull_p_buffer

\* The buffer has the size the next open will ask for, and so has the ring once an
\* open has set it.
SizeInv ==
  /\ alloc # 0 => alloc = scull_p_buffer
  /\ SomeOpen \/ At({"o_rp"}) => buffersize = alloc

LEMMA SizeStep ==
  ASSUME IInv, AllocInv, SizeInv, NEW p \in Procs, ANext(p), SizeKept
  PROVE  SizeInv'
<1>0. /\ pc \in [Procs -> Pcs] /\ p # NoProc
      /\ alloc \in Nat /\ scull_p_buffer \in Nat \ {0}
  BY SizesAssumption, ProcsAssumption DEF IInv, TypeOK
<1>1. ASSUME UNCHANGED <<alloc, buffersize>>,
             \A q \in Procs : IsOpen(q)' => IsOpen(q) \/ At({"o_rp"}),
             \A q \in Procs : pc'[q] = "o_rp" => pc[q] = "o_rp"
      PROVE  SizeInv'
  BY <1>0, <1>1 DEF SizeInv, SizeKept, SomeOpen, At
<1>. USE DEF Step, Return, Goto, opens, mem, params, calls, Unlock
<1>2. CASE OpenAlloc(p) /\ alloc' # alloc
  <2>1. /\ pc[p] = "o_alloc" /\ pc' = [pc EXCEPT ![p] = "o_set"] /\ alloc = 0
        /\ alloc' = scull_p_buffer /\ scull_p_buffer' = scull_p_buffer
    BY <1>2 DEF OpenAlloc, AllocInv, OpeningAlloc
  <2>2. ~SomeOpen /\ \A q \in Procs : pc[q] # "o_rp"
    BY <2>1 DEF AllocInv, BufferWhileOpen, OpeningAlloc
  <2>3. ~SomeOpen' /\ ~At({"o_rp"})'
    BY <1>0, <2>1, <2>2 DEF SomeOpen, IsOpen, Unopened, At
  <2>. QED  BY <2>1, <2>3 DEF SizeInv
<1>3. CASE OpenSet(p)
  <2>1. alloc > 0 /\ alloc' = alloc /\ scull_p_buffer' = scull_p_buffer
        /\ buffersize' = scull_p_buffer
    BY <1>3 DEF OpenSet, AllocInv, OpeningAlloc
  <2>. QED  BY <1>0, <2>1 DEF SizeInv
<1>4. CASE CloseFree(p)
  <2>1. /\ buffersize' = buffersize /\ scull_p_buffer' = scull_p_buffer
        /\ pc[p] = "c_cs" /\ pc' = [pc EXCEPT ![p] = "closed"]
        /\ alloc' = IF LastClose THEN 0 ELSE alloc
    BY <1>4 DEF CloseFree
  <2>2. /\ SomeOpen /\ ~At({"o_rp"})' /\ buffersize = alloc
    BY <1>0, <2>1, Alone DEF SomeOpen, IsOpen, Unopened, At, Locked, SizeInv
  <2>3. SomeOpen' => alloc' # 0
    <3>1. AllocInv'
      BY <1>4, AllocClose
    <3>2. (SomeOpen => alloc > 0)'
      BY <3>1 DEF AllocInv, BufferWhileOpen
    <3>. QED  BY <3>2
  <2>. QED  BY <2>1, <2>2, <2>3 DEF SizeInv
<1>5. CASE MutexLock(p) \/ LockInterrupted(p) \/ Call(p) \/ Close(p) \/ TestLoad(p) \/ Woken(p)
  BY <1>0, <1>1, <1>5
     DEF MutexLock, LockInterrupted, Call, Close, TestLoad, Woken, IsOpen, Unopened
<1>6. CASE OpenReset(p) \/ (OpenAlloc(p) /\ alloc' = alloc)
  <2>1. CASE OpenReset(p)
    <3>1. /\ UNCHANGED <<alloc, buffersize>>
          /\ pc[p] = "o_rp" /\ pc' = [pc EXCEPT ![p] = "idle"]
      BY <2>1 DEF OpenReset
    <3>2. At({"o_rp"}) /\ \A q \in Procs : pc'[q] = "o_rp" => pc[q] = "o_rp"
      BY <1>0, <3>1 DEF At
    <3>. QED  BY <1>1, <3>1, <3>2
  <2>2. CASE Return(p, "o_alloc", "closed") /\ UNCHANGED mem
    BY <1>0, <1>1, <2>2 DEF IsOpen, Unopened
  <2>3. CASE Step(p, "o_alloc", "o_set") /\ alloc' = scull_p_buffer /\ alloc' = alloc
    BY <1>0, <2>3 DEF AllocInv, OpeningAlloc
  <2>. QED  BY <1>6, <2>1, <2>2, <2>3 DEF OpenAlloc
<1>7. CASE ReadEmpty(p) \/ ReadFault(p) \/ ReadPrepare(p) \/ ReadTest(p) \/ ReadCopy(p)
           \/ ReadWrap(p) \/ ReadWake(p)
  BY <1>0, <1>1, <1>7
     DEF ReadEmpty, ReadFault, ReadPrepare, ReadTest, ReadCopy, ReadWrap, ReadWake,
         IsOpen, Unopened
<1>8. CASE WriteFull(p) \/ WriteFault(p) \/ WritePrepare(p) \/ WriteTest(p)
           \/ WriteCopy(p) \/ WriteWrap(p) \/ WriteWake(p) \/ WriteAsync(p) \/ WriteFinishWait(p)
  BY <1>0, <1>1, <1>8
     DEF WriteFull, WriteFault, WritePrepare, WriteTest, WriteCopy, WriteWrap, WriteWake,
         WriteAsync, WriteFinishWait, IsOpen, Unopened
<1>9. CASE PollScan(p) \/ PollWoken(p) \/ Fasync(p) \/ IoctlSize(p) \/ Signal(p)
  BY <1>0, <1>1, <1>9
     DEF PollScan, PollWoken, Fasync, IoctlSize, Signal, IsOpen, Unopened
<1>. QED  BY <1>2, <1>3, <1>4, <1>5, <1>6, <1>7, <1>8, <1>9 DEF ANext, Kernel

\* The pointers never leave what kmalloc gave, as long as nobody changes the size of a
\* buffer that is there: an ioctl in between is the only way out of it.
THEOREM KeptSizeInside == Spec /\ [][SizeKept]_vars => []InsideAllocation
<1>1. Init => SizeInv
  BY DEF Init, SizeInv, SomeOpen, IsOpen, Unopened, At
<1>2. IInv /\ AllocInv /\ SizeInv /\ [Next]_vars /\ [SizeKept]_vars => SizeInv'
  <2>. SUFFICES ASSUME IInv, AllocInv, SizeInv, [Next]_vars, [SizeKept]_vars PROVE SizeInv'
    OBVIOUS
  <2>1. CASE UNCHANGED vars
    BY <2>1 DEF vars, mem, calls, params, SizeInv, SomeOpen, IsOpen, At
  <2>2. CASE Next /\ SizeKept
    BY <2>2, SizeStep DEF Next, ANext
  <2>. QED  BY <2>1, <2>2
<1>3. SizeInv /\ IInv => InsideAllocation
  BY SizesAssumption DEF SizeInv, InsideAllocation, IInv, TypeOK
<1>. QED  BY <1>1, <1>2, <1>3, Invariance, AllocInvariance, PTL DEF Spec

-----------------------------------------------------------------------------
(* The ring as a sequence. *)

\* The bytes of the ring b of n cells with its pointers at r and w.
Ring(b, r, w, n) == [i \in 1..((w + n - r) % n) |-> b[(r + i - 1) % n]]

\* Where the pointers of a ring can be: not both at the end, and with the write
\* pointer there the ring is not full.
Pointers(r, w, n) ==
  /\ n \in Nat \ {0} /\ r \in 0..n /\ w \in 0..n
  /\ ~(r = n /\ w = n) /\ (w = n => r > 0)

\* How many bytes there are ...
LEMMA RingLength ==
  ASSUME NEW n, NEW r, NEW w, Pointers(r, w, n)
  PROVE  (w + n - r) % n = IF w >= r THEN w - r ELSE w + n - r
<1>1. CASE w >= r
  <2>1. w + n - r \in Nat /\ n <= w + n - r /\ w + n - r < n + n
    BY <1>1 DEF Pointers
  <2>. QED  BY <1>1, <2>1, ModOnce DEF Pointers
<1>2. CASE w < r
  <2>1. w + n - r \in Nat /\ w + n - r < n
    BY <1>2 DEF Pointers
  <2>. QED  BY <1>2, <2>1, ModBelow DEF Pointers
<1>. QED  BY <1>1, <1>2 DEF Pointers

\* ... and where.
LEMMA RingCell ==
  ASSUME NEW n \in Nat \ {0}, NEW r \in 0..n, NEW i \in 1..n
  PROVE  (r + i - 1) % n = IF r + i - 1 < n THEN r + i - 1 ELSE r + i - 1 - n
<1>1. CASE r + i - 1 < n
  BY <1>1, ModBelow
<1>2. CASE ~(r + i - 1 < n)
  BY <1>2, ModOnce
<1>. QED  BY <1>1, <1>2

\* A pointer at the end is a pointer at the beginning.
LEMMA RingWrapped ==
  ASSUME NEW b, NEW n, NEW r, NEW w, Pointers(r, w, n)
  PROVE  /\ r = n => Ring(b, 0, w, n) = Ring(b, r, w, n)
         /\ w = n => Ring(b, r, 0, n) = Ring(b, r, w, n)
<1>1. ASSUME r = n PROVE Ring(b, 0, w, n) = Ring(b, r, w, n)
  <2>1. Pointers(0, w, n)
    BY <1>1 DEF Pointers
  <2>2. (w + n - 0) % n = w /\ (w + n - r) % n = w
    BY <1>1, <2>1, RingLength DEF Pointers
  <2>3. \A i \in 1..w : (0 + i - 1) % n = (r + i - 1) % n
    BY <1>1, RingCell DEF Pointers
  <2>. QED  BY <2>2, <2>3 DEF Ring
<1>2. ASSUME w = n PROVE Ring(b, r, 0, n) = Ring(b, r, w, n)
  <2>1. Pointers(r, 0, n)
    BY <1>2 DEF Pointers
  <2>2. (0 + n - r) % n = n - r /\ (w + n - r) % n = n - r
    BY <1>2, <2>1, RingLength DEF Pointers
  <2>. QED  BY <2>2 DEF Ring
<1>. QED  BY <1>1, <1>2

\* k bytes can be taken off the front in one piece, and what taking them does.
CanTake(b, r, w, n, k, V) ==
  /\ Pointers(r, w, n) /\ Pointers(r + k, w, n)
  /\ k \in Nat /\ k <= (w + n - r) % n /\ r + k <= n /\ (w >= r => r + k <= w)
  /\ \A j \in 0..(n - 1) : b[j] \in V
TakesOff(b, r, w, n, k, V) ==
  /\ Ring(b, r, w, n) \in Seq(V) /\ Len(Ring(b, r, w, n)) = (w + n - r) % n
  /\ [i \in 1..k |-> b[r + i - 1]] = SubSeq(Ring(b, r, w, n), 1, k)
  /\ Ring(b, r + k, w, n) = SubSeq(Ring(b, r, w, n), k + 1, Len(Ring(b, r, w, n)))

LEMMA RingTaken ==
  ASSUME NEW V, NEW b, NEW n, NEW r, NEW w, NEW k, CanTake(b, r, w, n, k, V)
  PROVE  TakesOff(b, r, w, n, k, V)
<1>h. /\ Pointers(r, w, n) /\ Pointers(r + k, w, n)
      /\ k \in Nat /\ k <= (w + n - r) % n /\ r + k <= n /\ (w >= r => r + k <= w)
      /\ \A j \in 0..(n - 1) : b[j] \in V
  BY DEF CanTake
<1>. DEFINE q == Ring(b, r, w, n)
            u == (w + n - r) % n
<1>1. u \in 0..n /\ u = IF w >= r THEN w - r ELSE w + n - r
  BY <1>h, RingLength DEF Pointers
<1>2. \A i \in 1..u : (r + i - 1) % n = (IF r + i - 1 < n THEN r + i - 1 ELSE r + i - 1 - n)
  BY <1>h, <1>1, RingCell DEF Pointers
<1>3. q \in Seq(V) /\ Len(q) = u /\ \A i \in 1..u : q[i] = b[(r + i - 1) % n]
  <2>1. \A i \in 1..u : b[(r + i - 1) % n] \in V
    BY <1>h, <1>1, <1>2 DEF Pointers
  <2>. HIDE DEF u
  <2>. QED  BY <1>h, <1>1, <2>1 DEF Ring, u
<1>4. [i \in 1..k |-> b[r + i - 1]] = SubSeq(q, 1, k)
  <2>1. \A i \in 1..k : q[i] = b[r + i - 1]
    <3>1. \A i \in 1..k : i \in 1..u /\ r + i - 1 < n
      BY <1>h, <1>1 DEF Pointers
    <3>2. \A i \in 1..k : (r + i - 1) % n = r + i - 1
      BY <1>h, <1>2, <3>1
    <3>. QED  BY <1>h, <1>3, <3>1, <3>2
  <2>. QED  BY <1>h, <1>1, <1>3, <2>1
<1>5. (w + n - (r + k)) % n = u - k
  <2>1. (w + n - (r + k)) % n = IF w >= r + k THEN w - (r + k) ELSE w + n - (r + k)
    BY <1>h, RingLength
  <2>. QED  BY <1>h, <1>1, <2>1 DEF Pointers
<1>6. Ring(b, r + k, w, n) = SubSeq(q, k + 1, Len(q))
  <2>1. Ring(b, r + k, w, n) = [i \in 1..(u - k) |-> b[(r + k + i - 1) % n]]
    BY <1>h, <1>5 DEF Ring
  <2>2. \A i \in 1..(u - k) : q[k + i] = b[(r + k + i - 1) % n]
    <3>1. \A i \in 1..(u - k) : r + (k + i) - 1 = r + k + i - 1 /\ k + i \in 1..u
      BY <1>h, <1>1 DEF Pointers
    <3>. QED  BY <1>h, <1>3, <3>1
  <2>3. SubSeq(q, k + 1, u) = [i \in 1..(u - k) |-> q[k + i]]
    BY <1>h, <1>1, <1>3
  <2>. QED  BY <1>h, <1>3, <2>1, <2>2, <2>3
<1>. QED  BY <1>3, <1>4, <1>6 DEF TakesOff

\* The ring c has the bytes from w on, and otherwise what b has.
Overwritten(b, c, w, bytes, n) ==
  \A j \in 0..(n - 1) :
    c[j] = IF j \in w..(w + Len(bytes) - 1) THEN bytes[j - w + 1] ELSE b[j]

Cells(b, n, V) == \A j \in 0..(n - 1) : b[j] \in V

\* bytes can be added at the end in one piece, the ring becoming c, and what that does.
CanAdd(b, c, r, w, n, bytes, V) ==
  /\ bytes \in Seq(V) /\ Pointers(r, w, n) /\ Pointers(r, w + Len(bytes), n)
  /\ w < n /\ r < n /\ w + Len(bytes) <= n /\ (w < r => w + Len(bytes) < r)
  /\ ((w + n - r) % n) + Len(bytes) < n
  /\ Cells(b, n, V) /\ Overwritten(b, c, w, bytes, n)
Added(b, c, r, w, n, bytes) ==
  /\ Ring(c, r, w + Len(bytes), n) = Ring(b, r, w, n) \o bytes
  /\ Ring(c, r, w, n) = Ring(b, r, w, n)

LEMMA RingAdded ==
  ASSUME NEW V, NEW b, NEW c, NEW n, NEW r, NEW w, NEW bytes, CanAdd(b, c, r, w, n, bytes, V)
  PROVE  Added(b, c, r, w, n, bytes)
<1>. DEFINE a == Len(bytes)
<1>h. /\ bytes \in Seq(V) /\ a \in Nat /\ a = Len(bytes) /\ Pointers(r, w, n) /\ Pointers(r, w + a, n)
      /\ w < n /\ r < n /\ w + a <= n /\ (w < r => w + a < r)
      /\ ((w + n - r) % n) + a < n
      /\ Cells(b, n, V) /\ Overwritten(b, c, w, bytes, n)
  BY LenProperties DEF CanAdd
<1>. HIDE DEF a
<1>. DEFINE q == Ring(b, r, w, n)
            u == (w + n - r) % n
<1>0. n \in Nat \ {0} /\ r \in 0..(n - 1) /\ w \in 0..(n - 1) /\ r \in 0..n
  BY <1>h DEF Pointers
<1>1. u \in 0..(n - 1) /\ u = IF w >= r THEN w - r ELSE w + n - r
  <2>1. u = IF w >= r THEN w - r ELSE w + n - r
    BY <1>h, RingLength
  <2>. QED  BY <1>h, <1>0, <2>1
<1>a. \A j \in 0..(n - 1) :
        c[j] = IF j \in w..(w + a - 1) THEN bytes[j - w + 1] ELSE b[j]
  BY <1>h DEF Overwritten
<1>2. \A i \in 1..n : (r + i - 1) % n = (IF r + i - 1 < n THEN r + i - 1 ELSE r + i - 1 - n)
  BY <1>h, <1>0, RingCell
<1>. HIDE DEF u
<1>3. q \in Seq(V) /\ Len(q) = u /\ \A i \in 1..u : q[i] = b[(r + i - 1) % n]
  <2>1. ASSUME NEW i \in 1..u PROVE b[(r + i - 1) % n] \in V
    <3>1. i \in 1..n
      BY <1>h, <1>0, <1>1
    <3>2. (r + i - 1) % n = IF r + i - 1 < n THEN r + i - 1 ELSE r + i - 1 - n
      BY <1>h, <1>2, <3>1
    <3>3. (r + i - 1) % n \in 0..(n - 1)
      BY <1>h, <1>0, <3>1, <3>2
    <3>. QED  BY <1>h, <3>3 DEF Cells
  <2>. QED  BY <1>h, <1>1, <2>1 DEF Ring, u
<1>4. \A i \in 1..u : c[(r + i - 1) % n] = b[(r + i - 1) % n]
  <2>. SUFFICES ASSUME NEW i \in 1..u PROVE c[(r + i - 1) % n] = b[(r + i - 1) % n]
    OBVIOUS
  <2>1. (r + i - 1) % n = IF r + i - 1 < n THEN r + i - 1 ELSE r + i - 1 - n
    <3>1. i \in 1..n
      BY <1>h, <1>0, <1>1
    <3>. QED  BY <1>h, <1>2, <3>1
  <2>2. (r + i - 1) % n \in 0..(n - 1) /\ (r + i - 1) % n \notin w..(w + a - 1)
    BY <1>h, <1>0, <1>1, <2>1
  <2>. QED  BY <1>h, <1>a, <2>2
<1>5. Ring(c, r, w, n) = q
  BY <1>h, <1>4 DEF Ring, u
<1>6. (w + a + n - r) % n = u + a
  <2>1. (w + a + n - r) % n = IF w + a >= r THEN (w + a) - r ELSE w + a + n - r
    <3>. DEFINE v == w + a
    <3>1. Pointers(r, v, n)
      BY <1>h
    <3>. HIDE DEF v
    <3>2. (v + n - r) % n = IF v >= r THEN v - r ELSE v + n - r
      BY <1>h, <3>1, RingLength
    <3>. QED  BY <1>h, <3>2, Zenon DEF v
  <2>. QED  BY <1>h, <1>0, <1>1, <2>1
<1>7. \A j \in 1..a : c[(r + (u + j) - 1) % n] = bytes[j]
  <2>. SUFFICES ASSUME NEW j \in 1..a PROVE c[(r + (u + j) - 1) % n] = bytes[j]
    OBVIOUS
  <2>1. u + j \in 1..n
    BY <1>h, <1>0, <1>1
  <2>2. (r + (u + j) - 1) % n
          = IF r + (u + j) - 1 < n THEN r + (u + j) - 1 ELSE r + (u + j) - 1 - n
    BY <1>h, <1>0, <1>1, <1>2, <2>1
  <2>3. (r + (u + j) - 1) % n = w + j - 1
    BY <1>h, <1>0, <1>1, <2>2
  <2>. DEFINE k == w + j - 1
  <2>4. k \in 0..(n - 1) /\ k \in w..(w + a - 1) /\ k - w + 1 = j
    BY <1>h, <1>0
  <2>. HIDE DEF k
  <2>5. c[k] = bytes[k - w + 1]
    BY <1>h, <1>a, <2>4
  <2>6. c[k] = bytes[j]
    BY <1>h, <2>4, <2>5
  <2>. QED  BY <1>h, <2>3, <2>6 DEF k
<1>8. Ring(c, r, w + a, n) = q \o bytes
  <2>1. Ring(c, r, w + a, n) = [i \in 1..(u + a) |-> c[(r + i - 1) % n]]
    BY <1>h, <1>6 DEF Ring
  <2>2. Len(q \o bytes) = u + a /\ q \o bytes \in Seq(V)
    BY <1>h, <1>3, ConcatProperties
  <2>a. \A i \in 1..(u + a) : (q \o bytes)[i] = IF i <= u THEN q[i] ELSE bytes[i - u]
    <3>1. \A i \in 1..(Len(q) + Len(bytes)) :
            (q \o bytes)[i] = IF i <= Len(q) THEN q[i] ELSE bytes[i - Len(q)]
      BY <1>h, <1>3, ConcatProperties
    <3>. QED  BY <1>h, <1>3, <3>1
  <2>3. ASSUME NEW i \in 1..(u + a) PROVE (q \o bytes)[i] = c[(r + i - 1) % n]
    <3>1. CASE i <= u
      BY <1>h, <1>1, <1>3, <1>4, <2>a, <3>1
    <3>2. CASE ~(i <= u)
      <4>1. i - u \in 1..a /\ u + (i - u) = i
        BY <1>h, <1>0, <1>1, <3>2
      <4>2. (q \o bytes)[i] = bytes[i - u]
        BY <1>h, <2>a, <3>2
      <4>. QED  BY <1>h, <1>7, <4>1, <4>2
    <3>. QED  BY <1>h, <3>1, <3>2
  <2>4. q \o bytes = [i \in 1..(u + a) |-> (q \o bytes)[i]]
    BY <1>h, <2>2, LenProperties
  <2>. QED  BY <1>h, <2>1, <2>3, <2>4
<1>. QED  BY <1>5, <1>8 DEF Added, a

-----------------------------------------------------------------------------
(* What the refinement needs of a state. *)

\* A process has bytes of a read only inside that read, and a write that ends at the
\* end of the buffer has left the first cell free.
FifoInv ==
  \A p \in Procs :
    /\ pc[p] \notin {"r_wrap", "r_wake"} => ubuf[p] = <<>>
    /\ pc[p] = "w_wrap" /\ wp = buffersize => rp > 0

Refined == IInv /\ AllocInv /\ FifoInv

Users == {p \in Procs : IsOpen(p) \/ pc[p] = "o_rp"}
Shown == SomeOpen /\ ~At({"o_rp"})

LEMMA FifoInit == Init => FifoInv
BY DEF Init, FifoInv

\* The pointers of a device that is open.
LEMMA ShownPointers ==
  ASSUME Refined, Shown
  PROVE  Pointers(rp, wp, buffersize) /\ buffersize \in 1..BufMax
<1>1. buffersize \in 1..BufMax /\ rp \in 0..buffersize /\ wp \in 0..buffersize
      /\ (rp = buffersize => At({"r_wrap"})) /\ (wp = buffersize => At({"w_wrap"}))
  BY SizesAssumption DEF Refined, IInv, TypeOK, RingOK, Shown
<1>2. ~(At({"r_wrap"}) /\ At({"w_wrap"}))
  BY Alone DEF Refined, At, Locked
<1>3. At({"w_wrap"}) /\ wp = buffersize => rp > 0
  BY DEF Refined, FifoInv, At
<1>. QED  BY <1>1, <1>2, <1>3 DEF Pointers

LEMMA ShownContents ==
  /\ Shown => Contents = Ring(buffer, rp, wp, buffersize)
  /\ ~Shown => Contents = <<>>
BY DEF Shown, Contents, Ring, Unread

LEMMA ShownContentsNext ==
  /\ Shown' => Contents' = Ring(buffer', rp', wp', buffersize')
  /\ ~Shown' => Contents' = <<>>
BY DEF Shown, Contents, Ring, Unread

\* Who moves without opening or closing changes neither the users nor whether there
\* is a queue.
LEMMA UsersKept ==
  ASSUME Refined, NEW p \in Procs, NEW from, NEW to, Goto(p, from, to),
         from \in Unopened <=> to \in Unopened, from # "o_rp", to # "o_rp"
  PROVE  Users' = Users /\ (Shown' <=> Shown)
<1>1. \A q \in Procs : pc'[q] = IF q = p THEN to ELSE pc[q]
  BY DEF Goto, Refined, IInv, TypeOK
<1>2. pc[p] = from
  BY DEF Goto
<1>3. \A q \in Procs : (IsOpen(q)' <=> IsOpen(q)) /\ (pc'[q] = "o_rp" <=> pc[q] = "o_rp")
  BY <1>1, <1>2 DEF IsOpen
<1>. QED  BY <1>3 DEF Users, Shown, SomeOpen, At

\* A step that shows nothing, or is the end of a read.
LEMMA Silent ==
  ASSUME NEW p \in Procs, Users' = Users, Contents' = Contents,
         ubuf' = ubuf \/ ubuf' = [ubuf EXCEPT ![p] = <<>>]
  PROVE  Fifo!Next \/ UNCHANGED Fifo!fifoVars
<1>1. CASE ubuf' = ubuf
  BY <1>1 DEF Fifo!fifoVars, Users
<1>2. CASE ubuf' = [ubuf EXCEPT ![p] = <<>>]
  BY <1>2 DEF Fifo!Next, Fifo!EndGet, Users
<1>. QED  BY <1>1, <1>2

\* Most steps: neither the ring nor the users change.
LEMMA SilentStep ==
  ASSUME Refined, NEW p \in Procs, NEW from, NEW to, Goto(p, from, to),
         from \in Unopened <=> to \in Unopened, from # "o_rp", to # "o_rp",
         Shown => UNCHANGED <<buffer, buffersize, rp, wp>>,
         ubuf' = ubuf \/ ubuf' = [ubuf EXCEPT ![p] = <<>>]
  PROVE  Fifo!Next \/ UNCHANGED Fifo!fifoVars
<1>1. Users' = Users /\ (Shown' <=> Shown)
  BY UsersKept
<1>2. Contents' = Contents
  BY <1>1, ShownContents, ShownContentsNext
<1>. QED  BY <1>1, <1>2, Silent

-----------------------------------------------------------------------------
(* Opens and closes. *)

LEMMA OpenShown ==
  ASSUME Refined, NEW p \in Procs, OpenSet(p)
  PROVE  Fifo!Next
<1>1. pc[p] = "o_set" /\ pc' = [pc EXCEPT ![p] = "o_rp"] /\ ubuf' = ubuf /\ pc \in [Procs -> Pcs]
  BY DEF OpenSet, Step, Goto, Refined, IInv, TypeOK
<1>2. p \notin Users /\ Users' = Users \cup {p}
  BY <1>1 DEF Users, IsOpen, Unopened
<1>3. ~Shown'
  BY <1>1 DEF Shown, At
<1>. QED  BY <1>1, <1>2, <1>3, ShownContentsNext DEF Fifo!Next, Fifo!Open, Users

LEMMA ResetShown ==
  ASSUME Refined, NEW p \in Procs, OpenReset(p)
  PROVE  Fifo!Next \/ UNCHANGED Fifo!fifoVars
<1>1. pc[p] = "o_rp" /\ pc' = [pc EXCEPT ![p] = "idle"] /\ pc \in [Procs -> Pcs]
      /\ ubuf' = [ubuf EXCEPT ![p] = <<>>]
  BY DEF OpenReset, Return, Goto, Refined, IInv, TypeOK
<1>2. Users' = Users
  BY <1>1 DEF Users, IsOpen, Unopened
<1>3. ~Shown /\ Shown'
  <2>1. \A q \in Procs : pc'[q] # "o_rp"
    BY <1>1, Alone DEF Refined, Locked
  <2>. QED  BY <1>1, <2>1 DEF Shown, SomeOpen, IsOpen, Unopened, At
<1>4. rp' = 0 /\ wp' = 0 /\ buffersize' \in Nat \ {0}
  BY <1>1, SizesAssumption DEF OpenReset, mem, Refined, IInv, TypeOK, OpeningOK
<1>5. Contents' = <<>>
  <2>1. Contents' = Ring(buffer', 0, 0, buffersize')
    BY <1>3, <1>4, ShownContentsNext
  <2>. DEFINE n == buffersize'
              u == (0 + n - 0) % n
  <2>2. Pointers(0, 0, n)
    BY <1>4 DEF Pointers
  <2>. HIDE DEF n
  <2>3. u = 0
    BY <2>2, RingLength
  <2>. HIDE DEF u
  <2>4. Ring(buffer', 0, 0, n) = [i \in 1..u |-> buffer'[(0 + i - 1) % n]]
    BY DEF Ring, u
  <2>5. Ring(buffer', 0, 0, n) = <<>>
    BY <2>3, <2>4
  <2>. QED  BY <2>1, <2>5 DEF n
<1>. QED  BY <1>1, <1>2, <1>3, <1>5, ShownContents, Silent

LEMMA CloseShown ==
  ASSUME Refined, NEW p \in Procs, CloseFree(p)
  PROVE  Fifo!Next
<1>1. pc[p] = "c_cs" /\ pc' = [pc EXCEPT ![p] = "closed"] /\ pc \in [Procs -> Pcs]
      /\ ubuf' = [ubuf EXCEPT ![p] = <<>>] /\ UNCHANGED <<buffer, buffersize, rp, wp>>
  BY DEF CloseFree, Return, Goto, ptrs, Refined, IInv, TypeOK
<1>2. ubuf' = ubuf
  BY <1>1 DEF Refined, FifoInv, IInv, TypeOK
<1>3. p \in Users /\ Users' = Users \ {p}
  BY <1>1 DEF Users, IsOpen, Unopened
<1>4. \A q \in Procs : pc[q] # "o_rp" /\ pc'[q] # "o_rp"
  BY <1>1, Alone DEF Refined, Locked
<1>5. Shown /\ (Shown' <=> Users # {p})
  BY <1>1, <1>3, <1>4 DEF Shown, SomeOpen, At, Users, IsOpen, Unopened
<1>6. Contents' = IF Users = {p} THEN <<>> ELSE Contents
  BY <1>1, <1>5, ShownContents, ShownContentsNext
<1>. QED  BY <1>2, <1>3, <1>6 DEF Fifo!Next, Fifo!Close, Users

-----------------------------------------------------------------------------
(* Reads. *)

\* A process that reads or writes has the device open and nobody is opening it.
LEMMA InsideShown ==
  ASSUME Refined, NEW p \in Procs, pc[p] \in {"r_cs", "r_wrap", "w_cs", "w_wrap"}
  PROVE  /\ Shown /\ p \in Users
         /\ pc[p] # "r_wrap" => rp < buffersize
         /\ pc[p] # "w_wrap" => wp < buffersize
<1>1. pc[p] \in Locked /\ pc[p] \notin Unopened
  BY DEF Locked, Unopened
<1>2. Shown
  BY <1>1, Alone DEF Refined, Shown, SomeOpen, IsOpen, At, Locked
<1>. QED  BY <1>1, <1>2, RingInside DEF Refined, Users, IsOpen

LEMMA ReadShown ==
  ASSUME Refined, NEW p \in Procs, ReadCopy(p)
  PROVE  Fifo!Next \/ UNCHANGED Fifo!fifoVars
<1>1. Goto(p, "r_cs", "r_wrap") /\ pc[p] = "r_cs" /\ UNCHANGED <<buffer, buffersize, wp>> /\ rp # wp
  BY DEF ReadCopy, mem, Goto
<1>2. Shown /\ p \in Users /\ rp < buffersize /\ wp < buffersize
  BY <1>1, InsideShown
<1>3. Pointers(rp, wp, buffersize) /\ buffersize \in 1..BufMax
  BY <1>2, ShownPointers
<1>4. Users' = Users /\ Shown'
  BY <1>1, <1>2, UsersKept DEF Unopened
<1>5. PICK n \in Counts :
        LET count == Min2(n, IF wp > rp THEN wp - rp ELSE buffersize - rp) IN
          /\ ubuf' = [ubuf EXCEPT ![p] = [i \in 1..count |-> buffer[rp + i - 1]]]
          /\ rp' = rp + count
  BY DEF ReadCopy
<1>. DEFINE k == Min2(n, IF wp > rp THEN wp - rp ELSE buffersize - rp)
            V == Values \cup {Junk}
<1>6. ubuf' = [ubuf EXCEPT ![p] = [i \in 1..k |-> buffer[rp + i - 1]]] /\ rp' = rp + k
  BY <1>5
<1>7. k \in Nat /\ rp + k <= buffersize /\ (wp >= rp => rp + k <= wp)
      /\ k <= (wp + buffersize - rp) % buffersize
  <2>1. (wp + buffersize - rp) % buffersize
          = IF wp >= rp THEN wp - rp ELSE wp + buffersize - rp
    BY <1>3, RingLength
  <2>. QED  BY <1>1, <1>2, <1>3, <2>1, CountsAssumption DEF Min2, Pointers
<1>. HIDE DEF k
<1>8. Pointers(rp + k, wp, buffersize)
  BY <1>2, <1>3, <1>7 DEF Pointers
<1>9. \A j \in 0..(buffersize - 1) : buffer[j] \in V
  BY <1>3, SizesAssumption DEF Refined, IInv, TypeOK
<1>10. /\ Contents \in Seq(V) /\ k <= Len(Contents)
       /\ [i \in 1..k |-> buffer[rp + i - 1]] = SubSeq(Contents, 1, k)
       /\ Contents' = SubSeq(Contents, k + 1, Len(Contents))
  <2>1. Contents = Ring(buffer, rp, wp, buffersize)
        /\ Contents' = Ring(buffer, rp + k, wp, buffersize)
    BY <1>1, <1>2, <1>4, <1>6, ShownContents, ShownContentsNext
  <2>. HIDE DEF V
  <2>2. /\ Ring(buffer, rp, wp, buffersize) \in Seq(V)
        /\ Len(Ring(buffer, rp, wp, buffersize)) = (wp + buffersize - rp) % buffersize
        /\ [i \in 1..k |-> buffer[rp + i - 1]] = SubSeq(Ring(buffer, rp, wp, buffersize), 1, k)
        /\ Ring(buffer, rp + k, wp, buffersize)
             = SubSeq(Ring(buffer, rp, wp, buffersize), k + 1, Len(Ring(buffer, rp, wp, buffersize)))
    <3>1. CanTake(buffer, rp, wp, buffersize, k, V)
      BY <1>3, <1>7, <1>8, <1>9 DEF CanTake
    <3>. QED  BY <3>1, RingTaken DEF TakesOff
  <2>. QED  BY <1>7, <2>1, <2>2
<1>11. CASE k = 0
  <2>1. ubuf' = [ubuf EXCEPT ![p] = <<>>]
    BY <1>6, <1>11
  <2>2. rp' = rp
    BY <1>3, <1>6, <1>11 DEF Pointers
  <2>3. Contents' = Contents
    BY <1>1, <1>2, <1>4, <2>2, ShownContents, ShownContentsNext
  <2>. QED  BY <1>4, <2>1, <2>3, Silent
<1>12. CASE k # 0
  <2>1. k \in 1..Len(Contents)
    BY <1>7, <1>10, <1>12
  <2>2. /\ ubuf' = [ubuf EXCEPT ![p] = SubSeq(Contents, 1, k)]
        /\ Contents' = SubSeq(Contents, k + 1, Len(Contents))
    BY <1>6, <1>10
  <2>3. Fifo!Get(p)
    BY <1>2, <1>4, <2>1, <2>2 DEF Fifo!Get, Users
  <2>. QED  BY <2>3 DEF Fifo!Next
<1>. QED  BY <1>11, <1>12

\* The wrap of a pointer.
LEMMA WrapShown ==
  ASSUME Refined, NEW p \in Procs, ReadWrap(p) \/ WriteWrap(p)
  PROVE  Fifo!Next \/ UNCHANGED Fifo!fifoVars
<1>1. CASE ReadWrap(p)
  <2>1. Goto(p, "r_wrap", "r_wake") /\ pc[p] = "r_wrap" /\ UNCHANGED <<buffer, buffersize, wp, ubuf>>
        /\ rp' = IF rp = buffersize THEN 0 ELSE rp
    BY <1>1 DEF ReadWrap, Step, Goto, mem
  <2>2. Shown /\ Pointers(rp, wp, buffersize)
    BY <2>1, InsideShown, ShownPointers
  <2>3. Users' = Users /\ Shown'
    BY <2>1, <2>2, UsersKept DEF Unopened
  <2>4. Contents' = Contents
    BY <2>1, <2>2, <2>3, RingWrapped, ShownContents, ShownContentsNext
  <2>. QED  BY <2>1, <2>3, <2>4, Silent
<1>2. CASE WriteWrap(p)
  <2>1. Goto(p, "w_wrap", "w_wake") /\ pc[p] = "w_wrap" /\ UNCHANGED <<buffer, buffersize, rp, ubuf>>
        /\ wp' = IF wp = buffersize THEN 0 ELSE wp
    BY <1>2 DEF WriteWrap, Step, Goto, mem
  <2>2. Shown /\ Pointers(rp, wp, buffersize)
    BY <2>1, InsideShown, ShownPointers
  <2>3. Users' = Users /\ Shown'
    BY <2>1, <2>2, UsersKept DEF Unopened
  <2>4. Contents' = Contents
    BY <2>1, <2>2, <2>3, RingWrapped, ShownContents, ShownContentsNext
  <2>. QED  BY <2>1, <2>3, <2>4, Silent
<1>. QED  BY <1>1, <1>2

-----------------------------------------------------------------------------
(* Writes. *)

\* What is accepted fits in the free part of the ring, in one piece.
LEMMA AcceptedFits ==
  ASSUME Refined, NEW p \in Procs, pc[p] = "w_cs", NEW n \in Nat
  PROVE  /\ Pointers(rp, wp, buffersize) /\ buffersize \in 1..BufMax
         /\ rp < buffersize /\ wp < buffersize
         /\ Accepted(n) \in Nat /\ wp + Accepted(n) <= buffersize
         /\ wp < rp => wp + Accepted(n) < rp
         /\ Unread + Accepted(n) < buffersize
         /\ Pointers(rp, wp + Accepted(n), buffersize)
<1>1. Shown /\ rp < buffersize /\ wp < buffersize
  BY InsideShown
<1>2. Pointers(rp, wp, buffersize) /\ buffersize \in 1..BufMax
  BY <1>1, ShownPointers
<1>3. Unread = IF wp >= rp THEN wp - rp ELSE wp + buffersize - rp
  BY <1>2, RingLength DEF Unread
<1>4. SpaceFree = buffersize - 1 - Unread
  <2>1. Pointers(wp, rp, buffersize)
    BY <1>1, <1>2 DEF Pointers
  <2>2. (rp + buffersize - wp) % buffersize
          = IF rp >= wp THEN rp - wp ELSE rp + buffersize - wp
    BY <2>1, RingLength
  <2>. QED  BY <1>1, <1>2, <1>3, <2>2 DEF SpaceFree, SpaceFrom, Pointers
<1>5. SpaceFree \in Nat
  BY <1>1, <1>2, <1>3, <1>4 DEF Pointers
<1>6. /\ Accepted(n) \in Nat /\ Accepted(n) <= SpaceFree
      /\ wp >= rp => Accepted(n) <= buffersize - wp
      /\ ~(wp >= rp) => Accepted(n) <= rp - wp - 1
  BY <1>1, <1>2, <1>5 DEF Accepted, Min2, Pointers
<1>. DEFINE a == Accepted(n)
<1>. HIDE DEF a
<1>7. /\ a \in Nat /\ wp + a <= buffersize /\ (wp < rp => wp + a < rp)
      /\ Unread + a < buffersize
  BY <1>1, <1>2, <1>3, <1>4, <1>6 DEF Pointers, a
<1>8. Pointers(rp, wp + a, buffersize)
  BY <1>1, <1>2, <1>3, <1>7 DEF Pointers
<1>. QED  BY <1>1, <1>2, <1>7, <1>8 DEF a

\* What the ring is after bytes have been copied behind its contents.
LEMMA StoredRing ==
  ASSUME Refined, NEW p \in Procs, pc[p] = "w_cs", NEW n \in Nat,
         NEW bytes \in [1..Accepted(n) -> Values \cup {Junk}]
  PROVE  /\ Ring(Stored(wp, bytes), rp, wp + Accepted(n), buffersize) = Contents \o bytes
         /\ Ring(Stored(wp, bytes), rp, wp, buffersize) = Contents
         /\ Contents \in Seq(Values \cup {Junk}) /\ Len(Contents) = Unread
<1>. DEFINE a == Accepted(n)
            V == Values \cup {Junk}
            c == Stored(wp, bytes)
<1>1. /\ Pointers(rp, wp, buffersize) /\ buffersize \in 1..BufMax
      /\ rp < buffersize /\ wp < buffersize
      /\ a \in Nat /\ wp + a <= buffersize
      /\ wp < rp => wp + a < rp
      /\ Unread + a < buffersize
      /\ Pointers(rp, wp + a, buffersize)
  BY AcceptedFits
<1>2. bytes \in Seq(V) /\ Len(bytes) = a
  <2>. HIDE DEF a
  <2>. QED  BY <1>1 DEF a
<1>3. Contents = Ring(buffer, rp, wp, buffersize)
  BY InsideShown, ShownContents
<1>4. buffer \in [0..(BufMax - 1) -> V] /\ BufMax \in Nat
  BY SizesAssumption DEF Refined, IInv, TypeOK
<1>5. Cells(buffer, buffersize, V)
  BY <1>1, <1>4 DEF Cells
<1>6. Overwritten(buffer, c, wp, bytes, buffersize)
  <2>1. \A j \in 0..(buffersize - 1) : j \in DOMAIN buffer
    BY <1>1, <1>4
  <2>2. \A j \in DOMAIN buffer :
          c[j] = IF j \in wp..(wp + Len(bytes) - 1) THEN bytes[j - wp + 1] ELSE buffer[j]
    BY DEF Stored
  <2>. QED  BY <2>1, <2>2 DEF Overwritten
<1>. HIDE DEF a, V, c
<1>7. ((wp + buffersize - rp) % buffersize) + a < buffersize
  BY <1>1 DEF Unread
<1>8. /\ Ring(c, rp, wp + a, buffersize) = Ring(buffer, rp, wp, buffersize) \o bytes
      /\ Ring(c, rp, wp, buffersize) = Ring(buffer, rp, wp, buffersize)
  <2>1. CanAdd(buffer, c, rp, wp, buffersize, bytes, V)
    BY <1>1, <1>2, <1>5, <1>6, <1>7 DEF CanAdd
  <2>2. Added(buffer, c, rp, wp, buffersize, bytes)
    BY <2>1, RingAdded
  <2>3. Len(bytes) = a
    BY <1>2
  <2>. QED  BY <2>2, <2>3, Zenon DEF Added
<1>9. Contents \in Seq(V) /\ Len(Contents) = Unread
  <2>1. /\ Ring(buffer, rp, wp, buffersize) \in Seq(V)
        /\ Len(Ring(buffer, rp, wp, buffersize)) = (wp + buffersize - rp) % buffersize
    <3>. DEFINE k == 0
    <3>1. k \in Nat /\ Pointers(rp + k, wp, buffersize) /\ k <= (wp + buffersize - rp) % buffersize
          /\ rp + k <= buffersize /\ (wp >= rp => rp + k <= wp)
      <4>1. (wp + buffersize - rp) % buffersize
              = IF wp >= rp THEN wp - rp ELSE wp + buffersize - rp
        BY <1>1, RingLength
      <4>. QED  BY <1>1, <4>1 DEF Pointers
    <3>. HIDE DEF k
    <3>2. CanTake(buffer, rp, wp, buffersize, k, V)
      BY <1>1, <1>5, <3>1 DEF Cells, CanTake
    <3>. QED  BY <3>2, RingTaken DEF TakesOff
  <2>. QED  BY <1>3, <2>1 DEF Unread
<1>. QED  BY <1>3, <1>8, <1>9 DEF a, V, c

LEMMA WriteShown ==
  ASSUME Refined, NEW p \in Procs, WriteCopy(p)
  PROVE  Fifo!Next \/ UNCHANGED Fifo!fifoVars
<1>1. Goto(p, "w_cs", "w_wrap") /\ pc[p] = "w_cs" /\ UNCHANGED <<buffersize, rp, ubuf>>
  BY DEF WriteCopy, Step, Goto
<1>2. PICK n \in Counts : \E bytes \in [1..Accepted(n) -> Values] :
        buffer' = Stored(wp, bytes) /\ wp' = wp + Accepted(n)
  BY DEF WriteCopy
<1>3. PICK bytes \in [1..Accepted(n) -> Values] :
        buffer' = Stored(wp, bytes) /\ wp' = wp + Accepted(n)
  BY <1>2
<1>4. n \in Nat /\ bytes \in [1..Accepted(n) -> Values \cup {Junk}]
  BY <1>3, CountsAssumption
<1>5. Shown /\ p \in Users
  BY <1>1, InsideShown
<1>6. Users' = Users /\ Shown'
  BY <1>1, <1>5, UsersKept DEF Unopened
<1>7. Contents' = Contents \o bytes /\ Contents \in Seq(Values \cup {Junk}) /\ Len(Contents) = Unread
  <2>1. Contents' = Ring(buffer', rp, wp + Accepted(n), buffersize)
    BY <1>1, <1>3, <1>6, ShownContentsNext
  <2>. QED  BY <1>1, <1>3, <1>4, <2>1, StoredRing
<1>. DEFINE a == Accepted(n)
<1>8. a \in Nat /\ Unread + a < buffersize /\ buffersize \in 1..BufMax
  BY <1>1, <1>4, AcceptedFits
<1>9. bytes \in [1..a -> Values] /\ bytes \in Seq(Values \cup {Junk}) /\ Len(bytes) = a
  <2>1. bytes \in [1..a -> Values]  OBVIOUS
  <2>. HIDE DEF a
  <2>. QED  BY <1>8, <2>1
<1>. HIDE DEF a
<1>10. Unread \in Nat
  BY <1>7, LenProperties
<1>11. CASE a = 0
  <2>1. bytes = <<>>
    BY <1>9, <1>11
  <2>2. Contents' = Contents
    BY <1>7, <2>1, ConcatEmptySeq
  <2>. QED  BY <1>1, <1>6, <2>2, Silent
<1>12. CASE a # 0
  <2>1. a \in 1..(BufMax - 1 - Len(Contents))
    BY <1>7, <1>8, <1>10, <1>12, SizesAssumption
  <2>2. Fifo!Put(p)
    BY <1>1, <1>5, <1>6, <1>7, <1>9, <2>1 DEF Fifo!Put, Users
  <2>. QED  BY <2>2 DEF Fifo!Next
<1>. QED  BY <1>11, <1>12

\* A copy that fails has spoilt free space only.
LEMMA FaultShown ==
  ASSUME Refined, NEW p \in Procs, WriteFault(p)
  PROVE  Fifo!Next \/ UNCHANGED Fifo!fifoVars
<1>1. Goto(p, "w_cs", "idle") /\ pc[p] = "w_cs" /\ UNCHANGED <<buffersize, rp, wp>>
      /\ ubuf' = [ubuf EXCEPT ![p] = <<>>]
  BY DEF WriteFault, Return, Goto, ptrs
<1>2. PICK n \in Counts : buffer' = Stored(wp, [i \in 1..Accepted(n) |-> Junk])
  BY DEF WriteFault
<1>3. n \in Nat /\ [i \in 1..Accepted(n) |-> Junk] \in [1..Accepted(n) -> Values \cup {Junk}]
  BY CountsAssumption
<1>4. Shown
  BY <1>1, InsideShown
<1>5. Users' = Users /\ Shown'
  BY <1>1, <1>4, UsersKept DEF Unopened
<1>6. Contents' = Contents
  <2>1. Contents' = Ring(buffer', rp, wp, buffersize)
    BY <1>1, <1>5, ShownContentsNext
  <2>. QED  BY <1>1, <1>2, <1>3, <2>1, StoredRing
<1>. QED  BY <1>1, <1>5, <1>6, Silent

-----------------------------------------------------------------------------
(* All steps. *)

LEMMA StepShown ==
  ASSUME Refined, NEW p \in Procs, ANext(p)
  PROVE  Fifo!Next \/ UNCHANGED Fifo!fifoVars
<1>. USE DEF Step, Return, mem, ptrs
<1>1. CASE OpenReset(p) \/ OpenSet(p)  BY <1>1, ResetShown, OpenShown
<1>2. CASE CloseFree(p)  BY <1>2, CloseShown
<1>3. CASE ReadCopy(p) \/ ReadWrap(p) \/ WriteWrap(p)  BY <1>3, ReadShown, WrapShown
<1>4. CASE WriteCopy(p) \/ WriteFault(p)  BY <1>4, WriteShown, FaultShown
<1>5. CASE OpenAlloc(p)
  <2>1. pc[p] = "o_alloc" /\ ~Shown
    BY <1>5 DEF OpenAlloc, Goto, Refined, AllocInv, OpeningAlloc, BufferWhileOpen, Shown,
                Refined, IInv, TypeOK
  <2>. QED  BY <1>5, <2>1, SilentStep DEF OpenAlloc, Unopened
<1>6. CASE MutexLock(p) \/ LockInterrupted(p) \/ Call(p) \/ Close(p)
  BY <1>6, SilentStep DEF MutexLock, LockInterrupted, Call, Close, Unopened
<1>7. CASE TestLoad(p) \/ Woken(p)
  BY <1>7, SilentStep DEF TestLoad, Woken, Unopened
<1>8. CASE ReadEmpty(p) \/ ReadFault(p) \/ ReadPrepare(p)
  BY <1>8, SilentStep DEF ReadEmpty, ReadFault, ReadPrepare, Unopened
<1>9. CASE ReadTest(p) \/ ReadWake(p)
  BY <1>9, SilentStep DEF ReadTest, ReadWake, Unopened
<1>10. CASE WriteFull(p) \/ WritePrepare(p) \/ WriteTest(p)
  BY <1>10, SilentStep DEF WriteFull, WritePrepare, WriteTest, Unopened
<1>11. CASE WriteFinishWait(p) \/ WriteWake(p) \/ WriteAsync(p)
  BY <1>11, SilentStep DEF WriteFinishWait, WriteWake, WriteAsync, Unopened
<1>12. CASE PollScan(p) \/ PollWoken(p)
  BY <1>12, SilentStep DEF PollScan, PollWoken, Unopened
<1>13. CASE Fasync(p) \/ IoctlSize(p) \/ Signal(p)
  <2>1. UNCHANGED <<pc, ubuf, buffer, buffersize, rp, wp>>
    BY <1>13 DEF Fasync, IoctlSize, Signal, calls
  <2>2. Users' = Users /\ (Shown' <=> Shown)
    BY <2>1 DEF Users, Shown, SomeOpen, IsOpen, At
  <2>3. Contents' = Contents
    BY <2>1, <2>2, ShownContents, ShownContentsNext
  <2>. QED  BY <2>1, <2>2, <2>3, Silent
<1>. QED  BY <1>1, <1>2, <1>3, <1>4, <1>5, <1>6, <1>7, <1>8, <1>9, <1>10, <1>11, <1>12, <1>13
          DEF ANext, Kernel

\* A step of p that ends no read but with an empty ubuf, and does not end at the wrap of
\* a write.
LEMMA FifoStay ==
  ASSUME Refined, NEW p \in Procs, NEW from, NEW to, Goto(p, from, to),
         to # "w_wrap",
         \/ ubuf' = [ubuf EXCEPT ![p] = <<>>]
         \/ ubuf' = ubuf /\ from \notin {"r_wrap", "r_wake"}
         \/ ubuf' = ubuf /\ to = "r_wake",
         \/ UNCHANGED <<rp, wp, buffersize>>
         \/ from \in Locked
  PROVE  FifoInv'
<1>1. \A q \in Procs : pc'[q] = IF q = p THEN to ELSE pc[q]
  BY DEF Goto, Refined, IInv, TypeOK
<1>2. pc[p] = from /\ ubuf \in [Procs -> Seq(Values \cup {Junk})]
  BY DEF Goto, Refined, IInv, TypeOK
<1>3. ASSUME NEW q \in Procs, pc'[q] \notin {"r_wrap", "r_wake"}
      PROVE  ubuf'[q] = <<>>
  BY <1>1, <1>2, <1>3 DEF Refined, FifoInv
<1>4. ASSUME NEW q \in Procs, pc'[q] = "w_wrap", wp' = buffersize'
      PROVE  rp' > 0
  <2>1. q # p /\ pc[q] = "w_wrap"
    BY <1>1, <1>4
  <2>2. from \notin Locked
    BY <1>2, <2>1, Alone DEF Refined, Locked
  <2>. QED  BY <1>4, <2>1, <2>2 DEF Refined, FifoInv
<1>. QED  BY <1>3, <1>4 DEF FifoInv

LEMMA FifoStep ==
  ASSUME Refined, NEW p \in Procs, ANext(p)
  PROVE  FifoInv'
<1>. USE DEF Step, Return, mem, ptrs, Locked
<1>1. CASE OpenReset(p) \/ OpenSet(p) \/ OpenAlloc(p) \/ CloseFree(p)
  BY <1>1, FifoStay DEF OpenReset, OpenSet, OpenAlloc, CloseFree
<1>2. CASE ReadWrap(p) \/ WriteWrap(p) \/ WriteFault(p)
  BY <1>2, FifoStay DEF ReadWrap, WriteWrap, WriteFault
<1>3. CASE ReadCopy(p)
  <2>1. pc[p] = "r_cs" /\ pc' = [pc EXCEPT ![p] = "r_wrap"] /\ pc \in [Procs -> Pcs]
    BY <1>3 DEF ReadCopy, Goto, Refined, IInv, TypeOK
  <2>2. \A q \in Procs \ {p} : ubuf'[q] = ubuf[q] /\ pc'[q] = pc[q]
    BY <1>3, <2>1 DEF ReadCopy, Refined, IInv, TypeOK
  <2>3. \A q \in Procs : pc'[q] # "w_wrap"
    BY <2>1, Alone DEF Refined
  <2>. QED  BY <2>1, <2>2, <2>3 DEF FifoInv, Refined
<1>4. CASE WriteCopy(p)
  <2>1. pc[p] = "w_cs" /\ pc' = [pc EXCEPT ![p] = "w_wrap"] /\ pc \in [Procs -> Pcs]
        /\ UNCHANGED <<rp, buffersize, ubuf>>
    BY <1>4 DEF WriteCopy, Goto, Refined, IInv, TypeOK
  <2>2. PICK n \in Counts : wp' = wp + Accepted(n)
    BY <1>4 DEF WriteCopy
  <2>3. Pointers(rp, wp', buffersize)
    BY <2>1, <2>2, AcceptedFits, CountsAssumption
  <2>. QED  BY <2>1, <2>3 DEF FifoInv, Refined, Pointers
<1>5. CASE MutexLock(p) \/ LockInterrupted(p) \/ Call(p) \/ Close(p)
  BY <1>5, FifoStay DEF MutexLock, LockInterrupted, Call, Close
<1>6. CASE TestLoad(p) \/ Woken(p)
  BY <1>6, FifoStay DEF TestLoad, Woken
<1>7. CASE ReadEmpty(p) \/ ReadFault(p) \/ ReadPrepare(p)
  BY <1>7, FifoStay DEF ReadEmpty, ReadFault, ReadPrepare
<1>8. CASE ReadTest(p) \/ ReadWake(p)
  BY <1>8, FifoStay DEF ReadTest, ReadWake
<1>9. CASE WriteFull(p) \/ WritePrepare(p) \/ WriteTest(p)
  BY <1>9, FifoStay DEF WriteFull, WritePrepare, WriteTest
<1>10. CASE WriteFinishWait(p) \/ WriteWake(p) \/ WriteAsync(p)
  BY <1>10, FifoStay DEF WriteFinishWait, WriteWake, WriteAsync
<1>11. CASE PollScan(p) \/ PollWoken(p)
  BY <1>11, FifoStay DEF PollScan, PollWoken
<1>12. CASE Fasync(p) \/ IoctlSize(p) \/ Signal(p)
  BY <1>12 DEF Fasync, IoctlSize, Signal, calls, Refined, FifoInv
<1>. QED  BY <1>1, <1>2, <1>3, <1>4, <1>5, <1>6, <1>7, <1>8, <1>9, <1>10, <1>11, <1>12
          DEF ANext, Kernel

\* Whatever the sizes, the processes and the bytes, the ring of pipe.c is the bounded
\* queue PipeFifo promises: what is written is read once and in order, a call that fails
\* moves nothing, and only an open or the last release drops bytes.
THEOREM ImplementsDeviceFifo == Spec => ImplementsFifo
<1>1. Init => Fifo!Init
  <2>. SUFFICES ASSUME Init PROVE Fifo!Init  OBVIOUS
  <2>1. Users = {} /\ ~Shown
    BY DEF Init, Users, Shown, SomeOpen, IsOpen, Unopened
  <2>2. Contents = <<>>
    BY <2>1, ShownContents
  <2>. QED  BY <2>1, <2>2 DEF Init, Fifo!Init, Users
<1>2. IInv /\ AllocInv /\ FifoInv /\ [Next]_vars => FifoInv'
  <2>. SUFFICES ASSUME Refined, [Next]_vars PROVE FifoInv'  BY DEF Refined
  <2>1. CASE UNCHANGED vars
    BY <2>1 DEF vars, mem, ptrs, calls, Refined, FifoInv
  <2>2. CASE Next
    BY <2>2, FifoStep DEF Next, ANext
  <2>. QED  BY <2>1, <2>2
<1>3. IInv /\ AllocInv /\ FifoInv /\ [Next]_vars => [Fifo!Next]_(Fifo!fifoVars)
  <2>. SUFFICES ASSUME Refined, [Next]_vars PROVE Fifo!Next \/ UNCHANGED Fifo!fifoVars
    BY DEF Refined
  <2>1. CASE UNCHANGED vars
    <3>1. UNCHANGED <<pc, ubuf, buffer, buffersize, rp, wp>>
      BY <2>1 DEF vars, mem, ptrs, calls
    <3>2. Users' = Users /\ (Shown' <=> Shown)
      BY <3>1 DEF Users, Shown, SomeOpen, IsOpen, At
    <3>3. Contents' = Contents
      BY <3>1, <3>2, ShownContents, ShownContentsNext
    <3>. QED  BY <3>1, <3>2, <3>3 DEF Fifo!fifoVars, Users
  <2>2. CASE Next
    BY <2>2, StepShown DEF Next, ANext
  <2>. QED  BY <2>1, <2>2
<1>4. Spec => []AllocInv
  BY AllocInit, AllocKept, Invariance, PTL DEF Spec
<1>. QED  BY <1>1, <1>2, <1>3, <1>4, FifoInit, Invariance, PTL
          DEF Spec, ImplementsFifo, Fifo!Spec
=============================================================================
