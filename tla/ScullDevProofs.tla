-------------------------- MODULE ScullDevProofs --------------------------
(***************************************************************************)
(* Theorems about ScullDev, for any processes, settings, counts and        *)
(* positions.  Two arguments: what scull_follow and scull_write allocate   *)
(* has the sizes they were called with, and a position falls inside an     *)
(* array and a quantum of the sizes it is divided by.                      *)
(***************************************************************************)
EXTENDS ScullDev, TLAPS

(* The device's memory, and a list whose arrays and quanta have given sizes. *)
Lists == Seq(Seq(Seq(Bytes)))
Sized(list, q, s) ==
  \A i \in DOMAIN list :
    list[i] # <<>> =>
      /\ Len(list[i]) = s
      /\ \A j \in DOMAIN list[i] : list[i][j] = <<>> \/ Len(list[i][j]) = q

-----------------------------------------------------------------------------
(* Positions *)

(* Dividing a rest below q * s by q stays below s. *)
LEMMA DivBelow ==
  ASSUME NEW x \in Nat, NEW q \in Nat, NEW s \in Nat, q > 0, x < q * s
  PROVE  x \div q < s
<1>1. x \div q \in Nat /\ q * (x \div q) <= x
  BY SMT
<1>2. SUFFICES ASSUME s <= x \div q PROVE FALSE
  BY <1>1
<1>3. q * s <= q * (x \div q)
  BY <1>1, <1>2, SMT
<1>4. QED BY <1>1, <1>3

(* Where a position falls is inside an array of s quanta of q bytes. *)
LEMMA WhereInside ==
  ASSUME NEW k \in Nat, NEW q \in Nat, NEW s \in Nat, q * s # 0
  PROVE  /\ Where(k, q, s).item \in Nat \ {0}
         /\ Where(k, q, s).s \in 1 .. s
         /\ Where(k, q, s).q \in 0 .. q - 1
<1> DEFINE n == q * s
<1>1. q > 0 /\ s > 0
  BY SMT
<1>2. n \in Nat /\ n > 0
  BY <1>1, SMT
<1>3. k % n \in 0 .. n - 1
  <2> HIDE DEF n
  <2> QED BY <1>2, SMT
<1>4. k \div n \in Nat
  <2> HIDE DEF n
  <2> QED BY <1>2, SMT
<1>5. (k % n) \div q < s
  BY <1>1, <1>3, DivBelow
<1>6. (k % n) \div q \in Nat /\ (k % n) % q \in 0 .. q - 1
  <2> HIDE DEF n
  <2> QED BY <1>1, <1>3, SMT
<1>7. QED BY <1>4, <1>5, <1>6 DEF Where

-----------------------------------------------------------------------------
(* Memory *)

(* scull_follow keeps what there is and makes the list long enough. *)
LEMMA FollowedList ==
  ASSUME data \in Lists, NEW n \in Nat
  PROVE  /\ Followed(n) \in Lists
         /\ n <= Len(Followed(n)) /\ Len(data) <= Len(Followed(n))
         /\ \A q, s : Sized(data, q, s) => Sized(Followed(n), q, s)
<1> DEFINE m == IF n > Len(data) THEN n ELSE Len(data)
<1>1. m \in Nat /\ n <= m /\ Len(data) <= m
  BY DEF Lists
<1>2. \A i \in 1 .. m : (IF i <= Len(data) THEN data[i] ELSE <<>>) \in Seq(Seq(Bytes))
  BY <1>1 DEF Lists
<1>3. Followed(n) \in Lists /\ Len(Followed(n)) = m
  BY <1>1, <1>2 DEF Followed, Lists
<1>4. ASSUME NEW q, NEW s, Sized(data, q, s) PROVE Sized(Followed(n), q, s)
  BY <1>1, <1>3, <1>4 DEF Followed, Sized, Lists
<1>5. QED BY <1>1, <1>3, <1>4

Replaced(list, i, j, new) == [list EXCEPT ![i][j] = new]

(* Replacing one quantum by one of the same size changes no size. *)
LEMMA ReplacedList ==
  ASSUME NEW list \in Lists, NEW i \in DOMAIN list, NEW j \in DOMAIN list[i],
         NEW new \in Seq(Bytes)
  PROVE  /\ Replaced(list, i, j, new) \in Lists
         /\ Len(Replaced(list, i, j, new)) = Len(list)
         /\ \A q, s : Sized(list, q, s) /\ (new = <<>> \/ Len(new) = q)
                      => Sized(Replaced(list, i, j, new), q, s)
<1> DEFINE out == [list EXCEPT ![i][j] = new]
<1>1. list[i] \in Seq(Seq(Bytes))
  BY DEF Lists
<1>2. out \in Lists /\ Len(out) = Len(list) /\ DOMAIN out = DOMAIN list
  BY <1>1 DEF Lists
<1>3. ASSUME NEW q, NEW s, Sized(list, q, s), new = <<>> \/ Len(new) = q
      PROVE  Sized(out, q, s)
  <2>1. SUFFICES ASSUME NEW k \in DOMAIN list, out[k] # <<>>
        PROVE  /\ Len(out[k]) = s
               /\ \A l \in DOMAIN out[k] : out[k][l] = <<>> \/ Len(out[k][l]) = q
    BY <1>2 DEF Sized
  <2>2. CASE k # i
    BY <1>3, <2>1, <2>2 DEF Sized
  <2>3. CASE k = i
    <3>1. out[k] = [list[k] EXCEPT ![j] = new]
      BY <2>3
    <3>2. DOMAIN out[k] = DOMAIN list[k] /\ Len(out[k]) = Len(list[k]) /\ list[k] # <<>>
      BY <1>1, <2>3, <3>1
    <3>3. Len(list[k]) = s /\ \A l \in DOMAIN list[k] : list[k][l] = <<>> \/ Len(list[k][l]) = q
      BY <1>3, <3>2 DEF Sized
    <3>4. \A l \in DOMAIN out[k] : out[k][l] = IF l = j THEN new ELSE list[k][l]
      BY <3>1, <3>2
    <3>5. QED BY <1>3, <3>2, <3>3, <3>4
  <2>4. QED BY <2>2, <2>3
<1>4. QED BY <1>2, <1>3 DEF Replaced

(* The array that scull_write adds has as many places as it was asked for. *)
LEMMA ArrayList ==
  ASSUME NEW list \in Lists, NEW at, at.item \in DOMAIN list, NEW s \in Nat
  PROVE  /\ WithArray(list, at, s) \in Lists
         /\ Len(WithArray(list, at, s)) = Len(list)
         /\ \A q : Sized(list, q, s) => Sized(WithArray(list, at, s), q, s)
<1>1. [i \in 1 .. s |-> <<>>] \in Seq(Seq(Bytes)) /\ Len([i \in 1 .. s |-> <<>>]) = s
  OBVIOUS
<1>2. QED BY <1>1 DEF WithArray, Lists, Sized

(* The quantum it adds has as many bytes as it was asked for. *)
LEMMA QuantumList ==
  ASSUME NEW list \in Lists, NEW at, at.item \in DOMAIN list, NEW q \in Nat
  PROVE  /\ WithQuantum(list, at, q) \in Lists
         /\ Len(WithQuantum(list, at, q)) = Len(list)
         /\ \A s : Sized(list, q, s) => Sized(WithQuantum(list, at, q), q, s)
<1>1. [i \in 1 .. q |-> Junk] \in Seq(Bytes) /\ Len([i \in 1 .. q |-> Junk]) = q
  BY DEF Bytes
<1>2. CASE WithQuantum(list, at, q) = list
  BY <1>2
<1>3. CASE WithQuantum(list, at, q) # list
  <2> DEFINE new == [i \in 1 .. q |-> Junk]
  <2>1. /\ at.s \in DOMAIN list[at.item]
        /\ WithQuantum(list, at, q) = [list EXCEPT ![at.item][at.s] = new]
    BY <1>3 DEF WithQuantum
  <2>3. new \in Seq(Bytes) /\ Len(new) = q
    BY <1>1
  <2> HIDE DEF new
  <2>4. WithQuantum(list, at, q) = Replaced(list, at.item, at.s, new)
    BY <2>1 DEF Replaced
  <2>5. at.s \in DOMAIN list[at.item] /\ new \in Seq(Bytes)
    BY <2>1, <2>3
  <2>6. /\ Replaced(list, at.item, at.s, new) \in Lists
        /\ Len(Replaced(list, at.item, at.s, new)) = Len(list)
        /\ \A b, s : Sized(list, b, s) /\ (new = <<>> \/ Len(new) = b)
                   => Sized(Replaced(list, at.item, at.s, new), b, s)
    BY <2>5, ReplacedList
  <2>7. QED BY <2>3, <2>4, <2>6
<1>4. QED BY <1>2, <1>3

(* Storing bytes changes no size. *)
LEMMA StoredList ==
  ASSUME NEW list \in Lists, NEW at, at.item \in DOMAIN list,
         at.s \in DOMAIN list[at.item], at.q \in Nat, NEW bytes \in Seq(Bytes)
  PROVE  /\ Stored(list, at, bytes) \in Lists
         /\ \A q, s : Sized(list, q, s) => Sized(Stored(list, at, bytes), q, s)
<1> DEFINE new == [i \in DOMAIN list[at.item][at.s] |->
                     IF i \in at.q + 1 .. at.q + Len(bytes) THEN bytes[i - at.q]
                     ELSE list[at.item][at.s][i]]
<1>0. /\ list[at.item] \in Seq(Seq(Bytes)) /\ list[at.item][at.s] \in Seq(Bytes)
      /\ DOMAIN list[at.item][at.s] = 1 .. Len(list[at.item][at.s])
  BY DEF Lists
<1>1. new \in Seq(Bytes) /\ Len(new) = Len(list[at.item][at.s])
  <2> DEFINE old == list[at.item][at.s]
  <2>1. old \in Seq(Bytes) /\ DOMAIN old = 1 .. Len(old) /\ Len(old) \in Nat
    BY <1>0
  <2> HIDE DEF old
  <2>2. \A i \in 1 .. Len(old) :
          (IF i \in at.q + 1 .. at.q + Len(bytes) THEN bytes[i - at.q] ELSE old[i])
            \in Bytes
    <3> SUFFICES ASSUME NEW i \in 1 .. Len(old), i \in at.q + 1 .. at.q + Len(bytes)
        PROVE  bytes[i - at.q] \in Bytes
      BY <2>1
    <3>1. i - at.q \in 1 .. Len(bytes)
      OBVIOUS
    <3>2. QED BY <3>1
  <2>3. new = [i \in 1 .. Len(old) |->
          IF i \in at.q + 1 .. at.q + Len(bytes) THEN bytes[i - at.q] ELSE old[i]]
    BY <2>1 DEF old
  <2>4. QED BY <2>1, <2>2, <2>3 DEF old
<1>2. Stored(list, at, bytes) = [list EXCEPT ![at.item][at.s] = new]
  BY DEF Stored
<1> HIDE DEF new
<1>3. Len(list[at.item][at.s]) = 0 => new = <<>>
  BY <1>1
<1>4. \A q, s : Sized(list, q, s) => new = <<>> \/ Len(new) = q
  BY <1>0, <1>1, <1>3 DEF Sized
<1>5. Stored(list, at, bytes) = Replaced(list, at.item, at.s, new)
  BY <1>2 DEF Replaced
<1>6. QED BY <1>1, <1>4, <1>5, ReplacedList

-----------------------------------------------------------------------------
(* A call with sizes that multiply to something other than zero *)

(* What a process in a read or a write knows of the position it works at. *)
LEMMA AtInside ==
  ASSUME TypeOK, NEW p \in Procs, itemsize(p) # 0
  PROVE  /\ At(p).item \in Nat \ {0}
         /\ At(p).s \in 1 .. args[p].qset
         /\ At(p).q \in 0 .. args[p].quantum - 1
         /\ args[p].quantum \in Nat /\ args[p].qset \in Nat
<1>1. f_pos[p] \in Nat /\ args[p].quantum \in Nat /\ args[p].qset \in Nat
  BY CountsAssumption DEF TypeOK
<1>2. QED BY <1>1, WhereInside DEF At, itemsize

\* The list when the array is there and the quantum is to be allocated.
Arrayed(p) == WithArray(Followed(At(p).item), At(p), args[p].qset)

(* The lists a write has allocated, whole or as far as it got. *)
LEMMA AllocatedList ==
  ASSUME TypeOK, NEW p \in Procs, itemsize(p) # 0
  PROVE  /\ \A n \in Nat : Followed(n) \in Lists
         /\ Arrayed(p) \in Lists /\ Allocated(p) \in Lists
         /\ At(p).item \in DOMAIN Allocated(p)
         /\ Sized(data, args[p].quantum, args[p].qset) =>
              /\ \A n \in Nat : Sized(Followed(n), args[p].quantum, args[p].qset)
              /\ Sized(Arrayed(p), args[p].quantum, args[p].qset)
              /\ Sized(Allocated(p), args[p].quantum, args[p].qset)
<1> DEFINE list  == Followed(At(p).item)
           array == WithArray(list, At(p), args[p].qset)
           q == args[p].quantum
           s == args[p].qset
<1>1. At(p).item \in Nat \ {0} /\ q \in Nat /\ s \in Nat
  BY AtInside
<1>2. data \in Lists
  BY DEF TypeOK, Lists
<1>3. \A n \in Nat : Followed(n) \in Lists /\ (Sized(data, q, s) => Sized(Followed(n), q, s))
  BY <1>2, FollowedList
<1>4. list \in Lists /\ At(p).item \in DOMAIN list
  <2>1. list \in Lists /\ At(p).item <= Len(list)
    BY <1>1, <1>2, FollowedList
  <2> HIDE DEF list
  <2>2. QED BY <1>1, <2>1 DEF Lists
<1>5. /\ array \in Lists /\ Len(array) = Len(list)
      /\ Sized(list, q, s) => Sized(array, q, s)
  <2> HIDE DEF list
  <2> QED BY <1>1, <1>4, ArrayList
<1>6. At(p).item \in DOMAIN array
  BY <1>4, <1>5 DEF Lists
<1>7. /\ WithQuantum(array, At(p), q) \in Lists
      /\ Len(WithQuantum(array, At(p), q)) = Len(array)
      /\ Sized(array, q, s) => Sized(WithQuantum(array, At(p), q), q, s)
  <2> HIDE DEF array
  <2> QED BY <1>1, <1>5, <1>6, QuantumList
<1>8. Allocated(p) = WithQuantum(array, At(p), q)
  BY DEF Allocated
<1>9. At(p).item \in DOMAIN Allocated(p)
  <2> HIDE DEF array
  <2> QED BY <1>5, <1>6, <1>7, <1>8 DEF Lists
<1>10. QED
  <2>1. Arrayed(p) = array
    BY DEF Arrayed
  <2>2. Sized(data, q, s) => Sized(list, q, s)
    BY <1>1, <1>3
  <2> HIDE DEF array, list
  <2>3. QED BY <1>3, <1>5, <1>7, <1>8, <1>9, <2>1, <2>2

(* What a write may ask for fits into the file and into the quantum. *)
LEMMA WritableRange ==
  ASSUME TypeOK, NEW p \in Procs, itemsize(p) # 0, NEW count \in Writable(p)
  PROVE  /\ count \in Nat \ {0} /\ f_pos[p] + count \in 0 .. MaxPos
         /\ At(p).q + count <= args[p].quantum
<1>1. PICK n \in Counts : count = InQuantum(p, Min2(n, MaxPos - f_pos[p])) /\ count # 0
  BY DEF Writable
<1>2. f_pos[p] \in 0 .. MaxPos /\ n \in Nat /\ MaxPos \in Nat
  BY CountsAssumption DEF TypeOK
<1>3. QED BY <1>1, <1>2, AtInside DEF InQuantum, Min2

(* What a read returns lies in the file and in the quantum. *)
LEMMA ReadableRange ==
  ASSUME TypeOK, NEW p \in Procs, itemsize(p) # 0, f_pos[p] < size, NEW n \in Counts
  PROVE  /\ Readable(p, n) \in Nat \ {0} /\ f_pos[p] + Readable(p, n) \in 0 .. size
         /\ At(p).q + Readable(p, n) <= args[p].quantum
<1>1. f_pos[p] \in 0 .. MaxPos /\ n \in Nat \ {0} /\ size \in 0 .. MaxPos /\ MaxPos \in Nat
  BY CountsAssumption DEF TypeOK
<1>2. QED BY <1>1, AtInside DEF Readable, InQuantum, Min2

(* What a write has allocated is there, with room for what it may write. *)
LEMMA AllocatedInside ==
  ASSUME TypeOK, NEW p \in Procs, itemsize(p) # 0,
         Sized(data, args[p].quantum, args[p].qset), NEW count \in Writable(p)
  PROVE  Inside(Allocated(p), At(p), count)
<1> DEFINE at == At(p)
           q  == args[p].quantum
           s  == args[p].qset
           array == Arrayed(p)
           full  == Allocated(p)
<1>1. /\ at.item \in Nat \ {0} /\ at.s \in 1 .. s /\ at.q \in 0 .. q - 1
      /\ q \in Nat \ {0} /\ s \in Nat \ {0}
  BY AtInside
<1>2. /\ array \in Lists /\ full \in Lists /\ at.item \in DOMAIN full
      /\ Sized(array, q, s) /\ Sized(full, q, s)
  BY AllocatedList
<1>3. full = WithQuantum(array, at, q)
  BY DEF Allocated, Arrayed
<1>4. at.item \in DOMAIN array
  BY <1>2, <1>3 DEF WithQuantum
<1>5. array[at.item] # <<>>
  <2> DEFINE list == Followed(at.item)
  <2>1. array = WithArray(list, at, s)
    BY DEF Arrayed
  <2>2. [i \in 1 .. s |-> <<>>] # <<>>
    BY <1>1
  <2> HIDE DEF list, array
  <2>3. QED BY <1>4, <2>1, <2>2 DEF WithArray
<1>6. Len(array[at.item]) = s /\ array[at.item] \in Seq(Seq(Bytes))
  BY <1>2, <1>4, <1>5 DEF Sized, Lists
<1>7. at.s \in DOMAIN array[at.item]
  BY <1>1, <1>6
<1>8. full[at.item][at.s] # <<>> /\ Len(full[at.item]) = s /\ full[at.item] # <<>>
  <2>1. CASE array[at.item][at.s] # <<>>
    <3>1. full = array
      BY <1>3, <2>1 DEF WithQuantum
    <3>2. QED BY <1>5, <1>6, <2>1, <3>1
  <2>2. CASE array[at.item][at.s] = <<>>
    <3> DEFINE new == [i \in 1 .. q |-> Junk]
    <3>1. full = [array EXCEPT ![at.item][at.s] = new]
      BY <1>3, <1>7, <2>2 DEF WithQuantum
    <3>2. new # <<>>
      BY <1>1
    <3> HIDE DEF new, full, array, at
    <3>3. full[at.item] = [array[at.item] EXCEPT ![at.s] = new]
      BY <1>4, <3>1
    <3>4. QED BY <1>5, <1>6, <1>7, <3>2, <3>3
  <2>3. QED BY <2>1, <2>2
<1>9. Len(full[at.item][at.s]) = q
  <2>1. at.s \in DOMAIN full[at.item]
    BY <1>1, <1>2, <1>8 DEF Lists
  <2> HIDE DEF full, at
  <2>2. QED BY <1>2, <1>8, <2>1 DEF Sized
<1>10. at.q + count <= q
  BY WritableRange
<1>11. QED
  BY <1>1, <1>8, <1>9, <1>10 DEF Inside

-----------------------------------------------------------------------------
(* What each step does to the memory *)

(* A read or write that gets somewhere leaves a list of arrays of quanta, of *)
(* the sizes it was called with if the list had them before.                 *)
LEMMA DataStep ==
  ASSUME TypeOK, NEW p \in Procs,
         ReadNothing(p) \/ WriteNoMem(p) \/ WriteCopy(p) \/ WriteFault(p)
  PROVE  /\ data' \in Lists
         /\ Sized(data, args[p].quantum, args[p].qset)
              => Sized(data', args[p].quantum, args[p].qset)
<1>0. data \in Lists
  BY DEF TypeOK, Lists
<1>1. CASE ReadNothing(p)
  <2>1. CASE UNCHANGED data
    BY <1>0, <2>1
  <2>2. CASE ~UNCHANGED data
    <3>1. itemsize(p) # 0 /\ \E n \in Int : n >= 0 /\ data' = Followed(n)
      BY <1>0, <1>1, <2>2, AtInside DEF ReadNothing, Lists
    <3>2. QED BY <1>0, <3>1, FollowedList
  <2>3. QED BY <2>1, <2>2
<1>2. CASE WriteNoMem(p)
  <2>1. itemsize(p) # 0
    BY <1>2 DEF WriteNoMem
  <2>2. (\E n \in Nat : data' = Followed(n)) \/ data' = Arrayed(p)
    BY <1>0, <1>2, <2>1, AtInside DEF WriteNoMem, Arrayed, Lists
  <2>3. QED BY <2>1, <2>2, AllocatedList
<1>3. ASSUME itemsize(p) # 0, NEW count \in Writable(p),
             NEW bytes \in [1 .. count -> Bytes],
             Inside(Allocated(p), At(p), count),
             data' = Stored(Allocated(p), At(p), bytes)
      PROVE  /\ data' \in Lists
             /\ Sized(data, args[p].quantum, args[p].qset)
                  => Sized(data', args[p].quantum, args[p].qset)
  <2>1. count \in Nat \ {0} /\ bytes \in Seq(Bytes)
    BY <1>3, WritableRange
  <2>2. /\ Allocated(p) \in Lists /\ At(p).item \in DOMAIN Allocated(p)
        /\ Sized(data, args[p].quantum, args[p].qset)
             => Sized(Allocated(p), args[p].quantum, args[p].qset)
    BY <1>3, AllocatedList
  <2>3. Allocated(p)[At(p).item] \in Seq(Seq(Bytes))
    BY <2>2 DEF Lists
  <2>4. At(p).s \in DOMAIN Allocated(p)[At(p).item] /\ At(p).q \in Nat
    BY <1>3, <2>3, AtInside DEF Inside
  <2>5. QED BY <1>3, <2>1, <2>2, <2>4, StoredList
<1>4. CASE WriteCopy(p)
  BY <1>3, <1>4 DEF WriteCopy, Bytes
<1>5. CASE WriteFault(p)
  <2>1. \A count \in Writable(p) : [i \in 1 .. count |-> Junk] \in [1 .. count -> Bytes]
    BY DEF Bytes
  <2>2. QED BY <1>3, <1>5, <2>1 DEF WriteFault
<1>6. QED BY <1>1, <1>2, <1>4, <1>5

-----------------------------------------------------------------------------
(* The invariant *)

\* Between the stores of scull_trim the device has no data.
TrimEmpty == \A p \in Procs : pc[p] \in {"trim_q", "trim_s"} => data = <<>>

IInv == TypeOK /\ LockBalanced /\ TrimEmpty

\* One process takes a step.
DNext(p) ==
  Kernel(p) \/ Open(p) \/ Close(p) \/ LoadQuantum(p) \/ Seek(p) \/ Ioctl(p)

(* The device starts empty, with the default sizes. *)
LEMMA InitIInv == Init => IInv
<1>1. Init => TypeOK
  BY SettingsAssumption, CountsAssumption
     DEF Init, TypeOK, Pcs, Outside, NoArgs
<1>2. QED BY <1>1, ProcsAssumption DEF Init, IInv, LockBalanced, TrimEmpty, Locked

(* Every step goes to a place. *)
LEMMA PlaceStep ==
  ASSUME pc \in [Procs -> Pcs], NEW p \in Procs, DNext(p)
  PROVE  pc' \in [Procs -> Pcs]
<1>1. /\ {"closed", "idle", "t_lock", "trim", "read", "write", "trim_q", "trim_s",
          "r_qset", "w_qset", "r_lock", "w_lock", "out", "oops"} \subseteq Pcs
  BY DEF Pcs, Outside, Locked, InCall
<1>2. ASSUME NEW from, NEW to \in Pcs, Step(p, from, to) PROVE pc' \in [Procs -> Pcs]
  BY <1>2 DEF Step
<1>3. CASE MutexLock(p) \/ LockInterrupted(p) \/ Trim(p) \/ TrimQuantum(p) \/ TrimQset(p)
  BY <1>1, <1>2, <1>3 DEF MutexLock, LockInterrupted, Trim, TrimQuantum, TrimQset
<1>4. CASE LoadQuantum(p) \/ LoadQset(p) \/ Open(p) \/ Close(p) \/ Out(p)
  BY <1>1, <1>2, <1>4 DEF LoadQuantum, LoadQset, Open, Close, Out
<1>5. CASE ReadNothing(p) \/ ReadCopy(p) \/ ReadFault(p)
  BY <1>1, <1>2, <1>5 DEF ReadNothing, ReadCopy, ReadFault
<1>6. CASE WriteNoMem(p) \/ WriteCopy(p) \/ WriteFault(p)
  BY <1>1, <1>2, <1>6 DEF WriteNoMem, WriteCopy, WriteFault
<1>7. CASE Oops(p) \/ Seek(p) \/ Ioctl(p)
  BY <1>1, <1>7 DEF Oops, Seek, Ioctl
<1>8. QED BY <1>3, <1>4, <1>5, <1>6, <1>7 DEF DNext, Kernel

(* Every step keeps the mutex and the places in agreement. *)
LEMMA LockStep ==
  ASSUME IInv, NEW p \in Procs, DNext(p)
  PROVE  LockBalanced'
<1> USE ProcsAssumption DEF LockBalanced
<1>0. pc \in [Procs -> Pcs] /\ LockBalanced
  BY DEF IInv, TypeOK
<1>1. ASSUME NEW from, NEW to, Step(p, from, to), from \notin Locked, to \in Locked,
             mutex = NoProc, mutex' = p
      PROVE  LockBalanced'
  BY <1>0, <1>1 DEF Step
<1>2. ASSUME NEW from, NEW to, Step(p, from, to), from \in Locked, to \notin Locked, Unlock
      PROVE  LockBalanced'
  BY <1>0, <1>2 DEF Step, Unlock
<1>3. ASSUME NEW from, NEW to, Step(p, from, to), from \in Locked <=> to \in Locked,
             UNCHANGED mutex
      PROVE  LockBalanced'
  BY <1>0, <1>3 DEF Step
<1>4. CASE MutexLock(p)
  BY <1>1, <1>4 DEF MutexLock, Locked
<1>5. CASE TrimQset(p) \/ Out(p)
  BY <1>2, <1>5 DEF TrimQset, Out, Locked
<1>6. CASE LockInterrupted(p) \/ Open(p) \/ Close(p) \/ LoadQuantum(p) \/ LoadQset(p)
  BY <1>3, <1>6 DEF LockInterrupted, Open, Close, LoadQuantum, LoadQset, Locked
<1>7. CASE Trim(p) \/ TrimQuantum(p)
  BY <1>3, <1>7 DEF Trim, TrimQuantum, Locked
<1>8. CASE ReadNothing(p) \/ ReadCopy(p) \/ ReadFault(p)
  BY <1>3, <1>8 DEF ReadNothing, ReadCopy, ReadFault, Locked
<1>9. CASE WriteNoMem(p) \/ WriteCopy(p) \/ WriteFault(p)
  BY <1>3, <1>9 DEF WriteNoMem, WriteCopy, WriteFault, Locked
<1>10. CASE Oops(p)
  <2>1. pc[p] \in Locked /\ pc' = [pc EXCEPT ![p] = "oops"] /\ UNCHANGED mutex
    BY <1>10 DEF Oops, Locked
  <2>2. "oops" \in Locked
    BY DEF Locked
  <2>3. QED BY <1>0, <2>1, <2>2
<1>11. CASE Seek(p) \/ Ioctl(p)
  BY <1>0, <1>11 DEF Seek, Ioctl
<1>12. QED BY <1>4, <1>5, <1>6, <1>7, <1>8, <1>9, <1>10, <1>11 DEF DNext, Kernel

(* Only a process that holds the mutex touches the memory, and while a trim *)
(* holds it there is none.                                                  *)
LEMMA TrimStep ==
  ASSUME IInv, NEW p \in Procs, DNext(p)
  PROVE  TrimEmpty'
<1>0. pc \in [Procs -> Pcs] /\ LockBalanced /\ TrimEmpty
  BY DEF IInv, TypeOK
<1>1. ASSUME NEW from, NEW to, Step(p, from, to), to \notin {"trim_q", "trim_s"},
             from \in Locked \/ UNCHANGED data
      PROVE  TrimEmpty'
  BY <1>0, <1>1 DEF Step, TrimEmpty, LockBalanced, Locked
<1>2. CASE MutexLock(p) \/ LockInterrupted(p) \/ Open(p) \/ Close(p) \/ LoadQuantum(p) \/ LoadQset(p)
  BY <1>1, <1>2 DEF MutexLock, LockInterrupted, Open, Close, LoadQuantum, LoadQset, dev
<1>3. CASE ReadNothing(p) \/ ReadCopy(p) \/ ReadFault(p)
  BY <1>1, <1>3 DEF ReadNothing, ReadCopy, ReadFault, Locked
<1>4. CASE WriteNoMem(p) \/ WriteCopy(p) \/ WriteFault(p) \/ Out(p) \/ TrimQset(p)
  BY <1>1, <1>4 DEF WriteNoMem, WriteCopy, WriteFault, Out, TrimQset, Locked
<1>5. CASE Trim(p) \/ TrimQuantum(p)
  BY <1>0, <1>5 DEF Trim, TrimQuantum, Step, TrimEmpty
<1>6. CASE Oops(p)
  BY <1>0, <1>6 DEF Oops, TrimEmpty, dev
<1>7. CASE Seek(p) \/ Ioctl(p)
  BY <1>0, <1>7 DEF Seek, Ioctl, TrimEmpty, dev
<1>8. QED BY <1>2, <1>3, <1>4, <1>5, <1>6, <1>7 DEF DNext, Kernel

(* Every step keeps the types: positions and sizes stay in the file, and what *)
(* is allocated and copied are bytes.                                         *)
LEMMA TypeStep ==
  ASSUME IInv, NEW p \in Procs, DNext(p)
  PROVE  TypeOK'
<1>0. TypeOK /\ pc' \in [Procs -> Pcs]
  <2>1. TypeOK
    BY DEF IInv
  <2>2. QED BY <2>1, PlaceStep DEF TypeOK
<1> USE DEF dev, settings, file
<1> DEFINE Args == [quantum : Nat, qset : Nat]
<1>a. NoArgs \in Args /\ quantum \in Nat /\ qset \in Nat /\ MaxPos \in Nat
  BY <1>0, SettingsAssumption, CountsAssumption DEF NoArgs, TypeOK
<1>b. CASE MutexLock(p) \/ Open(p) \/ Close(p)
  <2>1. f_pos' \in [Procs -> 0 .. MaxPos] /\ mutex' \in Procs \cup {NoProc}
    <3>1. 0 \in 0 .. MaxPos
      BY <1>a
    <3>2. f_pos \in [Procs -> 0 .. MaxPos] /\ (f_pos' = f_pos \/ f_pos' = [f_pos EXCEPT ![p] = 0])
      BY <1>0, <1>b DEF MutexLock, Open, Close, TypeOK
    <3>3. mutex' \in {mutex, p}
      BY <1>b DEF MutexLock, Open, Close
    <3>4. QED BY <1>0, <3>1, <3>2, <3>3 DEF TypeOK
  <2>2. QED BY <1>0, <1>b, <2>1 DEF MutexLock, Open, Close, TypeOK
<1>c. CASE Trim(p) \/ TrimQuantum(p) \/ TrimQset(p)
  <2>1. data' \in Seq(Seq(Seq(Bytes))) /\ size' \in 0 .. MaxPos
    <3>1. 0 \in 0 .. MaxPos /\ <<>> \in Seq(Seq(Seq(Bytes)))
      BY <1>a
    <3>2. (data' = data /\ size' = size) \/ (data' = <<>> /\ size' = 0)
      BY <1>c DEF Trim, TrimQuantum, TrimQset
    <3>3. QED BY <1>0, <3>1, <3>2 DEF TypeOK
  <2>2. mutex' \in Procs \cup {NoProc} /\ quantum' \in Quanta /\ qset' \in Qsets
    BY <1>0, <1>c DEF Trim, TrimQuantum, TrimQset, Unlock, TypeOK
  <2>3. QED BY <1>0, <1>c, <2>1, <2>2 DEF Trim, TrimQuantum, TrimQset, TypeOK
<1>1. CASE LoadQuantum(p) \/ LoadQset(p)
  <2>1. args' \in [Procs -> Args]
    <3>1. args \in [Procs -> Args]
      BY <1>0 DEF TypeOK
    <3>2. CASE LoadQuantum(p)
      BY <1>a, <3>1, <3>2 DEF LoadQuantum
    <3>3. CASE LoadQset(p)
      BY <1>a, <3>1, <3>3 DEF LoadQset
    <3>4. QED BY <1>1, <3>2, <3>3
  <2>2. QED BY <1>0, <1>1, <2>1 DEF LoadQuantum, LoadQset, TypeOK
<1>2. CASE LockInterrupted(p) \/ Out(p)
  <2>1. args' \in [Procs -> Args] /\ ubuf' \in [Procs -> Seq(Bytes \cup {Hole})]
    <3>1. <<>> \in Seq(Bytes \cup {Hole})
      OBVIOUS
    <3>2. /\ args \in [Procs -> Args] /\ ubuf \in [Procs -> Seq(Bytes \cup {Hole})]
          /\ args' = [args EXCEPT ![p] = NoArgs]
          /\ ubuf' = ubuf \/ ubuf' = [ubuf EXCEPT ![p] = <<>>]
      BY <1>0, <1>2 DEF LockInterrupted, Out, TypeOK
    <3>3. QED BY <1>a, <3>1, <3>2
  <2>2. QED BY <1>0, <1>2, <2>1 DEF LockInterrupted, Out, Unlock, TypeOK
<1>3. CASE Oops(p) \/ Seek(p) \/ Ioctl(p) \/ ReadFault(p)
  BY <1>0, <1>3, SettingsAssumption, CountsAssumption
     DEF Oops, Seek, Ioctl, ReadFault, TypeOK
<1>4. CASE ReadNothing(p) \/ WriteNoMem(p) \/ WriteFault(p)
  <2>1. data' \in Lists
    BY <1>0, <1>4, DataStep
  <2>2. ubuf' \in [Procs -> Seq(Bytes \cup {Hole})]
    <3>1. <<Hole>> \in Seq(Bytes \cup {Hole})
      OBVIOUS
    <3>2. QED BY <1>0, <1>4, <3>1 DEF ReadNothing, WriteNoMem, WriteFault, TypeOK
  <2>3. QED BY <1>0, <1>4, <2>1, <2>2 DEF ReadNothing, WriteNoMem, WriteFault, Lists, TypeOK
<1>5. CASE WriteCopy(p)
  <2>1. PICK count \in Writable(p) :
          /\ f_pos' = [f_pos EXCEPT ![p] = f_pos[p] + count]
          /\ size' = IF size < f_pos[p] + count THEN f_pos[p] + count ELSE size
    BY <1>5 DEF WriteCopy
  <2>2. f_pos[p] + count \in 0 .. MaxPos
    BY <1>0, <1>5, <2>1, WritableRange DEF WriteCopy
  <2>3. data' \in Lists
    BY <1>0, <1>5, DataStep
  <2>4. QED BY <1>0, <1>5, <2>1, <2>2, <2>3 DEF WriteCopy, Lists, TypeOK
<1>6. CASE ReadCopy(p)
  <2>0. itemsize(p) # 0 /\ f_pos[p] < size /\ At(p).item \in DOMAIN data
    <3>1. itemsize(p) # 0 /\ f_pos[p] < size /\ At(p).item <= Len(data)
      BY <1>6 DEF ReadCopy
    <3>2. At(p).item \in Nat \ {0}
      BY <1>0, <3>1, AtInside
    <3>3. QED BY <1>0, <3>1, <3>2 DEF TypeOK
  <2>1. PICK n \in Counts :
          /\ Inside(data, At(p), Readable(p, n))
          /\ ubuf' = [ubuf EXCEPT ![p] =
                [i \in 1 .. Readable(p, n) |-> data[At(p).item][At(p).s][At(p).q + i]]]
          /\ f_pos' = [f_pos EXCEPT ![p] = f_pos[p] + Readable(p, n)]
    BY <1>6 DEF ReadCopy
  <2>2. Readable(p, n) \in Nat \ {0} /\ f_pos[p] + Readable(p, n) \in 0 .. MaxPos
    <3>1. Readable(p, n) \in Nat \ {0} /\ f_pos[p] + Readable(p, n) \in 0 .. size
      BY <1>0, <2>0, ReadableRange
    <3>2. size \in 0 .. MaxPos /\ MaxPos \in Nat
      BY <1>0, CountsAssumption DEF TypeOK
    <3>3. QED BY <3>1, <3>2
  <2>3. data[At(p).item] \in Seq(Seq(Bytes))
    BY <1>0, <2>0 DEF TypeOK
  <2>4. At(p).s \in DOMAIN data[At(p).item] /\ At(p).q \in Nat
    <3>1. At(p).s \in Nat \ {0} /\ At(p).q \in Nat
      BY <1>0, <2>0, AtInside
    <3>2. QED BY <2>1, <2>3, <3>1 DEF Inside
  <2>5. data[At(p).item][At(p).s] \in Seq(Bytes)
    BY <2>3, <2>4
  <2>6. \A i \in 1 .. Readable(p, n) : data[At(p).item][At(p).s][At(p).q + i] \in Bytes
    BY <2>1, <2>2, <2>4, <2>5 DEF Inside
  <2>7. [i \in 1 .. Readable(p, n) |-> data[At(p).item][At(p).s][At(p).q + i]]
          \in Seq(Bytes \cup {Hole})
    BY <2>2, <2>6
  <2>8. f_pos' \in [Procs -> 0 .. MaxPos] /\ ubuf' \in [Procs -> Seq(Bytes \cup {Hole})]
    BY <1>0, <2>1, <2>2, <2>7 DEF TypeOK
  <2>9. QED BY <1>0, <1>6, <2>8 DEF ReadCopy, TypeOK
<1>7. QED BY <1>b, <1>c, <1>1, <1>2, <1>3, <1>4, <1>5, <1>6 DEF DNext, Kernel

(* The invariant is inductive. *)
LEMMA Inductive == IInv /\ [Next]_vars => IInv'
<1>1. ASSUME IInv, Next PROVE IInv'
  <2>1. PICK p \in Procs : DNext(p)
    BY <1>1 DEF Next, DNext
  <2>2. QED BY <1>1, <2>1, TypeStep, LockStep, TrimStep DEF IInv
<1>2. ASSUME IInv, UNCHANGED vars PROVE IInv'
  BY <1>2 DEF vars, dev, settings, file, IInv, TypeOK, LockBalanced, TrimEmpty
<1>3. QED BY <1>1, <1>2

(* It holds of every behaviour of the device. *)
THEOREM Invariance == Spec => []IInv
  BY InitIInv, Inductive, PTL DEF Spec

(* Every variable keeps its type: whatever the sizes and whichever allocation *)
(* fails, what scull_read copies are bytes of the device.                     *)
THEOREM TypeCorrect == Spec => []TypeOK
  BY Invariance, PTL DEF IInv

(* dev->mutex is held between the lock and the label out and nowhere else. *)
THEOREM MutexDiscipline == Spec => []LockBalanced
  BY Invariance, PTL DEF IInv

(* A step that mixes sizes is a write with sizes the device has no more. *)
LEMMA MixStep ==
  ASSUME IInv, NEW p \in Procs, DNext(p), CurrentSizes, ~CurrentSizes'
  PROVE  pc[p] = "write" /\ Stale(p)
<1>0. TypeOK /\ TrimEmpty
  BY DEF IInv
<1>1. Sized(data, quantum, qset)
  BY DEF CurrentSizes, Sized
<1>2. ASSUME Sized(data', quantum', qset') PROVE FALSE
  BY <1>2 DEF CurrentSizes, Sized
<1>3. ASSUME UNCHANGED <<data, quantum, qset>> PROVE FALSE
  BY <1>1, <1>2, <1>3
<1>4. data' # <<>>
  BY <1>2 DEF Sized
<1>5. ~(Trim(p) \/ TrimQuantum(p) \/ TrimQset(p))
  BY <1>0, <1>4 DEF Trim, TrimQuantum, TrimQset, Step, TrimEmpty
<1>6. ~ReadNothing(p)
  <2>1. SUFFICES ASSUME ReadNothing(p) PROVE FALSE
    OBVIOUS
  <2>2. UNCHANGED <<quantum, qset>>
    BY <2>1 DEF ReadNothing
  <2>3. CASE UNCHANGED data
    BY <1>3, <2>2, <2>3
  <2>4. CASE ~UNCHANGED data
    <3>1. data \in Lists
      BY <1>0 DEF TypeOK, Lists
    <3>2. itemsize(p) # 0
      BY <2>1, <2>4 DEF ReadNothing
    <3>3. \E n \in Int : n >= 0 /\ data' = Followed(n)
      BY <1>0, <2>1, <2>4, <3>1, <3>2, AtInside DEF ReadNothing, Lists
    <3>4. QED BY <1>1, <1>2, <2>2, <3>1, <3>3, FollowedList
  <2>5. QED BY <2>3, <2>4
<1>7. WriteNoMem(p) \/ WriteCopy(p) \/ WriteFault(p)
  BY <1>3, <1>5, <1>6
     DEF DNext, Kernel, MutexLock, LockInterrupted, Open, Close, LoadQuantum, LoadQset,
         ReadCopy, ReadFault, Out, Oops, Seek, Ioctl, dev
<1>8. pc[p] = "write" /\ UNCHANGED <<quantum, qset>>
  BY <1>7 DEF WriteNoMem, WriteCopy, WriteFault, Step
<1>9. ~Stale(p) => Sized(data', quantum, qset)
  BY <1>0, <1>1, <1>7, DataStep DEF Stale
<1>10. QED BY <1>2, <1>8, <1>9

(* Arrays and quanta of the wrong size come only from a write that loaded the *)
(* sizes before it had the mutex.                                             *)
THEOREM OnlyStaleWritesMixSizes == Spec => OnlyStaleWritesMix
<1>1. IInv /\ [Next]_vars =>
        [CurrentSizes /\ ~CurrentSizes' => \E p \in Procs : pc[p] = "write" /\ Stale(p)]_vars
  BY MixStep DEF Next, DNext
<1>2. QED BY <1>1, Invariance, PTL DEF Spec, OnlyStaleWritesMix

(* A call whose sizes are those of the device and of all its memory does not *)
(* leave it.                                                                 *)
LEMMA OopsStep ==
  ASSUME IInv, NEW p \in Procs, Oops(p), CurrentSizes
  PROVE  pc[p] # "trim" /\ (Stale(p) \/ itemsize(p) = 0)
<1>0. TypeOK
  BY DEF IInv
<1>1. Sized(data, quantum, qset)
  BY DEF CurrentSizes, Sized
<1>2. data \in Lists /\ qset \in Nat
  BY <1>0, SettingsAssumption DEF TypeOK, Lists
<1>3. ~(\E i \in DOMAIN data : data[i] # <<>> /\ qset > Len(data[i]))
  BY <1>1, <1>2 DEF Sized, Lists
<1>4. pc[p] # "trim"
  BY <1>3 DEF Oops
<1>5. SUFFICES ASSUME args[p].quantum = quantum, args[p].qset = qset, itemsize(p) # 0
      PROVE  FALSE
  BY <1>4 DEF Stale
<1>6. CASE pc[p] = "write"
  <2>1. \A count \in Writable(p) : Inside(Allocated(p), At(p), count)
    BY <1>0, <1>1, <1>5, AllocatedInside
  <2>2. QED BY <1>5, <1>6, <2>1 DEF Oops
<1>7. CASE pc[p] = "read"
  <2>1. /\ f_pos[p] < size /\ At(p).item <= Len(data) /\ data[At(p).item] # <<>>
        /\ \/ At(p).s > Len(data[At(p).item])
           \/ /\ data[At(p).item][At(p).s] # <<>>
              /\ \E n \in Counts : ~Inside(data, At(p), Readable(p, n))
    BY <1>5, <1>7 DEF Oops
  <2>2. /\ At(p).item \in Nat \ {0} /\ At(p).s \in 1 .. qset /\ At(p).q \in 0 .. quantum - 1
    BY <1>0, <1>5, AtInside
  <2>3. Len(data[At(p).item]) = qset /\ data[At(p).item] \in Seq(Seq(Bytes))
    BY <1>1, <1>2, <2>1, <2>2 DEF Sized, Lists
  <2>4. At(p).s \in DOMAIN data[At(p).item] /\ At(p).item \in DOMAIN data
    BY <1>2, <2>1, <2>2, <2>3 DEF Lists
  <2>5. PICK n \in Counts :
          data[At(p).item][At(p).s] # <<>> /\ ~Inside(data, At(p), Readable(p, n))
    BY <1>2, <2>1, <2>2, <2>3
  <2>6. Len(data[At(p).item][At(p).s]) = quantum
    BY <1>1, <2>1, <2>4, <2>5 DEF Sized
  <2>7. At(p).q + Readable(p, n) <= quantum
    BY <1>0, <1>5, <2>1, ReadableRange
  <2>8. QED BY <1>2, <2>2, <2>3, <2>5, <2>6, <2>7 DEF Inside
<1>8. QED BY <1>4, <1>6, <1>7 DEF Oops

(* Whatever makes a call divide by zero or leave its memory is a size of      *)
(* zero, sizes loaded before the mutex was taken, or what a write with such   *)
(* sizes has left behind.                                                     *)
THEOREM EveryOopsExplained == Spec => OopsExplained
<1>1. ASSUME IInv, Next, NEW p \in Procs, pc[p] # "oops", pc'[p] = "oops"
      PROVE  ~CurrentSizes \/ (pc[p] # "trim" /\ (Stale(p) \/ itemsize(p) = 0))
  <2>1. PICK q \in Procs : DNext(q)
    BY <1>1 DEF Next, DNext
  <2>2. pc \in [Procs -> Pcs]
    BY <1>1 DEF IInv, TypeOK
  <2>3. Oops(q) /\ q = p
    <3>1. ASSUME NEW from, NEW to, Step(q, from, to), to # "oops" PROVE FALSE
      BY <1>1, <2>2, <3>1 DEF Step
    <3>2. ~(Seek(q) \/ Ioctl(q))
      BY <1>1 DEF Seek, Ioctl
    <3>3. ~(MutexLock(q) \/ LockInterrupted(q) \/ Trim(q) \/ TrimQuantum(q) \/ TrimQset(q))
      BY <3>1 DEF MutexLock, LockInterrupted, Trim, TrimQuantum, TrimQset
    <3>4. ~(LoadQuantum(q) \/ LoadQset(q) \/ Open(q) \/ Close(q) \/ Out(q))
      BY <3>1 DEF LoadQuantum, LoadQset, Open, Close, Out
    <3>5. ~(ReadNothing(q) \/ ReadCopy(q) \/ ReadFault(q))
      BY <3>1 DEF ReadNothing, ReadCopy, ReadFault
    <3>6. ~(WriteNoMem(q) \/ WriteCopy(q) \/ WriteFault(q))
      BY <3>1 DEF WriteNoMem, WriteCopy, WriteFault
    <3>7. Oops(q)
      BY <2>1, <3>2, <3>3, <3>4, <3>5, <3>6 DEF DNext, Kernel
    <3>8. QED BY <1>1, <2>2, <3>7 DEF Oops
  <2>4. QED BY <1>1, <2>3, OopsStep
<1>2. IInv /\ [Next]_vars =>
        [\A p \in Procs : pc[p] # "oops" /\ pc'[p] = "oops" =>
           \/ ~CurrentSizes
           \/ pc[p] # "trim" /\ (Stale(p) \/ itemsize(p) = 0)]_vars
  BY <1>1
<1>3. QED BY <1>2, Invariance, PTL DEF Spec, OopsExplained
=============================================================================
