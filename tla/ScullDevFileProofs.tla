------------------------- MODULE ScullDevFileProofs -------------------------
(***************************************************************************)
(* Theorems about ScullDev: as long as no call works with sizes the device *)
(* has no more, the list of quantum sets denotes one sparse file, so that  *)
(* the device implements ScullFile, and no call leaves its memory.  Three  *)
(* arguments: item, place and offset determine a position, and positions   *)
(* in one quantum follow each other; following and allocating change no    *)
(* byte, but that holes fill up with junk; storing changes only the bytes  *)
(* it was given.  At the end theorems about ScullDriver: the device beside *)
(* the ioctl that changes its settings, and what nobody can do to it who   *)
(* has no privilege.                                                       *)
(***************************************************************************)
EXTENDS ScullDevProofs, ScullDriver

-----------------------------------------------------------------------------
(* Positions *)

(* Quotient and rest are the only ones there are. *)
LEMMA DivUnique ==
  ASSUME NEW a \in Nat, NEW n \in Nat, NEW r \in Nat, r < n
  PROVE  (a * n + r) \div n = a /\ (a * n + r) % n = r
<1> DEFINE x == a * n + r
           d == x \div n
<1>1. a * n \in Nat /\ x \in Nat
  BY SMT
<1>2. x = n * d + (x % n) /\ x % n \in 0 .. n - 1 /\ d \in Nat
  <2> HIDE DEF x
  <2> QED BY <1>1, SMT DEF d
<1>3. n * d = d * n
  BY <1>2, SMT
<1> HIDE DEF d
<1>4. ~(a < d)
  <2> SUFFICES ASSUME a < d PROVE FALSE
    OBVIOUS
  <2>1. (a + 1) * n <= d * n
    BY <1>2, SMT
  <2>2. (a + 1) * n = a * n + n
    BY SMT
  <2> HIDE DEF x
  <2>3. QED BY <1>1, <1>2, <1>3, <2>1, <2>2, SMT DEF x
<1>5. ~(d < a)
  <2> SUFFICES ASSUME d < a PROVE FALSE
    OBVIOUS
  <2>1. (d + 1) * n <= a * n
    BY <1>2, SMT
  <2>2. (d + 1) * n = d * n + n
    BY <1>2, SMT
  <2>3. QED BY <1>1, <1>2, <1>3, <2>1, <2>2, SMT
<1>6. d = a
  BY <1>2, <1>4, <1>5
<1>7. QED BY <1>1, <1>2, <1>3, <1>6 DEF d

(* A position is its place counted in bytes. *)
LEMMA WherePosition ==
  ASSUME NEW k \in Nat, NEW q \in Nat, NEW s \in Nat, q * s # 0
  PROVE  k = (Where(k, q, s).item - 1) * (q * s) + (Where(k, q, s).s - 1) * q + Where(k, q, s).q
<1> DEFINE n == q * s
           r == k % n
<1>1. q > 0 /\ n \in Nat /\ n > 0
  BY SMT
<1>2. k = (k \div n) * n + r /\ r \in Nat /\ k \div n \in Nat
  <2> HIDE DEF n
  <2>1. k = n * (k \div n) + (k % n) /\ k % n \in Nat /\ k \div n \in Nat
    BY <1>1, SMT
  <2>2. n * (k \div n) = (k \div n) * n
    BY <1>1, <2>1, SMT
  <2>3. QED BY <2>1, <2>2
<1>3. r = (r \div q) * q + (r % q) /\ r \div q \in Nat
  <2> HIDE DEF r
  <2>1. r = q * (r \div q) + (r % q) /\ r \div q \in Nat
    BY <1>1, <1>2, SMT
  <2>2. q * (r \div q) = (r \div q) * q
    BY <1>1, <2>1, SMT
  <2>3. QED BY <2>1, <2>2
<1>4. /\ Where(k, q, s).item = k \div n + 1
      /\ Where(k, q, s).s = r \div q + 1
      /\ Where(k, q, s).q = r % q
  BY DEF Where
<1>5. Where(k, q, s).item - 1 = k \div n /\ Where(k, q, s).s - 1 = r \div q
  <2> HIDE DEF r, n
  <2> QED BY <1>2, <1>3, <1>4
<1> HIDE DEF r
<1>6. k = (k \div n) * n + ((r \div q) * q + (r % q))
  BY <1>2, <1>3
<1>7. /\ (k \div n) * n \in Nat /\ (r \div q) * q \in Nat /\ r % q \in Nat
  BY <1>1, <1>2, <1>3, SMT
<1>8. QED
  <2> HIDE DEF n
  <2> DEFINE u == (k \div n) * n
             v == (r \div q) * q
  <2>1. u + (v + (r % q)) = u + v + (r % q)
    <3> HIDE DEF u, v
    <3> QED BY <1>7 DEF u, v
  <2>2. QED BY <1>4, <1>5, <1>6, <2>1 DEF n

(* Who goes on in a quantum stays in it. *)
LEMMA WhereNext ==
  ASSUME NEW k \in Nat, NEW q \in Nat, NEW s \in Nat, q * s # 0,
         NEW i \in Nat, Where(k, q, s).q + i < q
  PROVE  Where(k + i, q, s) = [Where(k, q, s) EXCEPT !.q = @ + i]
<1> DEFINE n == q * s
           at == Where(k, q, s)
           a == at.item - 1
           b == at.s - 1
           c == at.q + i
           r == b * q + c
<1>1. n \in Nat /\ n > 0 /\ a \in Nat /\ b \in Nat /\ b < s /\ c \in Nat /\ c < q /\ at.q \in Nat
  <2>1. at.item \in Nat \ {0} /\ at.s \in 1 .. s /\ at.q \in 0 .. q - 1
    BY WhereInside
  <2>2. n \in Nat /\ n > 0
    BY SMT
  <2>3. at.q + i < q
    OBVIOUS
  <2> HIDE DEF n, at
  <2>4. QED BY <2>1, <2>2, <2>3
<1>2. k = a * n + b * q + at.q
  BY WherePosition
<1> HIDE DEF at, a, b
<1>3. a * n \in Nat /\ b * q \in Nat
  <2> HIDE DEF n
  <2> QED BY <1>1, SMT
<1>4. r \in Nat /\ r < n
  <2>1. (b + 1) * q <= s * q
    BY <1>1, SMT
  <2>2. (b + 1) * q = b * q + q /\ s * q = q * s
    BY <1>1, SMT
  <2>3. r < b * q + q /\ r \in Nat
    BY <1>1, <1>3, SMT
  <2>4. QED BY <1>1, <1>3, <2>1, <2>2, <2>3, SMT
<1>5. k + i = a * n + r
  <2> DEFINE u == a * n
             v == b * q
  <2>1. u \in Nat /\ v \in Nat /\ k = u + v + at.q
    BY <1>2, <1>3
  <2> HIDE DEF u, v
  <2>2. k + i = u + (v + (at.q + i))
    BY <1>1, <2>1
  <2>3. QED BY <2>2 DEF u, v
<1>6. (k + i) \div n = a /\ (k + i) % n = r
  <2> HIDE DEF r, n
  <2>1. (a * n + r) \div n = a /\ (a * n + r) % n = r
    BY <1>1, <1>4, DivUnique
  <2>2. QED BY <1>5, <2>1
<1>7. r \div q = b /\ r % q = c
  <2> HIDE DEF c
  <2> QED BY <1>1, DivUnique
<1>8. Where(k + i, q, s) = [item |-> (k + i) \div n + 1, s |-> r \div q + 1, q |-> r % q]
  <2>1. Where(k + i, q, s) = [item |-> (k + i) \div n + 1, s |-> ((k + i) % n) \div q + 1,
                              q |-> ((k + i) % n) % q]
    BY DEF Where
  <2> HIDE DEF r, n
  <2>2. QED BY <1>6, <2>1
<1>9. at = [item |-> a + 1, s |-> b + 1, q |-> at.q]
  <2>1. at.item = a + 1 /\ at.s = b + 1
    BY <1>1, WhereInside DEF a, b, at
  <2>2. at = [item |-> at.item, s |-> at.s, q |-> at.q]
    BY DEF at, Where
  <2>3. QED BY <2>1, <2>2
<1>10. QED BY <1>6, <1>7, <1>8, <1>9 DEF at

(* Positions in one quantum are as far apart as their offsets. *)
LEMMA WhereApart ==
  ASSUME NEW k \in Nat, NEW j \in Nat, NEW q \in Nat, NEW s \in Nat, q * s # 0,
         Where(k, q, s).item = Where(j, q, s).item, Where(k, q, s).s = Where(j, q, s).s
  PROVE  k - j = Where(k, q, s).q - Where(j, q, s).q
<1> DEFINE u == (Where(k, q, s).item - 1) * (q * s)
           v == (Where(k, q, s).s - 1) * q
<1>1. k = u + v + Where(k, q, s).q /\ j = u + v + Where(j, q, s).q
  <2>1. k = u + v + Where(k, q, s).q
    BY WherePosition
  <2>2. j = (Where(j, q, s).item - 1) * (q * s) + (Where(j, q, s).s - 1) * q + Where(j, q, s).q
    BY WherePosition
  <2>3. QED BY <2>1, <2>2
<1>2. u \in Int /\ v \in Int /\ Where(k, q, s).q \in Int /\ Where(j, q, s).q \in Int
  <2>1. Where(k, q, s).item \in Nat /\ Where(k, q, s).s \in Nat
        /\ Where(k, q, s).q \in Int /\ Where(j, q, s).q \in Int
    BY WhereInside
  <2>2. QED BY <2>1, SMT
<1> HIDE DEF u, v
<1>3. QED BY <1>1, <1>2

-----------------------------------------------------------------------------
(* What a list has at an item, a place and an offset *)

CellOf(list, at) ==
  IF at.item \in DOMAIN list /\ list[at.item] # <<>> /\ list[at.item][at.s] # <<>>
  THEN list[at.item][at.s][at.q + 1] ELSE Hole

\* The place is one of its array, if there is an array.
Placed(list, at) ==
  at.item \in DOMAIN list /\ list[at.item] # <<>> => at.s \in DOMAIN list[at.item]

(* Going to an item appends nothing but empty items. *)
LEMMA FollowedCell ==
  ASSUME data \in Lists, NEW n \in Nat, NEW at
  PROVE  CellOf(Followed(n), at) = CellOf(data, at)
<1> DEFINE m == IF n > Len(data) THEN n ELSE Len(data)
<1>1. m \in Nat /\ Len(data) \in Nat /\ Len(data) <= m /\ DOMAIN data = 1 .. Len(data)
  BY DEF Lists
<1>2. Followed(n) = [i \in 1 .. m |-> IF i <= Len(data) THEN data[i] ELSE <<>>]
  BY DEF Followed
<1> HIDE DEF m
<1>3. \A i : i \in DOMAIN data => i \in DOMAIN Followed(n) /\ Followed(n)[i] = data[i]
  BY <1>1, <1>2
<1>4. \A i : i \in DOMAIN Followed(n) /\ i \notin DOMAIN data => Followed(n)[i] = <<>>
  BY <1>1, <1>2
<1>5. QED BY <1>3, <1>4 DEF CellOf

(* A new array has no quanta yet. *)
LEMMA ArrayCell ==
  ASSUME NEW list \in Lists, NEW w, w.item \in DOMAIN list, NEW s \in Nat,
         NEW at, at.s \in 1 .. s
  PROVE  CellOf(WithArray(list, w, s), at) = CellOf(list, at)
<1> DEFINE new == [i \in 1 .. s |-> <<>>]
<1>1. new[at.s] = <<>>
  OBVIOUS
<1> HIDE DEF new
<1>2. CASE list[w.item] # <<>>
  BY <1>2 DEF WithArray
<1>3. CASE list[w.item] = <<>>
  <2>1. WithArray(list, w, s) = [list EXCEPT ![w.item] = new]
    BY <1>3 DEF WithArray, new
  <2> DEFINE out == [list EXCEPT ![w.item] = new]
  <2>2. DOMAIN out = DOMAIN list
    OBVIOUS
  <2>3. CASE at.item = w.item
    <3>1. out[at.item] = new
      BY <2>3
    <3>2. CellOf(list, at) = Hole
      BY <1>3, <2>3 DEF CellOf
    <3>3. CellOf(out, at) = Hole
      BY <1>1, <3>1 DEF CellOf
    <3>4. QED BY <2>1, <3>2, <3>3
  <2>4. CASE at.item # w.item
    <3>1. at.item \in DOMAIN list => out[at.item] = list[at.item]
      BY <2>4
    <3> HIDE DEF out
    <3>2. CellOf(out, at) = CellOf(list, at)
      BY <2>2, <3>1 DEF CellOf
    <3>3. QED BY <2>1, <3>2 DEF out
  <2>5. QED BY <2>3, <2>4
<1>4. QED BY <1>2, <1>3

(* In a list with one quantum replaced, the cells of the others are the same. *)
LEMMA ReplacedCell ==
  ASSUME NEW list \in Lists, NEW i \in DOMAIN list, NEW j \in DOMAIN list[i],
         NEW new \in Seq(Bytes), NEW at, Placed(list, at)
  PROVE  /\ ~(at.item = i /\ at.s = j)
              => CellOf(Replaced(list, i, j, new), at) = CellOf(list, at)
         /\ at.item = i /\ at.s = j /\ new # <<>>
              => CellOf(Replaced(list, i, j, new), at) = new[at.q + 1]
<1> DEFINE out == Replaced(list, i, j, new)
<1>1. list[i] \in Seq(Seq(Bytes))
  BY DEF Lists
<1>2. DOMAIN out = DOMAIN list /\ out[i] = [list[i] EXCEPT ![j] = new]
      /\ \A k \in DOMAIN list : k # i => out[k] = list[k]
  BY DEF Replaced
<1>3. out[i][j] = new /\ out[i] # <<>> /\ list[i] # <<>>
      /\ \A l \in DOMAIN list[i] : l # j => out[i][l] = list[i][l]
  BY <1>1, <1>2
<1> HIDE DEF out
<1>4. ASSUME ~(at.item = i /\ at.s = j) PROVE CellOf(out, at) = CellOf(list, at)
  BY <1>2, <1>3, <1>4 DEF CellOf, Placed
<1>5. ASSUME at.item = i, at.s = j, new # <<>> PROVE CellOf(out, at) = new[at.q + 1]
  BY <1>2, <1>3, <1>5 DEF CellOf
<1>6. QED BY <1>4, <1>5 DEF out

(* Allocating a quantum fills a hole with junk and changes nothing else. *)
LEMMA QuantumCell ==
  ASSUME NEW list \in Lists, NEW w, w.item \in DOMAIN list, NEW q \in Nat,
         NEW at, Placed(list, at), at.q \in 0 .. q - 1
  PROVE  \/ CellOf(WithQuantum(list, w, q), at) = CellOf(list, at)
         \/ CellOf(list, at) = Hole /\ CellOf(WithQuantum(list, w, q), at) = Junk
<1> DEFINE new == [i \in 1 .. q |-> Junk]
<1>1. new \in Seq(Bytes) /\ new # <<>> /\ new[at.q + 1] = Junk
  BY DEF Bytes
<1> HIDE DEF new
<1>2. CASE WithQuantum(list, w, q) = list
  BY <1>2
<1>3. CASE WithQuantum(list, w, q) # list
  <2>1. /\ w.s \in DOMAIN list[w.item] /\ list[w.item][w.s] = <<>>
        /\ WithQuantum(list, w, q) = Replaced(list, w.item, w.s, new)
    BY <1>3 DEF WithQuantum, Replaced, new
  <2>2. CASE at.item = w.item /\ at.s = w.s
    <3>1. CellOf(list, at) = Hole
      BY <2>1, <2>2 DEF CellOf
    <3>2. CellOf(Replaced(list, w.item, w.s, new), at) = new[at.q + 1]
      BY <1>1, <2>1, <2>2, ReplacedCell
    <3>3. QED BY <1>1, <2>1, <3>1, <3>2
  <2>3. CASE ~(at.item = w.item /\ at.s = w.s)
    BY <1>1, <2>1, <2>3, ReplacedCell
  <2>4. QED BY <2>2, <2>3
<1>4. QED BY <1>2, <1>3

\* The bytes fit into a quantum of the list.
CanStore(list, w, bytes) ==
  /\ list \in Lists /\ w.item \in DOMAIN list /\ w.s \in DOMAIN list[w.item] /\ w.q \in Nat
  /\ bytes \in Seq(Bytes) /\ bytes # <<>>
  /\ w.q + Len(bytes) <= Len(list[w.item][w.s])

\* It is one of the cells they go to.
Hit(w, bytes, at) ==
  at.item = w.item /\ at.s = w.s /\ at.q \in w.q .. w.q + Len(bytes) - 1

\* It is a cell of the list, if it is in the quantum they go to.
InQuantumOf(list, w, at) ==
  at.item = w.item /\ at.s = w.s => at.q \in 0 .. Len(list[w.item][w.s]) - 1

StoredIn(list, w, bytes, at) ==
  /\ Hit(w, bytes, at) => CellOf(Stored(list, w, bytes), at) = bytes[at.q - w.q + 1]
  /\ ~Hit(w, bytes, at) => CellOf(Stored(list, w, bytes), at) = CellOf(list, at)

(* Storing bytes changes the cells they go to and no others. *)
LEMMA StoredCell ==
  ASSUME NEW list, NEW w, NEW bytes, CanStore(list, w, bytes),
         NEW at, Placed(list, at), InQuantumOf(list, w, at)
  PROVE  StoredIn(list, w, bytes, at)
<1> USE DEF CanStore, Hit, InQuantumOf, StoredIn
<1> DEFINE old == list[w.item][w.s]
           new == [i \in DOMAIN old |->
                     IF i \in w.q + 1 .. w.q + Len(bytes) THEN bytes[i - w.q] ELSE old[i]]
<1>1. old \in Seq(Bytes) /\ DOMAIN old = 1 .. Len(old) /\ Len(old) \in Nat
  BY DEF Lists
<1>2. Len(bytes) \in Nat \ {0} /\ old # <<>>
  <2>1. Len(bytes) \in Nat \ {0}
    OBVIOUS
  <2>2. w.q + Len(bytes) <= Len(old)
    OBVIOUS
  <2> HIDE DEF old
  <2>3. QED BY <1>1, <2>1, <2>2
<1>3. Stored(list, w, bytes) = Replaced(list, w.item, w.s, new)
  BY DEF Stored, Replaced
<1>4. new \in Seq(Bytes) /\ new # <<>>
  <2> HIDE DEF old
  <2>1. \A i \in 1 .. Len(old) :
          (IF i \in w.q + 1 .. w.q + Len(bytes) THEN bytes[i - w.q] ELSE old[i]) \in Bytes
    <3> SUFFICES ASSUME NEW i \in 1 .. Len(old), i \in w.q + 1 .. w.q + Len(bytes)
        PROVE  bytes[i - w.q] \in Bytes
      BY <1>1
    <3>1. i - w.q \in 1 .. Len(bytes)
      OBVIOUS
    <3>2. QED BY <3>1
  <2>2. QED BY <1>1, <1>2, <2>1
<1>5. CASE ~(at.item = w.item /\ at.s = w.s)
  <2> HIDE DEF new
  <2>1. CellOf(Replaced(list, w.item, w.s, new), at) = CellOf(list, at)
    BY <1>4, <1>5, ReplacedCell
  <2>2. QED BY <1>3, <1>5, <2>1
<1>6. CASE at.item = w.item /\ at.s = w.s
  <2>1. CellOf(Replaced(list, w.item, w.s, new), at) = new[at.q + 1]
    <3> HIDE DEF new
    <3>1. QED BY <1>4, <1>6, ReplacedCell
  <2>2. CellOf(list, at) = old[at.q + 1]
    <3>1. list[w.item] \in Seq(Seq(Bytes))
      BY DEF Lists
    <3>2. list[w.item] # <<>>
      BY <3>1
    <3>3. QED BY <1>2, <1>6, <3>2 DEF CellOf
  <2>3. at.q \in 0 .. Len(old) - 1
    BY <1>6
  <2> HIDE DEF old
  <2>4. new[at.q + 1] = IF at.q + 1 \in w.q + 1 .. w.q + Len(bytes)
                        THEN bytes[at.q + 1 - w.q] ELSE old[at.q + 1]
    BY <1>1, <2>3
  <2>5. /\ at.q + 1 \in w.q + 1 .. w.q + Len(bytes) <=> at.q \in w.q .. w.q + Len(bytes) - 1
        /\ at.q + 1 - w.q = at.q - w.q + 1
    <3>1. \A x, y, n \in Int : /\ x + 1 \in y + 1 .. y + n <=> x \in y .. y + n - 1
                               /\ x + 1 - y = x - y + 1
      OBVIOUS
    <3>2. at.q \in Int /\ w.q \in Int /\ Len(bytes) \in Int
      BY <1>1, <1>2, <2>3
    <3> HIDE DEF new
    <3>3. QED BY <3>1, <3>2
  <2> HIDE DEF new
  <2>6. QED BY <1>3, <1>6, <2>1, <2>2, <2>4, <2>5
<1>7. QED BY <1>5, <1>6

-----------------------------------------------------------------------------
(* What the steps do to the contents of the device *)

\* No call works with sizes the device has no more.
NobodyStale == \A p \in Procs : pc[p] \in {"read", "write"} => ~Stale(p)

\* What the refinement needs of a state: all memory has the sizes of the device, there is
\* none if one of them is zero, and only who opens write-only trims.
FileInv ==
  /\ CurrentSizes
  /\ data = <<>> \/ quantum * qset # 0
  /\ \A p \in Procs : pc[p] \in {"t_lock", "trim"} => p \in WriteOnly

Refined == IInv /\ FileInv /\ NobodyStale

LEMMA ContentsCells ==
  Contents = [k \in 0 .. MaxPos - 1 |-> CellOf(data, Where(k, quantum, qset))]
BY DEF Contents, ByteAt, CellOf

LEMMA ContentsCellsNext ==
  Contents' = [k \in 0 .. MaxPos - 1 |-> CellOf(data', Where(k, quantum', qset'))]
BY DEF Contents, ByteAt, CellOf

\* Where there is no memory there are only holes, whatever the sizes.
LEMMA EmptyContents ==
  /\ data = <<>> => Contents = [k \in 0 .. MaxPos - 1 |-> Hole]
  /\ data' = <<>> => Contents' = [k \in 0 .. MaxPos - 1 |-> Hole]
<1>1. \A at : CellOf(<<>>, at) = Hole
  BY DEF CellOf
<1>2. QED BY <1>1, ContentsCells, ContentsCellsNext

LEMMA SameContents ==
  ASSUME UNCHANGED <<data, quantum, qset>>
  PROVE  Contents' = Contents
BY ContentsCells, ContentsCellsNext

\* A process at work has the sizes of the device, and they are not zero.
LEMMA AtWork ==
  ASSUME Refined, NEW p \in Procs, pc[p] \in {"read", "write"}, itemsize(p) # 0
  PROVE  /\ args[p].quantum = quantum /\ args[p].qset = qset
         /\ quantum \in Nat /\ qset \in Nat /\ quantum * qset # 0
         /\ At(p) = Where(f_pos[p], quantum, qset)
         /\ f_pos[p] \in Nat /\ f_pos[p] \in 0 .. MaxPos /\ MaxPos \in Nat
         /\ data \in Lists /\ Sized(data, quantum, qset)
BY SettingsAssumption, CountsAssumption
   DEF Refined, NobodyStale, Stale, itemsize, At, IInv, TypeOK, Lists, FileInv, CurrentSizes, Sized

\* Where a position is, if the sizes are not zero.
LEMMA PositionPlaced ==
  ASSUME NEW k \in Nat, NEW q \in Nat, NEW s \in Nat, q * s # 0,
         NEW list \in Lists, Sized(list, q, s)
  PROVE  /\ Where(k, q, s).item \in Nat \ {0}
         /\ Where(k, q, s).s \in 1 .. s
         /\ Where(k, q, s).q \in 0 .. q - 1
         /\ Placed(list, Where(k, q, s))
<1> DEFINE at == Where(k, q, s)
<1>1. at.item \in Nat \ {0} /\ at.s \in 1 .. s /\ at.q \in 0 .. q - 1
  BY WhereInside
<1> HIDE DEF at
<1>2. Placed(list, at)
  BY <1>1 DEF Placed, Sized, Lists
<1>3. QED BY <1>1, <1>2 DEF at

LEMMA FollowedContents ==
  ASSUME Refined, NEW n \in Nat, data' = Followed(n), UNCHANGED <<quantum, qset>>
  PROVE  Contents' = Contents
<1>1. data \in Lists
  BY DEF Refined, IInv, TypeOK, Lists
<1>2. \A at : CellOf(data', at) = CellOf(data, at)
  BY <1>1, FollowedCell
<1>3. QED BY <1>2, ContentsCells, ContentsCellsNext

\* What a write has allocated before the quantum changes no byte, and with the quantum
\* no byte but those of a hole.
LEMMA AllocatedCells ==
  ASSUME Refined, NEW p \in Procs, pc[p] \in {"read", "write"}, itemsize(p) # 0, NEW k \in Nat
  PROVE  LET at == Where(k, quantum, qset) IN
         /\ CellOf(Arrayed(p), at) = CellOf(data, at)
         /\ \/ CellOf(Allocated(p), at) = CellOf(data, at)
            \/ CellOf(data, at) = Hole /\ CellOf(Allocated(p), at) = Junk
<1> DEFINE at == Where(k, quantum, qset)
           w  == At(p)
           list == Followed(w.item)
           array == Arrayed(p)
<1>1. /\ args[p].quantum = quantum /\ args[p].qset = qset
      /\ quantum \in Nat /\ qset \in Nat /\ quantum * qset # 0
      /\ data \in Lists /\ Sized(data, quantum, qset) /\ TypeOK
  BY AtWork DEF Refined, IInv
<1>2. w.item \in Nat \ {0}
  BY <1>1, AtInside
<1>3. array \in Lists /\ Sized(array, quantum, qset) /\ w.item \in DOMAIN Allocated(p)
  BY <1>1, AllocatedList
<1>4. array = WithArray(list, w, qset) /\ Allocated(p) = WithQuantum(array, w, quantum)
  BY <1>1 DEF Arrayed, Allocated
<1>5. w.item \in DOMAIN array
  BY <1>3, <1>4 DEF WithQuantum
<1>6. /\ at.item \in Nat \ {0} /\ at.s \in 1 .. qset /\ at.q \in 0 .. quantum - 1
      /\ Placed(array, at)
  BY <1>1, <1>3, PositionPlaced
<1> HIDE DEF at, w
<1>7. CellOf(list, at) = CellOf(data, at) /\ list \in Lists /\ w.item \in DOMAIN list
  <2>1. list \in Lists /\ w.item <= Len(list)
    BY <1>1, <1>2, FollowedList
  <2>2. CellOf(list, at) = CellOf(data, at)
    BY <1>1, <1>2, FollowedCell
  <2> HIDE DEF list
  <2>3. QED BY <1>2, <2>1, <2>2 DEF Lists
<1>8. CellOf(array, at) = CellOf(list, at)
  <2> HIDE DEF list
  <2>1. CellOf(WithArray(list, w, qset), at) = CellOf(list, at)
    BY <1>1, <1>6, <1>7, ArrayCell
  <2>2. QED BY <1>4, <2>1
<1>9. \/ CellOf(Allocated(p), at) = CellOf(array, at)
      \/ CellOf(array, at) = Hole /\ CellOf(Allocated(p), at) = Junk
  <2> HIDE DEF array
  <2>1. \/ CellOf(WithQuantum(array, w, quantum), at) = CellOf(array, at)
        \/ CellOf(array, at) = Hole /\ CellOf(WithQuantum(array, w, quantum), at) = Junk
    BY <1>1, <1>3, <1>5, <1>6, QuantumCell
  <2>2. QED BY <1>4, <2>1
<1>10. QED BY <1>7, <1>8, <1>9 DEF at

\* The positions of a run that stays in the quantum are those at its item and place with
\* the offsets of the run.
LEMMA RunPlaced ==
  ASSUME NEW f \in Nat, NEW q \in Nat, NEW s \in Nat, q * s # 0,
         NEW n \in Nat, Where(f, q, s).q + n <= q, NEW k \in Nat
  PROVE  k \in f .. f + n - 1 <=>
           /\ Where(k, q, s).item = Where(f, q, s).item /\ Where(k, q, s).s = Where(f, q, s).s
           /\ Where(k, q, s).q \in Where(f, q, s).q .. Where(f, q, s).q + n - 1
<1> DEFINE at == Where(k, q, s)
           w  == Where(f, q, s)
<1>1. at.q \in Nat /\ w.q \in Nat
  BY WhereInside
<1>2. ASSUME k \in f .. f + n - 1
      PROVE  at.item = w.item /\ at.s = w.s /\ at.q = w.q + (k - f)
  <2>1. k - f \in Nat /\ k - f < n /\ f + (k - f) = k
    BY <1>2
  <2>2. w.q + (k - f) < q
    <3>1. w.q + n <= q
      OBVIOUS
    <3> HIDE DEF w
    <3>2. QED BY <1>1, <2>1, <3>1
  <2>3. Where(f + (k - f), q, s) = [w EXCEPT !.q = @ + (k - f)]
    BY <2>1, <2>2, WhereNext
  <2>4. w = [item |-> w.item, s |-> w.s, q |-> w.q]
    BY DEF Where
  <2> HIDE DEF w
  <2>5. at = [item |-> w.item, s |-> w.s, q |-> w.q + (k - f)]
    BY <2>1, <2>3, <2>4
  <2>6. QED BY <2>5
<1>3. ASSUME at.item = w.item, at.s = w.s PROVE k - f = at.q - w.q
  BY <1>3, WhereApart
<1> HIDE DEF at, w
<1>4. k \in f .. f + n - 1 => at.item = w.item /\ at.s = w.s /\ at.q \in w.q .. w.q + n - 1
  BY <1>1, <1>2
<1>5. at.item = w.item /\ at.s = w.s /\ at.q \in w.q .. w.q + n - 1 => k \in f .. f + n - 1
  BY <1>1, <1>3
<1>6. QED BY <1>4, <1>5 DEF at, w

\* A write puts its bytes at its positions, and elsewhere holes may fill up with junk.
LEMMA StoredContents ==
  ASSUME Refined, NEW p \in Procs, pc[p] = "write", itemsize(p) # 0,
         NEW count \in Writable(p), NEW bytes \in [1 .. count -> Bytes],
         Inside(Allocated(p), At(p), count),
         data' = Stored(Allocated(p), At(p), bytes), UNCHANGED <<quantum, qset>>
  PROVE  /\ count \in 1 .. (MaxPos - f_pos[p])
         /\ DOMAIN Contents' = DOMAIN Contents
         /\ \A k \in File!Run(p, count) : Contents'[k] = bytes[k - f_pos[p] + 1]
         /\ \A k \in DOMAIN Contents \ File!Run(p, count) :
              Contents'[k] = Contents[k] \/ (Contents[k] = Hole /\ Contents'[k] = Junk)
<1> DEFINE w == At(p)
           full == Allocated(p)
           f == f_pos[p]
<1>1. /\ args[p].quantum = quantum /\ args[p].qset = qset
      /\ quantum \in Nat /\ qset \in Nat /\ quantum * qset # 0
      /\ w = Where(f, quantum, qset) /\ f \in Nat /\ f \in 0 .. MaxPos /\ MaxPos \in Nat
      /\ data \in Lists /\ Sized(data, quantum, qset) /\ TypeOK
  BY AtWork DEF Refined, IInv
<1>2. count \in Nat \ {0} /\ f + count \in 0 .. MaxPos /\ w.q + count <= quantum
  BY <1>1, WritableRange
<1>3. full \in Lists /\ Sized(full, quantum, qset) /\ w.item \in DOMAIN full
  BY <1>1, AllocatedList
<1>4. w.item \in Nat \ {0} /\ w.s \in 1 .. qset /\ w.q \in 0 .. quantum - 1
  BY <1>1, WhereInside
<1>5. bytes \in Seq(Bytes) /\ Len(bytes) = count /\ bytes # <<>>
  BY <1>2
<1>6. /\ w.s \in DOMAIN full[w.item] /\ full[w.item][w.s] \in Seq(Bytes)
      /\ w.q + Len(bytes) <= Len(full[w.item][w.s])
      /\ Len(full[w.item][w.s]) = quantum
  <2> HIDE DEF full, w
  <2>1. full[w.item] \in Seq(Seq(Bytes)) /\ Inside(full, w, count)
    BY <1>3 DEF Lists, full, w
  <2>2. w.s \in DOMAIN full[w.item] /\ w.q + count <= Len(full[w.item][w.s])
    BY <1>4, <2>1 DEF Inside
  <2>3. full[w.item] # <<>> /\ full[w.item][w.s] \in Seq(Bytes)
    BY <2>1, <2>2
  <2>4. full[w.item][w.s] # <<>>
    BY <1>2, <1>4, <2>2, <2>3
  <2>5. Len(full[w.item][w.s]) = quantum
    BY <1>3, <2>2, <2>3, <2>4 DEF Sized
  <2>6. QED BY <1>5, <2>2, <2>3, <2>5
<1>7. \A k \in Nat : LET at == Where(k, quantum, qset) IN
        CellOf(data', at) = IF k \in f .. f + count - 1 THEN bytes[k - f + 1] ELSE CellOf(full, at)
  <2> SUFFICES ASSUME NEW k \in Nat
      PROVE  CellOf(data', Where(k, quantum, qset)) =
               IF k \in f .. f + count - 1 THEN bytes[k - f + 1]
               ELSE CellOf(full, Where(k, quantum, qset))
    OBVIOUS
  <2> DEFINE at == Where(k, quantum, qset)
  <2>1. Placed(full, at) /\ at.q \in 0 .. quantum - 1
    BY <1>1, <1>3, PositionPlaced
  <2>2. k \in f .. f + count - 1 <=>
          at.item = w.item /\ at.s = w.s /\ at.q \in w.q .. w.q + count - 1
    <3>1. /\ w = Where(f, quantum, qset) /\ w.q + count <= quantum
          /\ f \in Nat /\ quantum \in Nat /\ qset \in Nat /\ quantum * qset # 0
          /\ count \in Nat
      BY <1>1, <1>2
    <3>2. Where(f, quantum, qset).q + count <= quantum
      BY ONLY <3>1
    <3> HIDE DEF f, w, at
    <3>3. k \in f .. f + count - 1 <=>
            /\ at.item = Where(f, quantum, qset).item /\ at.s = Where(f, quantum, qset).s
            /\ at.q \in Where(f, quantum, qset).q .. Where(f, quantum, qset).q + count - 1
      BY <3>1, <3>2, RunPlaced, Zenon DEF at
    <3>4. QED BY ONLY <3>1, <3>3
  <2>3. at.item = w.item /\ at.s = w.s => k - f = at.q - w.q
    <3>1. /\ w = Where(f, quantum, qset) /\ quantum * qset # 0
          /\ f \in Nat /\ quantum \in Nat /\ qset \in Nat
      BY <1>1
    <3> HIDE DEF f, w, at
    <3>2. ASSUME Where(k, quantum, qset).item = Where(f, quantum, qset).item,
                 Where(k, quantum, qset).s = Where(f, quantum, qset).s
          PROVE  k - f = Where(k, quantum, qset).q - Where(f, quantum, qset).q
      BY <3>1, <3>2, WhereApart
    <3>3. QED BY ONLY <3>1, <3>2 DEF at
  <2> HIDE DEF at, full, w
  <2>4. StoredIn(full, w, bytes, at)
    <3>1. CanStore(full, w, bytes)
      BY <1>3, <1>4, <1>5, <1>6 DEF CanStore
    <3>2. InQuantumOf(full, w, at)
      BY <1>6, <2>1 DEF InQuantumOf
    <3>3. QED BY <2>1, <3>1, <3>2, StoredCell
  <2>5. data' = Stored(full, w, bytes)
    BY DEF full, w
  <2> HIDE DEF f
  <2>6. QED BY <1>5, <2>2, <2>3, <2>4, <2>5 DEF at, Hit, StoredIn
<1>8. /\ DOMAIN Contents = 0 .. MaxPos - 1 /\ DOMAIN Contents' = 0 .. MaxPos - 1
      /\ \A k \in 0 .. MaxPos - 1 :
           /\ Contents[k] = CellOf(data, Where(k, quantum, qset))
           /\ Contents'[k] = CellOf(data', Where(k, quantum, qset))
  BY ContentsCells, ContentsCellsNext
<1>9. File!Run(p, count) = f .. f + count - 1
  BY DEF File!Run
<1> HIDE DEF f, full
<1>10. \A k \in f .. f + count - 1 : k \in Nat /\ k \in 0 .. MaxPos - 1
  BY <1>1, <1>2
<1>11. \A k \in 0 .. MaxPos - 1 : k \in Nat
  BY <1>1
<1>12. \A k \in f .. f + count - 1 : Contents'[k] = bytes[k - f + 1]
  BY <1>7, <1>8, <1>10
<1>13. ASSUME NEW k \in 0 .. MaxPos - 1, k \notin f .. f + count - 1
       PROVE  Contents'[k] = Contents[k] \/ (Contents[k] = Hole /\ Contents'[k] = Junk)
  <2>1. k \in Nat
    BY <1>11
  <2>2. Contents'[k] = CellOf(full, Where(k, quantum, qset))
    BY <1>7, <1>8, <1>13, <2>1
  <2>3. QED BY <1>8, <2>1, <2>2, AllocatedCells DEF full
<1>14. count \in 1 .. (MaxPos - f)
  BY <1>1, <1>2
<1>15. QED BY <1>8, <1>9, <1>12, <1>13, <1>14 DEF f

-----------------------------------------------------------------------------
(* Every step is one of the file, or shows nothing *)

LEMMA Silent ==
  ASSUME Contents' = Contents, UNCHANGED <<size, f_pos, ubuf>>
  PROVE  UNCHANGED File!fileVars
BY DEF File!fileVars

\* Outside of the mutex, and where a call gives up, the memory stays as it is.
LEMMA QuietShown ==
  ASSUME NEW p \in Procs,
         \/ MutexLock(p) \/ LockInterrupted(p) \/ Open(p) \/ LoadQuantum(p) \/ LoadQset(p)
         \/ ReadFault(p) \/ Oops(p) \/ Ioctl(p)
  PROVE  UNCHANGED File!fileVars
<1>1. UNCHANGED <<data, quantum, qset, size, f_pos, ubuf>>
  BY DEF MutexLock, LockInterrupted, Open, LoadQuantum, LoadQset, ReadFault, Oops, Ioctl, dev, file
<1>2. QED BY <1>1, SameContents, Silent

LEMMA SeekShown ==
  ASSUME NEW p \in Procs, Seek(p) \/ Close(p) \/ Out(p)
  PROVE  File!Next
<1>1. Contents' = Contents /\ size' = size
  BY SameContents DEF Seek, Close, Out, dev
<1>2. CASE Seek(p)
  BY <1>1, <1>2, CountsAssumption DEF Seek, File!Seek, File!Next
<1>3. CASE Close(p)
  BY <1>1, <1>3 DEF Close, File!Close, File!Next
<1>4. CASE Out(p)
  BY <1>1, <1>4 DEF Out, File!Done, File!Next
<1>5. QED BY <1>2, <1>3, <1>4

\* A trim empties the file, whatever sizes it installs afterwards.
LEMMA TrimShown ==
  ASSUME Refined, NEW p \in Procs, Trim(p) \/ TrimQuantum(p) \/ TrimQset(p)
  PROVE  File!Next \/ UNCHANGED File!fileVars
<1>1. CASE Trim(p)
  <2>1. data' = <<>> /\ size' = 0 /\ UNCHANGED <<f_pos, ubuf>> /\ pc[p] = "trim"
    BY <1>1 DEF Trim, Step, file
  <2>2. WriteOnly # {}
    BY <2>1 DEF Refined, FileInv
  <2>3. QED BY <2>1, <2>2, EmptyContents DEF File!Truncate, File!Next
<1>2. CASE TrimQuantum(p) \/ TrimQset(p)
  <2>1. data = <<>> /\ data' = <<>> /\ UNCHANGED <<size, f_pos, ubuf>>
    BY <1>2 DEF TrimQuantum, TrimQset, Step, file, Refined, IInv, TrimEmpty
  <2>2. QED BY <2>1, EmptyContents, Silent
<1>3. QED BY <1>1, <1>2

\* What a read copies is what is in the file from its position on.
LEMMA ReadShown ==
  ASSUME Refined, NEW p \in Procs, ReadCopy(p)
  PROVE  File!Next
<1> DEFINE w == At(p)
           f == f_pos[p]
           cell == data[w.item][w.s]
<1>1. pc[p] = "read" /\ itemsize(p) # 0 /\ f < size /\ w.item <= Len(data)
      /\ UNCHANGED <<data, quantum, qset, size>>
  BY DEF ReadCopy, Step, dev
<1>2. PICK n \in Counts :
        /\ Inside(data, w, Readable(p, n))
        /\ ubuf' = [ubuf EXCEPT ![p] = [i \in 1 .. Readable(p, n) |-> cell[w.q + i]]]
        /\ f_pos' = [f_pos EXCEPT ![p] = @ + Readable(p, n)]
  BY DEF ReadCopy
<1> DEFINE c == Readable(p, n)
<1>3. /\ quantum \in Nat /\ qset \in Nat /\ quantum * qset # 0 /\ args[p].quantum = quantum
      /\ w = Where(f, quantum, qset) /\ f \in Nat /\ MaxPos \in Nat
      /\ data \in Lists /\ size \in 0 .. MaxPos /\ TypeOK
  BY <1>1, AtWork DEF Refined, IInv, TypeOK
<1>4. c \in Nat \ {0} /\ f + c \in 0 .. size /\ w.q + c <= quantum
  BY <1>1, <1>3, ReadableRange
<1>5. w.item \in Nat \ {0} /\ w.s \in Nat \ {0} /\ w.q \in Nat
  BY <1>3, WhereInside
<1> HIDE DEF w, c, f
<1>6. /\ w.item \in DOMAIN data /\ data[w.item] # <<>> /\ cell # <<>>
      /\ \A i \in 1 .. c : cell[w.q + i] \in Bytes
  <2>1. w.item \in DOMAIN data /\ data[w.item] \in Seq(Seq(Bytes))
    BY <1>1, <1>3, <1>5 DEF Lists, w
  <2>2. w.s <= Len(data[w.item]) /\ w.q + c <= Len(cell)
    BY <1>2 DEF Inside, c
  <2>3. w.s \in DOMAIN data[w.item] /\ data[w.item] # <<>> /\ cell \in Seq(Bytes)
    BY <1>5, <2>1, <2>2
  <2> HIDE DEF cell
  <2>4. \A i \in 1 .. c : w.q + i \in 1 .. Len(cell)
    BY <1>4, <1>5, <2>2, <2>3
  <2>5. cell # <<>>
    BY <1>4, <1>5, <2>2, <2>3
  <2>6. QED BY <2>1, <2>3, <2>4, <2>5
<1>7. ASSUME NEW i \in 1 .. c PROVE Contents[f + i - 1] = cell[w.q + i]
  <2>1. /\ i - 1 \in Nat /\ f + (i - 1) = f + i - 1 /\ w.q + (i - 1) < quantum
        /\ f + i - 1 \in 0 .. MaxPos - 1 /\ w.q + (i - 1) + 1 = w.q + i
    BY <1>3, <1>4, <1>5
  <2>2. Where(f + (i - 1), quantum, qset) = [w EXCEPT !.q = @ + (i - 1)]
    BY <1>3, <2>1, WhereNext
  <2>3. w = [item |-> w.item, s |-> w.s, q |-> w.q]
    BY DEF w, At, Where
  <2> DEFINE at == Where(f + i - 1, quantum, qset)
  <2>4. at = [item |-> w.item, s |-> w.s, q |-> w.q + (i - 1)]
    BY <2>1, <2>2, <2>3
  <2>5. Contents[f + i - 1] = CellOf(data, at)
    BY <2>1, ContentsCells
  <2> HIDE DEF at
  <2>6. at.item = w.item /\ at.s = w.s /\ at.q + 1 = w.q + i
    BY <2>1, <2>4
  <2>7. QED BY <1>6, <2>5, <2>6 DEF CellOf
<1>8. \A k \in File!Run(p, c) : Contents[k] # Hole
  <2> SUFFICES ASSUME NEW k \in f .. f + c - 1 PROVE Contents[k] # Hole
    BY DEF File!Run, f
  <2>1. k - f + 1 \in 1 .. c /\ f + (k - f + 1) - 1 = k
    BY <1>3, <1>4
  <2>2. Contents[k] \in Bytes
    BY <1>6, <1>7, <2>1
  <2>3. QED BY <2>2, BytesAssumption DEF Bytes
<1>9. [i \in 1 .. c |-> Contents[f + i - 1]] = [i \in 1 .. c |-> cell[w.q + i]]
  BY <1>7
<1>10. Contents' = Contents
  BY <1>1, SameContents
<1>11. c \in 1 .. (MaxPos - f) /\ f + c <= size
  BY <1>3, <1>4
<1>12. ubuf' = [ubuf EXCEPT ![p] = [i \in 1 .. c |-> Contents[f + i - 1]]]
  BY <1>2, <1>9 DEF c
<1>13. File!Read(p)
  BY <1>1, <1>2, <1>8, <1>10, <1>11, <1>12 DEF File!Read, c, f
<1>14. QED BY <1>13 DEF File!Next

\* A read returns nothing at the end of the file and at holes.
LEMMA NothingShown ==
  ASSUME Refined, NEW p \in Procs, ReadNothing(p)
  PROVE  File!Next
<1>1. pc[p] = "read" /\ ubuf' = [ubuf EXCEPT ![p] = <<Hole>>]
      /\ UNCHANGED <<quantum, qset, size, f_pos>>
  BY DEF ReadNothing, Step
<1>2. CASE f_pos[p] >= size /\ UNCHANGED data
  BY <1>1, <1>2, SameContents DEF File!ReadNothing, File!Next
<1>3. CASE ~(f_pos[p] >= size /\ UNCHANGED data)
  <2> DEFINE w == At(p)
  <2>1. f_pos[p] < size /\ itemsize(p) # 0
        /\ \/ \E n \in Len(data) .. w.item - 1 : data' = Followed(n)
           \/ /\ data' = Followed(w.item)
              /\ \/ data'[w.item] = <<>>
                 \/ w.s <= Len(data'[w.item]) /\ data'[w.item][w.s] = <<>>
    BY <1>3 DEF ReadNothing
  <2>2. /\ w = Where(f_pos[p], quantum, qset) /\ f_pos[p] \in Nat /\ MaxPos \in Nat
        /\ data \in Lists /\ size \in 0 .. MaxPos /\ TypeOK
    BY <1>1, <2>1, AtWork DEF Refined, IInv, TypeOK
  <2>3. w.item \in Nat \ {0}
    BY <2>1, <2>2, AtInside
  <2>4. f_pos[p] \in 0 .. MaxPos - 1
    BY <2>1, <2>2
  <2>5. Contents[f_pos[p]] = CellOf(data, w)
    BY <2>2, <2>4, ContentsCells
  <2> HIDE DEF w
  <2>6. Contents' = Contents
    <3>1. \E n \in Nat : data' = Followed(n)
      <4>1. Len(data) \in Nat
        BY <2>2 DEF Lists
      <4>2. QED BY <2>1, <2>3, <4>1
    <3>2. QED BY <1>1, <3>1, FollowedContents
  <2>7. CellOf(data, w) = Hole
    <3>1. CASE \E n \in Len(data) .. w.item - 1 : data' = Followed(n)
      <4>1. w.item \notin DOMAIN data
        BY <2>2, <2>3, <3>1 DEF Lists
      <4>2. QED BY <4>1 DEF CellOf
    <3>2. CASE /\ data' = Followed(w.item)
               /\ \/ data'[w.item] = <<>>
                  \/ w.s <= Len(data'[w.item]) /\ data'[w.item][w.s] = <<>>
      <4>1. CellOf(data', w) = Hole
        BY <3>2 DEF CellOf
      <4>2. QED BY <2>2, <2>3, <3>2, <4>1, FollowedCell
    <3>3. QED BY <2>1, <3>1, <3>2
  <2>8. File!ReadNothing(p)
    BY <1>1, <2>5, <2>6, <2>7 DEF File!ReadNothing
  <2>9. QED BY <2>8 DEF File!Next
<1>4. QED BY <1>2, <1>3

\* A write that finds no memory keeps what it has allocated, and shows nothing.
LEMMA NoMemShown ==
  ASSUME Refined, NEW p \in Procs, WriteNoMem(p)
  PROVE  UNCHANGED File!fileVars
<1>1. pc[p] = "write" /\ itemsize(p) # 0 /\ UNCHANGED <<quantum, qset, size, f_pos, ubuf>>
  BY DEF WriteNoMem, Step, file
<1>2. data \in Lists /\ TypeOK /\ quantum \in Nat /\ qset \in Nat
  BY <1>1, AtWork DEF Refined, IInv
<1>3. (\E n \in Nat : data' = Followed(n)) \/ data' = Arrayed(p)
  <2>1. At(p).item \in Nat \ {0} /\ Len(data) \in Nat
    BY <1>1, <1>2, AtInside DEF Lists
  <2>2. QED BY <2>1 DEF WriteNoMem, Arrayed
<1>4. CASE \E n \in Nat : data' = Followed(n)
  BY <1>1, <1>4, FollowedContents, Silent
<1>5. CASE data' = Arrayed(p)
  <2>1. MaxPos \in Nat
    BY CountsAssumption
  <2>2. \A k \in 0 .. MaxPos - 1 :
          CellOf(data', Where(k, quantum, qset)) = CellOf(data, Where(k, quantum, qset))
    <3>1. \A k \in 0 .. MaxPos - 1 : k \in Nat
      BY <2>1
    <3>2. QED BY <1>1, <1>5, <3>1, AllocatedCells
  <2>3. Contents' = Contents
    BY <1>1, <2>2, ContentsCells, ContentsCellsNext
  <2>4. QED BY <1>1, <2>3, Silent
<1>6. QED BY <1>3, <1>4, <1>5

\* A write is one of the file, and one that fails half-way spoils what it would write.
LEMMA WriteShown ==
  ASSUME Refined, NEW p \in Procs, WriteCopy(p) \/ WriteFault(p)
  PROVE  File!Next
<1>1. pc[p] = "write" /\ itemsize(p) # 0 /\ UNCHANGED <<quantum, qset, ubuf>>
  BY DEF WriteCopy, WriteFault, Step, file
<1>2. f_pos[p] \in Nat /\ MaxPos \in Nat
  BY <1>1, AtWork
<1>3. CASE WriteCopy(p)
  <2>a. PICK count \in Writable(p) :
          /\ Inside(Allocated(p), At(p), count)
          /\ \E bytes \in [1 .. count -> Values] :
               data' = Stored(Allocated(p), At(p), bytes)
          /\ f_pos' = [f_pos EXCEPT ![p] = f_pos[p] + count]
          /\ size' = IF size < f_pos[p] + count THEN f_pos[p] + count ELSE size
    BY <1>3 DEF WriteCopy
  <2>1. PICK bytes \in [1 .. count -> Values] : data' = Stored(Allocated(p), At(p), bytes)
    BY <2>a
  <2>2. bytes \in [1 .. count -> Bytes]
    BY DEF Bytes
  <2>3. /\ count \in 1 .. (MaxPos - f_pos[p])
        /\ DOMAIN Contents' = DOMAIN Contents
        /\ \A k \in File!Run(p, count) : Contents'[k] = bytes[k - f_pos[p] + 1]
        /\ \A k \in DOMAIN Contents \ File!Run(p, count) :
             Contents'[k] = Contents[k] \/ (Contents[k] = Hole /\ Contents'[k] = Junk)
    BY <1>1, <2>a, <2>1, <2>2, StoredContents
  <2>4. \A k \in File!Run(p, count) : bytes[k - f_pos[p] + 1] \in Values
    <3>1. ASSUME NEW k \in f_pos[p] .. f_pos[p] + count - 1
          PROVE  k - f_pos[p] + 1 \in 1 .. count
      BY <1>2, <2>3
    <3>2. QED BY <3>1 DEF File!Run
  <2>5. File!StoreOnly(File!Run(p, count), Values)
    BY <2>3, <2>4 DEF File!StoreOnly
  <2>6. File!Write(p)
    BY <1>1, <2>a, <2>3, <2>5 DEF File!Write
  <2>7. QED BY <2>6 DEF File!Next
<1>4. CASE WriteFault(p)
  <2>1. PICK count \in Writable(p) :
          /\ Inside(Allocated(p), At(p), count)
          /\ data' = Stored(Allocated(p), At(p), [i \in 1 .. count |-> Junk])
    BY <1>4 DEF WriteFault
  <2> DEFINE bytes == [i \in 1 .. count |-> Junk]
  <2>2. bytes \in [1 .. count -> Bytes]
    BY DEF Bytes
  <2>3. \A i \in 1 .. count : bytes[i] = Junk
    OBVIOUS
  <2>4. data' = Stored(Allocated(p), At(p), bytes)
    BY <2>1
  <2> HIDE DEF bytes
  <2>5. /\ count \in 1 .. (MaxPos - f_pos[p])
        /\ DOMAIN Contents' = DOMAIN Contents
        /\ \A k \in File!Run(p, count) : Contents'[k] = bytes[k - f_pos[p] + 1]
        /\ \A k \in DOMAIN Contents \ File!Run(p, count) :
             Contents'[k] = Contents[k] \/ (Contents[k] = Hole /\ Contents'[k] = Junk)
    BY <1>1, <2>1, <2>2, <2>4, StoredContents
  <2>6. \A k \in File!Run(p, count) : bytes[k - f_pos[p] + 1] \in {Junk}
    <3>1. ASSUME NEW k \in f_pos[p] .. f_pos[p] + count - 1
          PROVE  k - f_pos[p] + 1 \in 1 .. count
      BY <1>2, <2>5
    <3>2. QED BY <2>3, <3>1 DEF File!Run
  <2>7. File!StoreOnly(File!Run(p, count), {Junk})
    BY <2>5, <2>6 DEF File!StoreOnly
  <2>8. size' = size /\ f_pos' = f_pos
    BY <1>4 DEF WriteFault, file
  <2>9. File!Spoil(p)
    BY <1>1, <2>5, <2>7, <2>8 DEF File!Spoil
  <2>10. QED BY <2>9 DEF File!Next
<1>5. QED BY <1>3, <1>4

LEMMA StepShown ==
  ASSUME Refined, NEW p \in Procs, DNext(p)
  PROVE  File!Next \/ UNCHANGED File!fileVars
BY QuietShown, SeekShown, TrimShown, ReadShown, NothingShown, NoMemShown, WriteShown
   DEF DNext, Kernel

(* What the refinement needs of a state stays true while nobody is stale. *)
LEMMA FileInvStep ==
  ASSUME Refined, NEW p \in Procs, DNext(p)
  PROVE  FileInv'
<1>1. CurrentSizes'
  BY MixStep DEF Refined, FileInv, NobodyStale
<1>2. data' = <<>> \/ quantum' * qset' # 0
  <2>1. CASE UNCHANGED <<data, quantum, qset>>
    BY <2>1 DEF Refined, FileInv
  <2>2. CASE Trim(p) \/ TrimQuantum(p) \/ TrimQset(p)
    BY <2>2 DEF Trim, TrimQuantum, TrimQset, Step, Refined, IInv, TrimEmpty
  <2>3. CASE ReadNothing(p) \/ WriteNoMem(p) \/ WriteCopy(p) \/ WriteFault(p)
    <3>1. UNCHANGED data \/ itemsize(p) # 0
      BY <2>3 DEF ReadNothing, WriteNoMem, WriteCopy, WriteFault
    <3>2. pc[p] \in {"read", "write"} /\ UNCHANGED <<quantum, qset>>
      BY <2>3 DEF ReadNothing, WriteNoMem, WriteCopy, WriteFault, Step
    <3>3. QED BY <2>1, <3>1, <3>2, AtWork
  <2>4. CASE MutexLock(p) \/ LockInterrupted(p) \/ Open(p) \/ Close(p) \/ LoadQuantum(p)
             \/ LoadQset(p) \/ ReadCopy(p) \/ ReadFault(p) \/ Out(p) \/ Oops(p)
             \/ Seek(p) \/ Ioctl(p)
    BY <2>1, <2>4
       DEF MutexLock, LockInterrupted, Open, Close, LoadQuantum, LoadQset, ReadCopy,
           ReadFault, Out, Oops, Seek, Ioctl, dev
  <2>5. QED BY <2>2, <2>3, <2>4 DEF DNext, Kernel
<1>3. ASSUME NEW r \in Procs, pc'[r] \in {"t_lock", "trim"} PROVE r \in WriteOnly
  <2>0. pc \in [Procs -> Pcs] /\ (pc[r] \in {"t_lock", "trim"} => r \in WriteOnly)
    BY DEF Refined, FileInv, IInv, TypeOK
  <2>1. ASSUME NEW from, NEW to, Step(p, from, to),
               to \in {"t_lock", "trim"} => from \in {"t_lock", "trim"} \/ p \in WriteOnly
        PROVE  r \in WriteOnly
    <3>1. CASE r = p
      <4>1. pc'[r] = to /\ pc[r] = from
        BY <2>0, <2>1, <3>1 DEF Step
      <4>2. QED BY <1>3, <2>0, <2>1, <3>1, <4>1
    <3>2. CASE r # p
      BY <1>3, <2>0, <2>1, <3>2 DEF Step
    <3>3. QED BY <3>1, <3>2
  <2>2. CASE MutexLock(p) \/ LockInterrupted(p) \/ Open(p) \/ Close(p) \/ LoadQuantum(p) \/ LoadQset(p)
    BY <2>1, <2>2 DEF MutexLock, LockInterrupted, Open, Close, LoadQuantum, LoadQset
  <2>3. CASE Trim(p) \/ TrimQuantum(p) \/ TrimQset(p) \/ Out(p)
    BY <2>1, <2>3 DEF Trim, TrimQuantum, TrimQset, Out
  <2>4. CASE ReadNothing(p) \/ ReadCopy(p) \/ ReadFault(p)
    BY <2>1, <2>4 DEF ReadNothing, ReadCopy, ReadFault
  <2>5. CASE WriteNoMem(p) \/ WriteCopy(p) \/ WriteFault(p)
    BY <2>1, <2>5 DEF WriteNoMem, WriteCopy, WriteFault
  <2>6. CASE Oops(p) \/ Seek(p) \/ Ioctl(p)
    <3>1. pc' = pc \/ pc' = [pc EXCEPT ![p] = "oops"]
      BY <2>6 DEF Oops, Seek, Ioctl
    <3>2. QED BY <1>3, <2>0, <3>1
  <2>7. QED BY <2>2, <2>3, <2>4, <2>5, <2>6 DEF DNext, Kernel
<1>4. QED BY <1>1, <1>2, <1>3 DEF FileInv

LEMMA FileInvKept ==
  IInv /\ FileInv /\ NobodyStale /\ [Next]_vars => FileInv'
<1> SUFFICES ASSUME Refined, [Next]_vars PROVE FileInv'
  BY DEF Refined
<1>1. CASE UNCHANGED vars
  BY <1>1 DEF vars, dev, Refined, FileInv, CurrentSizes
<1>2. CASE Next
  BY <1>2, FileInvStep DEF Next, DNext
<1>3. QED BY <1>1, <1>2

LEMMA FileInvInit == Init => FileInv
BY DEF Init, FileInv, CurrentSizes

LEMMA StepsShown ==
  IInv /\ FileInv /\ NobodyStale /\ [Next]_vars => [File!Next]_(File!fileVars)
<1> SUFFICES ASSUME Refined, [Next]_vars PROVE File!Next \/ UNCHANGED File!fileVars
  BY DEF Refined
<1>1. CASE UNCHANGED vars
  BY <1>1, SameContents, Silent DEF vars, dev, file
<1>2. CASE Next
  BY <1>2, StepShown DEF Next, DNext
<1>3. QED BY <1>1, <1>2

LEMMA InitShown == Init => File!Init
BY EmptyContents DEF Init, File!Init

(* Ioctls may change the settings and opens may install them: as long as no read or     *)
(* write works with sizes the device has no more, the device is a sparse file, for any  *)
(* processes, sizes, counts and positions, and whatever allocations and copies fail.    *)
THEOREM FreshCallsImplementFile == Spec /\ []NobodyStale => ImplementsFile
BY InitShown, StepsShown, FileInvInit, FileInvKept, Invariance, PTL
   DEF Spec, ImplementsFile, File!Spec

-----------------------------------------------------------------------------
(* No call leaves its memory *)

SizesNotZero == quantum # 0 /\ qset # 0

LEMMA OopsNever ==
  ASSUME Refined, SizesNotZero, NEW p \in Procs, Oops(p)
  PROVE  FALSE
<1>1. pc[p] # "trim" /\ (Stale(p) \/ itemsize(p) = 0) /\ TypeOK
  BY OopsStep DEF Refined, FileInv, IInv
<1>2. pc[p] \in {"read", "write"}
  BY <1>1 DEF Oops
<1>3. args[p].quantum = quantum /\ args[p].qset = qset /\ quantum * qset = 0
  BY <1>1, <1>2 DEF Refined, NobodyStale, Stale, itemsize
<1>4. quantum \in Nat \ {0} /\ qset \in Nat \ {0}
  BY <1>1, SettingsAssumption DEF SizesNotZero, TypeOK
<1>5. \A x, y \in Nat \ {0} : x * y # 0
  BY SMT
<1>6. QED BY <1>3, <1>4, <1>5

LEMMA OopsStays ==
  IInv /\ FileInv /\ NobodyStale /\ SizesNotZero /\ NeverOops /\ [Next]_vars => NeverOops'
<1> SUFFICES ASSUME Refined, SizesNotZero, NeverOops, [Next]_vars PROVE NeverOops'
  BY DEF Refined
<1>1. CASE UNCHANGED vars
  BY <1>1 DEF vars, NeverOops
<1>2. CASE Next
  <2>1. PICK p \in Procs : DNext(p)
    BY <1>2 DEF Next, DNext
  <2>2. pc \in [Procs -> Pcs]
    BY DEF Refined, IInv, TypeOK
  <2>3. ASSUME NEW from, NEW to, Step(p, from, to), to # "oops" PROVE NeverOops'
    BY <2>2, <2>3 DEF Step, NeverOops
  <2>4. CASE Seek(p) \/ Ioctl(p)
    BY <2>4 DEF Seek, Ioctl, NeverOops
  <2>5. CASE MutexLock(p) \/ LockInterrupted(p) \/ Trim(p) \/ TrimQuantum(p) \/ TrimQset(p)
    BY <2>3, <2>5 DEF MutexLock, LockInterrupted, Trim, TrimQuantum, TrimQset
  <2>6. CASE LoadQuantum(p) \/ LoadQset(p) \/ Open(p) \/ Close(p) \/ Out(p)
    BY <2>3, <2>6 DEF LoadQuantum, LoadQset, Open, Close, Out
  <2>7. CASE ReadNothing(p) \/ ReadCopy(p) \/ ReadFault(p)
    BY <2>3, <2>7 DEF ReadNothing, ReadCopy, ReadFault
  <2>8. CASE WriteNoMem(p) \/ WriteCopy(p) \/ WriteFault(p)
    BY <2>3, <2>8 DEF WriteNoMem, WriteCopy, WriteFault
  <2>9. QED
    BY <2>1, <2>4, <2>5, <2>6, <2>7, <2>8, OopsNever DEF DNext, Kernel
<1>3. QED BY <1>1, <1>2

(* Nor does any call leave its memory or divide by zero, if the sizes are never zero. *)
THEOREM FreshCallsNeverOops == Spec /\ []NobodyStale /\ []SizesNotZero => []NeverOops
<1>1. Init => NeverOops
  BY DEF Init, NeverOops
<1>2. QED BY <1>1, OopsStays, FileInvInit, FileInvKept, Invariance, PTL DEF Spec

(* And all memory of the device has the sizes the device says. *)
THEOREM FreshCallsKeepSizes == Spec /\ []NobodyStale => []CurrentSizes
<1>1. FileInv => CurrentSizes
  BY DEF FileInv
<1>2. QED BY <1>1, FileInvInit, FileInvKept, Invariance, PTL DEF Spec

-----------------------------------------------------------------------------
(* While nobody changes the settings nobody is stale *)

SettingsKept == scull_quantum = InitQuantum /\ scull_qset = InitQset

\* The device has the default sizes, and so have the calls that have loaded them.
KeptInv ==
  /\ quantum = InitQuantum /\ qset = InitQset
  /\ \A p \in Procs :
       /\ pc[p] \in InCall => args[p].quantum = InitQuantum
       /\ pc[p] \in InCall \ {"r_qset", "w_qset"} => args[p].qset = InitQset

LEMMA KeptStep ==
  ASSUME TypeOK, KeptInv, SettingsKept, NEW p \in Procs, DNext(p)
  PROVE  KeptInv'
<1> USE DEF SettingsKept, InCall
<1>0. /\ pc \in [Procs -> Pcs] /\ args \in [Procs -> [quantum : Nat, qset : Nat]]
      /\ quantum = InitQuantum /\ qset = InitQset
      /\ \A r \in Procs :
           /\ pc[r] \in InCall => args[r].quantum = InitQuantum
           /\ pc[r] \in InCall \ {"r_qset", "w_qset"} => args[r].qset = InitQset
  BY DEF TypeOK, KeptInv
<1>1. ASSUME NEW from, NEW to, Step(p, from, to), quantum' = quantum, qset' = qset,
             \/ to \notin InCall /\ \A r \in Procs \ {p} : args'[r] = args[r]
             \/ args' = args /\ to \in {"read", "write"} /\ from \in {"r_lock", "w_lock"}
      PROVE  KeptInv'
  <2>1. ASSUME NEW r \in Procs, r # p
        PROVE  /\ pc'[r] \in InCall => args'[r].quantum = InitQuantum
               /\ pc'[r] \in InCall \ {"r_qset", "w_qset"} => args'[r].qset = InitQset
    BY <1>0, <1>1, <2>1 DEF Step
  <2>2. /\ pc'[p] \in InCall => args'[p].quantum = InitQuantum
        /\ pc'[p] \in InCall \ {"r_qset", "w_qset"} => args'[p].qset = InitQset
    BY <1>0, <1>1 DEF Step
  <2>3. QED BY <1>0, <1>1, <2>1, <2>2 DEF KeptInv
<1>2. CASE MutexLock(p) \/ Open(p) \/ Close(p)
  BY <1>1, <1>2 DEF MutexLock, Open, Close, dev, file
<1>3. CASE LockInterrupted(p) \/ Out(p)
  <2>1. \A r \in Procs \ {p} : args'[r] = args[r]
    BY <1>0, <1>3 DEF LockInterrupted, Out
  <2>2. QED BY <1>1, <1>3, <2>1 DEF LockInterrupted, Out, dev
<1>4. CASE Trim(p) \/ TrimQuantum(p) \/ TrimQset(p)
  <2>1. quantum' = quantum /\ qset' = qset
    BY <1>0, <1>4 DEF Trim, TrimQuantum, TrimQset
  <2>2. QED BY <1>1, <1>4, <2>1 DEF Trim, TrimQuantum, TrimQset, file
<1>5. CASE LoadQuantum(p)
  <2>1. /\ args' = [args EXCEPT ![p].quantum = quantum] /\ UNCHANGED <<quantum, qset>>
        /\ \E to \in {"r_qset", "w_qset"} : pc' = [pc EXCEPT ![p] = to]
    BY <1>5 DEF LoadQuantum, Step, dev
  <2>2. QED BY <1>0, <2>1 DEF KeptInv
<1>6. CASE LoadQset(p)
  <2>1. /\ args' = [args EXCEPT ![p].qset = qset] /\ UNCHANGED <<quantum, qset>>
        /\ pc[p] \in {"r_qset", "w_qset"}
        /\ \E to \in {"r_lock", "w_lock"} : pc' = [pc EXCEPT ![p] = to]
    BY <1>6 DEF LoadQset, Step, dev
  <2>2. QED BY <1>0, <2>1 DEF KeptInv
<1>7. CASE ReadNothing(p) \/ ReadCopy(p) \/ ReadFault(p)
  BY <1>1, <1>7 DEF ReadNothing, ReadCopy, ReadFault, dev, file
<1>8. CASE WriteNoMem(p) \/ WriteCopy(p) \/ WriteFault(p)
  BY <1>1, <1>8 DEF WriteNoMem, WriteCopy, WriteFault, file
<1>9. CASE Oops(p) \/ Seek(p) \/ Ioctl(p)
  <2>1. /\ pc' = pc \/ pc' = [pc EXCEPT ![p] = "oops"]
        /\ UNCHANGED <<quantum, qset, args>>
    BY <1>9 DEF Oops, Seek, Ioctl, dev, file
  <2>2. QED BY <1>0, <2>1 DEF KeptInv
<1>10. QED BY <1>2, <1>3, <1>4, <1>5, <1>6, <1>7, <1>8, <1>9 DEF DNext, Kernel

LEMMA KeptInvKept == TypeOK /\ KeptInv /\ SettingsKept /\ [Next]_vars => KeptInv'
<1> SUFFICES ASSUME TypeOK, KeptInv, SettingsKept, [Next]_vars PROVE KeptInv'
  OBVIOUS
<1>1. CASE UNCHANGED vars
  BY <1>1 DEF vars, dev, file, KeptInv
<1>2. CASE Next
  BY <1>2, KeptStep DEF Next, DNext
<1>3. QED BY <1>1, <1>2

LEMMA KeptInvariance == Spec /\ []SettingsKept => []KeptInv
<1>1. Init => KeptInv
  BY DEF Init, KeptInv, InCall
<1>2. QED BY <1>1, KeptInvKept, TypeCorrect, PTL DEF Spec

LEMMA KeptFresh == KeptInv => NobodyStale /\ SizesNotZero
BY SettingsAssumption DEF KeptInv, NobodyStale, Stale, SizesNotZero, InCall

(* While nobody changes the settings the device is a sparse file and no call leaves its *)
(* memory.                                                                              *)
THEOREM KeptSettings == Spec /\ []SettingsKept => ImplementsFile /\ []NeverOops
BY KeptFresh, KeptInvariance, FreshCallsImplementFile, FreshCallsNeverOops, PTL

-----------------------------------------------------------------------------
(* The device and the ioctl that changes its settings *)

\* Where an ioctl is, and that only the capable get beyond a reset.
CallsOK ==
  /\ call \in [Procs -> {"out", "reset", "exchange", "shift", "reply"}]
  /\ on \in [Procs -> SettingNames]
  /\ \A p \in Procs : call[p] \in {"exchange", "shift", "reply"} => p \in Capable

LEMMA CallsKept ==
  ASSUME CallsOK, NEW p \in Procs, IO!Call(p)
  PROVE  CallsOK'
BY DEF CallsOK, SettingNames, IO!Call, IO!Reset, IO!Set, IO!Load, IO!Replace, IO!Fail, IO!Reply,
       IO!Goto, IO!Forget, IO!MayChange, IO!Settings, IO!local

\* A store is to one of the two settings.
LEMMA StoreIs ==
  ASSUME NEW p, NEW s \in SettingNames, NEW v, IO!Store(p, s, v)
  PROVE  \/ s = "scull_quantum" /\ scull_quantum' = v /\ scull_qset' = scull_qset
         \/ s = "scull_qset" /\ scull_qset' = v /\ scull_quantum' = scull_quantum
<1> DEFINE old == Setting(scull_quantum, scull_qset)
           new == Setting(scull_quantum', scull_qset')
<1>1. new = [old EXCEPT ![s] = v]
  BY DEF IO!Store
<1>2. /\ old["scull_quantum"] = scull_quantum /\ old["scull_qset"] = scull_qset
      /\ new["scull_quantum"] = scull_quantum' /\ new["scull_qset"] = scull_qset'
      /\ DOMAIN old = SettingNames
  BY DEF Setting, SettingNames
<1> HIDE DEF old, new
<1>3. QED BY <1>1, <1>2 DEF SettingNames

\* What a step of ioctl leaves in the settings: one new value at most, and a default if
\* the process is not capable.
LEMMA IoctlStores ==
  ASSUME CallsOK, NEW p \in Procs, IO!Call(p)
  PROVE  /\ scull_quantum' = scull_quantum \/ scull_qset' = scull_qset
         /\ p \in Capable
            \/ /\ scull_quantum' \in {scull_quantum, DefaultQuantum}
               /\ scull_qset' \in {scull_qset, DefaultQset}
<1>1. IO!Settings = SettingNames /\ on[p] \in SettingNames
  BY DEF IO!Settings, SettingNames, CallsOK
<1>2. CASE IO!Reset(p)
  <2>1. /\ Setting(DefaultQuantum, DefaultQset)["scull_quantum"] = DefaultQuantum
        /\ Setting(DefaultQuantum, DefaultQset)["scull_qset"] = DefaultQset
        /\ "scull_quantum" \in SettingNames /\ "scull_qset" \in SettingNames
    BY DEF Setting, SettingNames
  <2>2. \/ IO!Store(p, "scull_quantum", DefaultQuantum)
        \/ IO!Store(p, "scull_qset", DefaultQset)
    BY <1>2, <2>1 DEF IO!Reset
  <2>3. QED BY <2>1, <2>2, StoreIs
<1>3. CASE IO!Set(p)
  BY <1>1, <1>3, StoreIs DEF IO!Set, IO!MayChange
<1>4. CASE IO!Replace(p) \/ IO!Fail(p)
  <2>1. p \in Capable
    BY <1>4 DEF IO!Replace, IO!Fail, IO!Goto, CallsOK
  <2>2. PICK v : IO!Store(p, on[p], v)
    BY <1>4 DEF IO!Replace, IO!Fail
  <2>3. QED BY <1>1, <2>1, <2>2, StoreIs
<1>5. CASE IO!Load(p) \/ IO!Reply(p)
  <2>1. UNCHANGED Setting(scull_quantum, scull_qset)
    BY <1>5 DEF IO!Load, IO!Reply
  <2>2. /\ \A q, s : Setting(q, s)["scull_quantum"] = q /\ Setting(q, s)["scull_qset"] = s
    BY DEF Setting, SettingNames
  <2>3. UNCHANGED <<scull_quantum, scull_qset>>
    BY <2>1, <2>2
  <2>4. QED BY <2>3
<1>6. QED BY <1>2, <1>3, <1>4, <1>5 DEF IO!Call

\* The other calls leave the settings alone.
LEMMA FilesStoreNothing ==
  ASSUME NEW p \in Procs,
         Kernel(p) \/ Open(p) \/ Close(p) \/ LoadQuantum(p) \/ Seek(p)
  PROVE  UNCHANGED settings
BY DEF Kernel, MutexLock, LockInterrupted, Trim, TrimQuantum, TrimQset, LoadQset, ReadNothing,
       ReadCopy, ReadFault, WriteNoMem, WriteCopy, WriteFault, Out, Oops, Open, Close,
       LoadQuantum, Seek, settings

all == <<vars, calls, changed>>

\* A step of the whole is one of each part, or none.
LEMMA DriverStep ==
  CallsOK /\ [DriverNext]_all => CallsOK' /\ [Next]_vars /\ [IO!Next]_(IO!vars)
<1> SUFFICES ASSUME CallsOK, [DriverNext]_all
             PROVE  CallsOK' /\ [Next]_vars /\ [IO!Next]_(IO!vars)
  OBVIOUS
<1>1. CASE UNCHANGED all
  BY <1>1 DEF all, vars, settings, calls, CallsOK, IO!vars
<1>2. ASSUME NEW p \in Procs, FileStep(p)
      PROVE  CallsOK' /\ [Next]_vars /\ [IO!Next]_(IO!vars)
  <2>1. Next
    BY <1>2 DEF FileStep, Next
  <2>2. UNCHANGED settings
    BY <1>2, FilesStoreNothing DEF FileStep
  <2>3. UNCHANGED IO!vars
    BY <1>2, <2>2 DEF FileStep, settings, calls, IO!vars
  <2>4. CallsOK'
    BY <1>2 DEF FileStep, calls, CallsOK
  <2>5. QED BY <2>1, <2>3, <2>4
<1>3. ASSUME NEW p \in Procs, IoctlStep(p)
      PROVE  CallsOK' /\ [Next]_vars /\ [IO!Next]_(IO!vars)
  <2>1. IO!Call(p) /\ IO!Next
    BY <1>3 DEF IoctlStep, IO!Next
  <2>2. CallsOK'
    BY <2>1, CallsKept
  <2>3. scull_quantum' = scull_quantum \/ scull_qset' = scull_qset
    BY <2>1, IoctlStores
  <2>4. Ioctl(p)
    BY <1>3, <2>3 DEF IoctlStep, Ioctl
  <2>5. QED BY <2>1, <2>2, <2>4 DEF Next
<1>4. QED BY <1>1, <1>2, <1>3 DEF DriverNext

LEMMA DriverParts == DriverSpec => Spec /\ IO!Spec /\ []CallsOK
<1>1. DriverInit => Init /\ IO!Init /\ CallsOK
  BY DEF DriverInit, CallsOK, IO!Init, SettingNames
<1>2. QED BY <1>1, DriverStep, PTL DEF DriverSpec, Spec, IO!Spec, all

(* Each part is as by itself: what ScullDev leaves open is what scull_ioctl does, and so *)
(* all that is proved about every behaviour of ScullDev is true of the two together.     *)
THEOREM DriverImplementsParts == DriverSpec => ImplementsParts
BY DriverParts, PTL DEF ImplementsParts

\* The module is loaded without parameters.
DefaultsOnly == InitQuantum = DefaultQuantum /\ InitQset = DefaultQset

\* What is as it was at the start.
Untouched == SettingsKept /\ KeptInv /\ FileInv /\ NeverOops
HarmlessInv == ~changed => Untouched

LEMMA HarmlessStep ==
  DefaultsOnly /\ IInv /\ CallsOK /\ HarmlessInv /\ [DriverNext]_all => HarmlessInv'
<1> SUFFICES ASSUME DefaultsOnly, IInv, CallsOK, HarmlessInv, [DriverNext]_all, ~changed'
             PROVE  Untouched'
  BY DEF HarmlessInv
<1>1. ~changed /\ SettingsKept'
  <2>1. CASE UNCHANGED all
    BY <2>1 DEF all, vars, settings, HarmlessInv, Untouched, SettingsKept
  <2>2. ASSUME NEW p \in Procs, FileStep(p)
        PROVE  ~changed /\ SettingsKept'
    BY <2>2, FilesStoreNothing
    DEF FileStep, settings, HarmlessInv, Untouched, SettingsKept
  <2>3. ASSUME NEW p \in Procs, IoctlStep(p)
        PROVE  ~changed /\ SettingsKept'
    <3>1. ~changed /\ (p \in Capable => settings' = settings) /\ IO!Call(p)
      BY <2>3 DEF IoctlStep
    <3>2. SettingsKept
      BY <3>1 DEF HarmlessInv, Untouched
    <3>3. QED BY <3>1, <3>2, IoctlStores DEF settings, SettingsKept, DefaultsOnly
  <2>4. QED BY <2>1, <2>2, <2>3 DEF DriverNext
<1>2. Untouched /\ TypeOK /\ [Next]_vars
  BY <1>1, DriverStep DEF HarmlessInv, IInv
<1>3. NobodyStale /\ SizesNotZero
  BY <1>2, KeptFresh DEF Untouched
<1>4. KeptInv'
  BY <1>2, KeptInvKept DEF Untouched
<1>5. FileInv' /\ NeverOops'
  BY <1>2, <1>3, FileInvKept, OopsStays DEF Untouched
<1>6. QED BY <1>1, <1>4, <1>5 DEF Untouched

LEMMA Harmless ==
  ASSUME DefaultsOnly
  PROVE  DriverSpec => []HarmlessInv
<1>1. DriverInit => HarmlessInv
  BY FileInvInit DEF DriverInit, Init, HarmlessInv, Untouched, SettingsKept, KeptInv,
                     NeverOops, InCall
<1>2. IInv /\ CallsOK /\ HarmlessInv /\ [DriverNext]_all => HarmlessInv'
  BY HarmlessStep
<1>3. QED BY <1>1, <1>2, DriverParts, Invariance, PTL DEF DriverSpec, all

(* Until a capable process has changed a setting no call leaves its memory, and all      *)
(* memory has the sizes the device says, whatever all others do, RESET included - if it  *)
(* is the sizes of the start that a RESET installs.                                      *)
THEOREM NobodyElseHarms ==
  ASSUME InitQuantum = DefaultQuantum, InitQset = DefaultQset
  PROVE  DriverSpec => []UnprivilegedHarmless
<1>1. HarmlessInv => UnprivilegedHarmless
  BY DEF HarmlessInv, Untouched, FileInv, UnprivilegedHarmless
<1>2. DriverSpec => []HarmlessInv
  BY Harmless DEF DefaultsOnly
<1>3. QED BY <1>1, <1>2, PTL

(* So without capable processes the device and its ioctl together are a sparse file:     *)
(* what the run dev_file shows for two processes.                                        *)
THEOREM UnprivilegedFile ==
  ASSUME Capable = {}, InitQuantum = DefaultQuantum, InitQset = DefaultQset
  PROVE  DriverSpec => ImplementsFile
<1>1. DriverInit => ~changed
  BY DEF DriverInit
<1>2. ~changed /\ [DriverNext]_all => ~changed'
  BY DEF DriverNext, FileStep, IoctlStep, all
<1>3. HarmlessInv /\ ~changed => SettingsKept
  BY DEF HarmlessInv, Untouched
<1>4. DriverSpec => []HarmlessInv
  BY Harmless DEF DefaultsOnly
<1>5. QED
  BY <1>1, <1>2, <1>3, <1>4, DriverParts, KeptSettings, PTL DEF DriverSpec, all
=============================================================================
