------------------------------ MODULE SeqFiles ------------------------------
(***************************************************************************)
(* Files in /proc read through seq_file: scullmem and scullseq of          *)
(* scull_main.c, the author's version of the second (scull_debug.c), and   *)
(* the counter of seq.c.  While they are read the devices are written and  *)
(* trimmed.  seq_read calls start, show, next, show ... and stop; it ends  *)
(* when its page is full or show has failed, and remembers as its index    *)
(* what it has not shown.                                                  *)
(***************************************************************************)
EXTENDS Integers

CONSTANTS
  Readers,
  N,          \* scull_nr_devs
  Lists,      \* the lists of items memory holds
  MaxCount,   \* bound: the counter is read up to here
  None

Devs  == 0..N - 1
Kinds == {"scullmem", "scullseq", "debug", "sequence"}

VARIABLES
  data,       \* data[d]: the list of the device
  kind,       \* the file a reader has open
  pc,
  index,      \* seq_file.index
  i, qs,      \* the device or number to be shown; the list to be scanned
  pos,        \* whether the reader holds the block with its position (seq.c)
  changed,    \* history: the list of device i has been replaced since qs was loaded
  shown,      \* history: how many a reader has been shown
  cut         \* history: the dumps of scullmem that have come to their limit too early

vars == <<data, kind, pc, index, i, qs, pos, changed, shown, cut>>

Init ==
  /\ data = [d \in Devs |-> None]
  /\ kind = [r \in Readers |-> None] /\ pc = [r \in Readers |-> "idle"]
  /\ index = [r \in Readers |-> 0] /\ i = index /\ shown = index
  /\ qs = [r \in Readers |-> None]
  /\ pos = {} /\ changed = {} /\ cut = {}

-----------------------------------------------------------------------------
\* The mutex of a device is held while its list is scanned.
UnlockedMutant(d) == TRUE
Unheld(d) == \A r \in Readers : pc[r] = "scan" => i[r] # d

\* The start method returns NULL.
EarlyMutant(r) == kind[r] # "sequence" /\ index[r] >= N - 1
Over(r) ==
  \/ kind[r] = "scullmem" /\ index[r] > 0              \* single_start
  \/ kind[r] = "scullseq" /\ index[r] >= N
  \/ kind[r] = "debug" /\ index[r] > N

\* Where the show method begins; only the one of scullmem loads d->data unlocked.
Show(r) == IF kind[r] = "scullmem" THEN "load" ELSE "lock"

Goto(r, from, to) == pc[r] = from /\ pc' = [pc EXCEPT ![r] = to]

-----------------------------------------------------------------------------
Open(r) ==
  /\ Goto(r, "idle", "open") /\ \E k \in Kinds : kind' = [kind EXCEPT ![r] = k]
  /\ UNCHANGED <<data, index, i, qs, pos, changed, shown, cut>>

Close(r) ==
  /\ Goto(r, "open", "idle")
  /\ kind' = [kind EXCEPT ![r] = None]
  /\ index' = [index EXCEPT ![r] = 0] /\ i' = [i EXCEPT ![r] = 0]
  /\ shown' = [shown EXCEPT ![r] = 0] /\ cut' = cut \ {r}
  /\ UNCHANGED <<data, qs, pos, changed>>

\* read(2) and the start method; at the end, or when ct_seq_start gets no memory,
\* the reader sees the end of the file and nothing changes.
Start(r) ==
  /\ ~Over(r)
  /\ IF kind[r] = "sequence"
     THEN /\ index[r] < MaxCount /\ Goto(r, "open", "count") /\ pos' = pos \cup {r}
     ELSE Goto(r, "open", Show(r)) /\ UNCHANGED pos
  /\ i' = [i EXCEPT ![r] = index[r]]
  /\ UNCHANGED <<data, kind, index, qs, changed, shown, cut>>

\* struct scull_qset *qs = d->data
Load(r) ==
  /\ Goto(r, "load", "lock") /\ qs' = [qs EXCEPT ![r] = data[i[r]]]
  /\ changed' = changed \ {r}
  /\ UNCHANGED <<data, kind, index, i, pos, shown, cut>>

\* The mutex.  The start method of the debug version also hands out the device
\* behind the last, where there may be anything.
Lock(r) ==
  /\ Unheld(i[r]) /\ Goto(r, "lock", "scan")
  /\ qs' = IF kind[r] = "scullmem" THEN qs
           ELSE [qs EXCEPT ![r] = IF i[r] \in Devs THEN data[i[r]] ELSE None]
  /\ UNCHANGED <<data, kind, index, i, pos, changed, shown, cut>>

\* What cannot be shown is left for the next start; scullmem then begins anew.
Dropped(r) ==
  /\ qs' = [qs EXCEPT ![r] = None] /\ changed' = changed \ {r} /\ pos' = pos \ {r}
  /\ shown' = IF kind[r] = "scullmem" THEN [shown EXCEPT ![r] = 0] ELSE shown
  /\ UNCHANGED <<data, kind, index, i, cut>>

\* mutex_lock_interruptible: the read fails.
Interrupted(r) == Goto(r, "lock", "open") /\ Dropped(r)

\* The text did not fit into what is left of the page.
Overflow(r) == (Goto(r, "scan", "open") \/ Goto(r, "count", "open")) /\ Dropped(r)

\* The items are printed and the mutex is released.  scullmem goes to its next
\* device unless m->count is beyond its limit, and has then done all it will ever
\* do; the others call next, and go on unless the page is full.
Scan(r) ==
  /\ pc[r] = "scan" /\ qs' = [qs EXCEPT ![r] = None] /\ changed' = changed \ {r}
  /\ shown' = [shown EXCEPT ![r] = @ + 1] /\ i' = [i EXCEPT ![r] = @ + 1]
  /\ \E full \in BOOLEAN :
       LET last == full \/ i[r] + 1 >= N IN
       /\ IF last THEN Goto(r, "scan", "open") ELSE Goto(r, "scan", Show(r))
       /\ index' = [index EXCEPT ![r] = IF kind[r] # "scullmem" THEN @ + 1
                                        ELSE IF last THEN 1 ELSE 0]
       /\ cut' = IF kind[r] = "scullmem" /\ full /\ i[r] + 1 < N THEN cut \cup {r} ELSE cut
  /\ UNCHANGED <<data, kind, pos>>

\* ct_seq_show, and ct_seq_next up to the end of the page, where ct_seq_stop frees.
Count(r) ==
  /\ shown' = [shown EXCEPT ![r] = @ + 1] /\ i' = [i EXCEPT ![r] = @ + 1]
  /\ index' = [index EXCEPT ![r] = i[r] + 1]
  /\ \/ Goto(r, "count", "open") /\ pos' = pos \ {r}
     \/ pc[r] = "count" /\ i[r] + 1 < MaxCount /\ UNCHANGED <<pc, pos>>
  /\ UNCHANGED <<data, kind, qs, changed, cut>>

\* A writer or a trim has replaced the list of d under its mutex; a list that is
\* let go may be handed out again.
Replace(d) ==
  /\ Unheld(d)
  /\ \E q \in Lists \cup {None} :
       /\ q # data[d] /\ (q = None \/ data[d] = None) /\ \A c \in Devs : q = None \/ data[c] # q
       /\ data' = [data EXCEPT ![d] = q]
  /\ changed' = changed \cup {r \in Readers : kind[r] = "scullmem" /\ pc[r] = "lock" /\ i[r] = d}
  /\ UNCHANGED <<kind, pc, index, i, qs, pos, shown, cut>>

Next ==
  \/ \E r \in Readers :
       \/ Open(r) \/ Close(r) \/ Start(r) \/ Load(r) \/ Lock(r) \/ Interrupted(r)
       \/ Overflow(r) \/ Scan(r) \/ Count(r)
  \/ \E d \in Devs : Replace(d)

-----------------------------------------------------------------------------
TypeOK ==
  /\ data \in [Devs -> Lists \cup {None}] /\ kind \in [Readers -> Kinds \cup {None}]
  /\ pc \in [Readers -> {"idle", "open", "load", "lock", "scan", "count"}]
  /\ \A r \in Readers : {index[r], i[r], shown[r]} \subseteq 0..(N + MaxCount + 1)
  /\ qs \in [Readers -> Lists \cup {None}] /\ {changed, cut} \subseteq SUBSET Readers
  /\ pos = {r \in Readers : pc[r] = "count"}

\* A list that is being scanned is the one its device has, and stays it because of
\* the mutex, unless the dump is scullmem and the list was replaced between the
\* load of d->data and the mutex: then it scans memory that has been freed.
ScansOwnList ==
  \A r \in Readers :
    pc[r] = "scan" /\ i[r] \in Devs => qs[r] = data[i[r]] \/ r \in changed

\* A reader sees devices and numbers in order, none twice and, whatever full pages
\* and signals come between, none left out, until start says that there are no
\* more: then it has seen every device.  There are two exceptions.  The debug
\* version shows one device beyond the array (scull_debug.c:84); scullmem, which
\* "don't print more than this" (scull_main.c:91), stops for good where its limit
\* comes before the last device.
EachOnce ==
  \A r \in Readers :
    /\ pc[r] \in {"scan", "count"} =>
         /\ i[r] = shown[r]
         /\ i[r] < N \/ kind[r] = "sequence" \/ (kind[r] = "debug" /\ i[r] = N)
    /\ pc[r] = "open" /\ Over(r) =>
         \/ shown[r] = IF kind[r] = "debug" THEN N + 1 ELSE N
         \/ kind[r] = "scullmem" /\ r \in cut
=============================================================================
