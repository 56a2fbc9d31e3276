------------------------------ MODULE PipeFifo ------------------------------
(***************************************************************************)
(* What a scullpipe device promises to the processes that use it: a        *)
(* bounded queue of bytes.  A write appends bytes at the end, a read takes *)
(* bytes from the front and hands exactly those to the reader, and opening *)
(* the device empties the queue.  Nothing is said of pointers, locks, wait *)
(* queues or memory: ScullPipe is shown to implement this module.          *)
(***************************************************************************)
EXTENDS Naturals, Sequences

CONSTANTS
  Procs,      \* the processes that use the device
  Values,     \* the byte values they write
  Capacity    \* no queue is longer than this

VARIABLES
  users,      \* the processes that have the device open
  queue,      \* the bytes written and not read yet, oldest first
  taken       \* taken[p]: the bytes the read in progress has given to p

fifoVars == <<users, queue, taken>>

Init ==
  /\ users = {}
  /\ queue = <<>>
  /\ taken = [p \in Procs |-> <<>>]

(* Opening empties the queue, whoever else has the device open. *)
Open(p) ==
  /\ p \notin users
  /\ users' = users \cup {p}
  /\ queue' = <<>>
  /\ UNCHANGED taken

(* What is left in the queue survives a close, but not the last one. *)
Close(p) ==
  /\ p \in users
  /\ users' = users \ {p}
  /\ queue' = IF users = {p} THEN <<>> ELSE queue
  /\ UNCHANGED taken

Put(p) ==
  /\ p \in users
  /\ \E n \in 1 .. (Capacity - Len(queue)) :
       \E bytes \in [1 .. n -> Values] : queue' = queue \o bytes
  /\ UNCHANGED <<users, taken>>

Get(p) ==
  /\ p \in users
  /\ \E n \in 1 .. Len(queue) :
       /\ taken' = [taken EXCEPT ![p] = SubSeq(queue, 1, n)]
       /\ queue' = SubSeq(queue, n + 1, Len(queue))
  /\ UNCHANGED users

EndGet(p) ==
  /\ taken' = [taken EXCEPT ![p] = <<>>]
  /\ UNCHANGED <<users, queue>>

Next == \E p \in Procs : Open(p) \/ Close(p) \/ Put(p) \/ Get(p) \/ EndGet(p)

Spec == Init /\ [][Next]_fifoVars
=============================================================================
