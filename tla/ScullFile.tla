----------------------------- MODULE ScullFile -----------------------------
(***************************************************************************)
(* What a scull device promises to the processes that use it: a sparse     *)
(* file.  What was written at a position is read back there; a position    *)
(* nobody wrote may be a hole, where reading stops, or hold bytes of       *)
(* nobody's; opening the device write-only empties it.  Nothing is said of *)
(* quanta, quantum sets, locks or memory: ScullDev implements this module. *)
(***************************************************************************)
EXTENDS Naturals, Sequences

CONSTANTS
  Procs,      \* the processes that use the device
  WriteOnly,  \* those that open it write-only
  Values,     \* the byte values they write
  Junk,       \* a byte nobody wrote
  Hole,       \* what is at a position where nothing is stored
  MaxPos      \* positions go up to here

VARIABLES
  length,     \* where the file ends
  content,    \* what is at each position
  pos,        \* pos[p]: the position of p's file
  got         \* got[p]: what the read in progress has given to p

fileVars == <<length, content, pos, got>>

Init ==
  /\ length = 0
  /\ content = [k \in 0 .. MaxPos - 1 |-> Hole]
  /\ pos = [p \in Procs |-> 0]
  /\ got = [p \in Procs |-> <<>>]

\* A file that is closed is opened again at its beginning.
Close(p) ==
  /\ pos' = [pos EXCEPT ![p] = 0]
  /\ UNCHANGED <<length, got, content>>

Truncate ==
  /\ WriteOnly # {}
  /\ length' = 0
  /\ content' = [k \in 0 .. MaxPos - 1 |-> Hole]
  /\ UNCHANGED <<pos, got>>

Seek(p) ==
  /\ \E k \in 0 .. MaxPos : pos' = [pos EXCEPT ![p] = k]
  /\ UNCHANGED <<length, got, content>>

Run(p, n) == pos[p] .. (pos[p] + n - 1)

\* Outside the run nothing changes, but that a hole may fill up with junk.
StoreOnly(run, bytes) ==
  /\ DOMAIN content' = DOMAIN content
  /\ \A k \in run : content'[k] \in bytes
  /\ \A k \in DOMAIN content \ run :
       content'[k] = content[k] \/ (content[k] = Hole /\ content'[k] = Junk)

Write(p) ==
  /\ UNCHANGED got
  /\ \E n \in 1 .. (MaxPos - pos[p]) :
       /\ pos' = [pos EXCEPT ![p] = @ + n]
       /\ length' = IF length < pos[p] + n THEN pos[p] + n ELSE length
       /\ StoreOnly(Run(p, n), Values)

\* A write that fails under way has spoilt what it was about to overwrite.
Spoil(p) ==
  /\ UNCHANGED <<length, pos, got>>
  /\ \E n \in 1 .. (MaxPos - pos[p]) : StoreOnly(Run(p, n), {Junk})

Read(p) ==
  /\ \E n \in 1 .. (MaxPos - pos[p]) :
       /\ pos' = [pos EXCEPT ![p] = @ + n]
       /\ pos[p] + n <= length
       /\ \A k \in Run(p, n) : content[k] # Hole
       /\ got' = [got EXCEPT ![p] = [i \in 1 .. n |-> content[pos[p] + i - 1]]]
  /\ UNCHANGED <<length, content>>

\* Only the end of the file and a hole make a read return nothing.
ReadNothing(p) ==
  /\ got' = [got EXCEPT ![p] = <<Hole>>]
  /\ pos[p] >= length \/ content[pos[p]] = Hole
  /\ UNCHANGED <<length, content, pos>>

Done(p) ==
  /\ got' = [got EXCEPT ![p] = <<>>]
  /\ UNCHANGED <<length, pos, content>>

Next ==
  \/ Truncate
  \/ \E p \in Procs :
       \/ Close(p) \/ Seek(p) \/ Write(p) \/ Spoil(p)
       \/ Read(p) \/ ReadNothing(p) \/ Done(p)

Spec == Init /\ [][Next]_fileVars
=============================================================================
