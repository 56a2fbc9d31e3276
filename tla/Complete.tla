------------------------------ MODULE Complete ------------------------------
(***************************************************************************)
(* complete.c: a reader waits for the completion comp, a write completes   *)
(* it once.  What wait_for_completion and complete do under the lock of    *)
(* the completion is one step each.                                        *)
(***************************************************************************)
EXTENDS Integers, FiniteSets

CONSTANTS Procs, MaxDone   \* bound: writes that nobody has read for

VARIABLES
  loaded,
  done,        \* comp.done
  wait,        \* the readers asleep
  woken        \* those woken that have not yet looked again

vars == <<loaded, done, wait, woken>>

Init == loaded = FALSE /\ done = 0 /\ wait = {} /\ woken = {}

\* complete() wakes one reader that is still asleep.
OnceMutant == IF wait = {} \/ done > 0 THEN {{}} ELSE {{p} : p \in wait}
Chosen == IF wait = {} THEN {{}} ELSE {{p} : p \in wait}

complete_init == ~loaded /\ loaded' = TRUE /\ UNCHANGED <<done, wait, woken>>

complete_cleanup ==
  /\ loaded /\ wait = {} /\ woken = {}
  /\ loaded' = FALSE /\ done' = 0 /\ UNCHANGED <<wait, woken>>

\* A signal does not end the wait.
complete_read(p) ==
  /\ loaded /\ p \notin wait
  /\ IF done > 0 THEN done' = done - 1 /\ UNCHANGED wait
     ELSE wait' = wait \cup {p} /\ UNCHANGED done
  /\ woken' = woken \ {p} /\ UNCHANGED loaded

complete_write ==
  /\ loaded /\ done < MaxDone /\ done' = done + 1
  /\ \E ps \in Chosen : wait' = wait \ ps /\ woken' = woken \cup ps
  /\ UNCHANGED loaded

Next ==
  \/ complete_init \/ complete_cleanup \/ complete_write
  \/ \E p \in Procs : complete_read(p)

-----------------------------------------------------------------------------
TypeOK ==
  /\ loaded \in BOOLEAN /\ done \in 0..MaxDone
  /\ wait \subseteq Procs /\ woken \subseteq Procs /\ wait \cap woken = {}

\* As long as somebody sleeps, every completion not yet taken has a reader on its
\* way to take it, even when readers that have just come take some first.
CompletionsCovered == wait # {} => Cardinality(woken) >= done
=============================================================================
