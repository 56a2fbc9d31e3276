----------------------------- MODULE AsyncTest -----------------------------
(***************************************************************************)
(* asynctest.c, alone on a source that sends SIGIO with whatever arrives   *)
(* once FASYNC is set: it sleeps until a signal, reads at most one buffer  *)
(* and sleeps again.                                                       *)
(***************************************************************************)
EXTENDS Integers

CONSTANTS Chunk,      \* 4096
          MaxAvail    \* bound: what may be waiting on stdin

VARIABLES
  pc, gotdata,
  avail,        \* on stdin
  sigio,        \* pending
  early,        \* history: data was there when FASYNC was set, and nothing has been read
  more,         \* history: the last read did not take everything
  interrupted,  \* history: the last read came back with -EINTR
  missed        \* history: the handler has run since the last read, outside of sleep

history == <<early, more, interrupted, missed>>
vars    == <<pc, gotdata, avail, sigio, history>>

Init ==
  /\ pc = "setup" /\ gotdata = 0 /\ avail = 0 /\ sigio = FALSE
  /\ early = FALSE /\ more = FALSE /\ interrupted = FALSE /\ missed = FALSE

-----------------------------------------------------------------------------
\* if (!gotdata) continue
SeveralMutant == gotdata > 1
Got == gotdata > 0

Goto(from, to) == pc = from /\ pc' = to

\* Nobody is told of what arrives before FASYNC is set.
Arrive ==
  /\ avail < MaxAvail /\ avail' = avail + 1 /\ sigio' = (pc # "setup")
  /\ UNCHANGED <<pc, gotdata, history>>

\* F_SETOWN and FASYNC, behind the sigaction.
SetAsync ==
  /\ Goto("setup", "call") /\ early' = (avail > 0)
  /\ UNCHANGED <<gotdata, avail, sigio, more, interrupted, missed>>

\* The handler may run before any statement, and makes sleep return, and a read
\* that is waiting (sa_flags is 0, without SA_RESTART): the write of its -1 bytes
\* fails.  What gotdata is beyond 2 makes no difference.
sighandler ==
  /\ sigio /\ sigio' = FALSE
  /\ gotdata' = IF gotdata < 2 THEN gotdata + 1 ELSE gotdata
  /\ \/ /\ pc' = IF pc = "asleep" THEN "test" ELSE pc
        /\ UNCHANGED interrupted
     \/ Goto("read", "reset") /\ interrupted' = TRUE
  /\ missed' = (missed \/ pc \in {"call", "reset"})
  /\ UNCHANGED <<avail, early, more>>

Sleep == Goto("call", "asleep") /\ UNCHANGED <<gotdata, avail, sigio, history>>

Test ==
  /\ IF Got THEN Goto("test", "read") ELSE Goto("test", "call")
  /\ UNCHANGED <<gotdata, avail, sigio, history>>

\* read(0, buffer, 4096), which blocks while there is nothing.
Read ==
  /\ Goto("read", "reset") /\ avail > 0
  /\ avail' = IF avail > Chunk THEN avail - Chunk ELSE 0
  /\ more' = (avail > Chunk) /\ early' = FALSE /\ interrupted' = FALSE /\ missed' = FALSE
  /\ UNCHANGED <<gotdata, sigio>>

Reset == Goto("reset", "call") /\ gotdata' = 0 /\ UNCHANGED <<avail, sigio, history>>

Next == Arrive \/ SetAsync \/ sighandler \/ Sleep \/ Test \/ Read \/ Reset

-----------------------------------------------------------------------------
TypeOK ==
  /\ pc \in {"setup", "call", "asleep", "test", "read", "reset"} /\ gotdata \in 0..2
  /\ avail \in 0..MaxAvail /\ sigio \in BOOLEAN
  /\ {early, more, interrupted, missed} \subseteq BOOLEAN

\* "this only returns if a signal arrives" (asynctest.c:48).  That the program
\* sleeps beside data it could read has four reasons and no other: the data was
\* there before FASYNC was set; the last read has left some ("buggy: if avail data
\* is more than 4kbytes"); the last read was interrupted, and the signal that did
\* it forgotten by the reset; or a signal came between that read and the sleep,
\* where it is forgotten as well.
DataNoticed ==
  pc = "asleep" /\ avail > 0 => sigio \/ early \/ more \/ interrupted \/ missed
=============================================================================
