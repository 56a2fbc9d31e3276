----------------------------- MODULE ScullIoctl -----------------------------
(***************************************************************************)
(* scull_ioctl and its two settings, scull_quantum and scull_qset, which   *)
(* no lock protects.  Get and Query only look and are left out, the size   *)
(* of the pipes is in ScullPipe.                                           *)
(***************************************************************************)
CONSTANTS
  Procs, Capable,   \* processes; those with CAP_SYS_ADMIN
  Values,           \* the ints a caller passes
  Initial,          \* Initial[s]: the module parameter
  Default,          \* Default[s]: SCULL_QUANTUM or SCULL_QSET
  Zero              \* what a failed copy leaves

Settings == {"scull_quantum", "scull_qset"}
Ints     == Values \cup {Zero} \cup {Initial[s] : s \in Settings} \cup {Default[s] : s \in Settings}

VARIABLES
  setting,    \* the two variables
  pc, on,     \* where a call is, and on which setting
  tmp,        \* its local
  replaced,   \* history: the value its store has replaced
  overtaken   \* history: the calls with another store between their load and their own

vars  == <<setting, pc, on, tmp, replaced, overtaken>>
local == <<on, tmp, replaced>>

Init ==
  /\ setting = [s \in Settings |-> Initial[s]]
  /\ pc = [p \in Procs |-> "out"] /\ on = [p \in Procs |-> "scull_quantum"]
  /\ tmp = [p \in Procs |-> Zero] /\ replaced = tmp /\ overtaken = {}

-----------------------------------------------------------------------------
\* if (! capable (CAP_SYS_ADMIN)) return -EPERM
AnybodyMutant(p) == TRUE
MayChange(p) == p \in Capable

\* tmp = scull_quantum
DefaultMutant(s) == Default[s]
Old(s) == setting[s]

Goto(p, from, to) == pc[p] = from /\ pc' = [pc EXCEPT ![p] = to]

\* A store by p.
Store(p, s, v) ==
  /\ setting' = [setting EXCEPT ![s] = v]
  /\ overtaken' = overtaken \cup
       {q \in Procs \ {p} : pc[q] \in {"exchange", "shift"} /\ on[q] = s}

\* The two stores of a reset, for which nobody needs a privilege.
Reset(p) ==
  /\ \/ Goto(p, "out", "reset") /\ Store(p, "scull_quantum", Default["scull_quantum"])
     \/ Goto(p, "reset", "out") /\ Store(p, "scull_qset", Default["scull_qset"])
  /\ UNCHANGED local

\* Set and Tell.  __get_user stores zero when it fails.
Set(p) ==
  /\ pc[p] = "out" /\ MayChange(p)
  /\ \E s \in Settings, v \in Values \cup {Zero} : Store(p, s, v)
  /\ UNCHANGED <<pc, local>>

\* eXchange and sHift begin with a copy of the old value.
Load(p) ==
  /\ MayChange(p)
  /\ \E s \in Settings, op \in {"exchange", "shift"} :
       /\ Goto(p, "out", op)
       /\ on' = [on EXCEPT ![p] = s] /\ tmp' = [tmp EXCEPT ![p] = Old(s)]
  /\ overtaken' = overtaken \ {p}
  /\ UNCHANGED <<setting, replaced>>

Replace(p) ==
  /\ \E v \in Values :
       /\ Goto(p, "exchange", "reply") \/ Goto(p, "shift", "reply")
       /\ Store(p, on[p], v)
  /\ replaced' = [replaced EXCEPT ![p] = setting[on[p]]]
  /\ UNCHANGED <<on, tmp>>

Forget(p) ==
  /\ on' = [on EXCEPT ![p] = "scull_quantum"]
  /\ tmp' = [tmp EXCEPT ![p] = Zero] /\ replaced' = [replaced EXCEPT ![p] = Zero]

\* An exchange that cannot get the new value is over, with zero stored.
Fail(p) ==
  /\ Goto(p, "exchange", "out") /\ Store(p, on[p], Zero) /\ Forget(p)

\* return tmp, or __put_user, which may fail as well: then nobody has the old value.
Reply(p) ==
  /\ Goto(p, "reply", "out") /\ Forget(p) /\ UNCHANGED <<setting, overtaken>>

Call(p) == Reset(p) \/ Set(p) \/ Load(p) \/ Replace(p) \/ Fail(p) \/ Reply(p)

Next == \E p \in Procs : Call(p)

Spec == Init /\ [][Next]_vars

-----------------------------------------------------------------------------
TypeOK ==
  /\ setting \in [Settings -> Ints]
  /\ pc \in [Procs -> {"out", "reset", "exchange", "shift", "reply"}]
  /\ on \in [Procs -> Settings] /\ tmp \in [Procs -> Ints]
  /\ replaced \in [Procs -> Ints] /\ overtaken \subseteq Procs

\* "switch G and S atomically" (scull.h:150): the value an exchange or a shift is
\* going to hand back is the one its own store replaced, so that of all the values
\* ever set none is reported twice and none is skipped, unless another store came
\* between its two steps.
OldValueKept ==
  \A p \in Procs : pc[p] = "reply" => tmp[p] = replaced[p] \/ p \in overtaken
=============================================================================
