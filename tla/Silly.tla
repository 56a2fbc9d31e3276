------------------------------- MODULE Silly -------------------------------
(***************************************************************************)
(* silly.c: reading and writing the I/O memory between ISA_BASE and        *)
(* ISA_MAX in units of the minor number.                                   *)
(***************************************************************************)
EXTENDS Integers

CONSTANTS
  Base,      \* ISA_BASE
  Window,    \* ISA_MAX - ISA_BASE
  ULong,     \* 2^64: the range of count and isa_addr
  Efault,    \* the error number, a positive one
  Largest,   \* what kmalloc can give at most
  MaxCount   \* bound: bytes a caller asks for

VARIABLES
  loaded,    \* register_chrdev has succeeded
  open,      \* the minor number of the file that is open, or -1
  f_pos,
  call,      \* the call that is about to return: "none", "read", "write" or "fault"
  range,     \* the addresses it was about
  moved,     \* the addresses it accessed
  leaked     \* whether a buffer was never freed

vars == <<loaded, open, f_pos, call, range, moved, leaked>>

Init ==
  /\ loaded = FALSE /\ open = -1 /\ f_pos = 0
  /\ call = "none" /\ range = {} /\ moved = {} /\ leaked = FALSE

-----------------------------------------------------------------------------
ISA_MAX == Base + Window

\* ISA_BASE + *f_pos, an unsigned long
isa_addr(pos) == (Base + pos) % ULong

From(a, n) == {a + k : k \in 0..n - 1}

\* What is left of count, a size_t, at address a: beyond the window it gets huge,
\* and never negative, as the comment in the code expects.
UncutMutant(a, n) == n
Cut(a, n) == IF a + n > ISA_MAX THEN (ISA_MAX - a) % ULong ELSE n

\* The unit of a minor number, downgraded if the transfer is not aligned.
Aligned(unit, a, n) == a % unit = 0 /\ n % unit = 0
UnevenMutant(minor, a, n) == CASE minor = 2 -> 4 [] minor = 1 -> 2 [] OTHER -> 1
Unit(minor, a, n) ==
  IF minor = 2 /\ Aligned(4, a, n) THEN 4
  ELSE IF minor \in {1, 2} /\ Aligned(2, a, n) THEN 2
  ELSE 1

\* A write puts out only the first byte of each unit, with iowrite8; memcpy_toio,
\* for which Unit is 1, all of them.
Accessed(op, unit, a, n) ==
  IF op = "write" THEN {a + k * unit : k \in 0..(n \div unit) - 1}
  ELSE From(a, (n \div unit) * unit)

\* What the caller is told has been transferred.
Said == IF call = "fault" THEN {} ELSE range

-----------------------------------------------------------------------------
silly_init    == ~loaded /\ loaded' = TRUE /\ UNCHANGED <<open, f_pos, call, range, moved, leaked>>
silly_cleanup ==
  /\ loaded /\ open = -1 /\ loaded' = FALSE
  /\ UNCHANGED <<open, f_pos, call, range, moved, leaked>>

\* register_chrdev gives all the minor numbers to the driver; 4 stands for the rest.
silly_open ==
  /\ loaded /\ open = -1 /\ open' \in 0..4
  /\ UNCHANGED <<loaded, f_pos, call, range, moved, leaked>>

silly_release ==
  /\ open # -1 /\ call = "none" /\ open' = -1 /\ f_pos' = 0
  /\ UNCHANGED <<loaded, call, range, moved, leaked>>

\* A transfer of at most n bytes at a position, which the kernel makes sure is not
\* negative; done says whether the position of the file becomes *f_pos, as it does
\* not for pread and pwrite.  A read that copy_to_user lets down ("fault") has read
\* the memory, and adds -EFAULT to *f_pos.
Transfer(op, pos, n, done) ==
  LET a     == isa_addr(pos)
      count == Cut(a, n) IN
  /\ open # -1 /\ call = "none" /\ pos >= 0 /\ count <= Largest
  /\ IF open = 4                                \* -EINVAL
     THEN /\ leaked' = TRUE /\ UNCHANGED <<f_pos, call, range, moved>>
     ELSE /\ call' = op /\ UNCHANGED leaked
          /\ op = "fault" => count > 0
          /\ moved' = Accessed(op, Unit(open, a, count), a, count)
          /\ range' = From(a, count)
          /\ f_pos' = IF ~done THEN f_pos ELSE IF op = "fault" THEN pos - Efault ELSE pos + count
  /\ UNCHANGED <<loaded, open>>

\* Whether the position is stored when a call has failed depends on the kernel.
\* Not modelled, since nothing has changed that is seen here: -ENOMEM, which a
\* position beyond the window gets as well, and the -EFAULT and -EPERM of a write.
silly_read ==
  \E n \in 0..MaxCount :
    Transfer("read", f_pos, n, TRUE) \/ \E done \in BOOLEAN : Transfer("fault", f_pos, n, done)
silly_write == \E n \in 0..MaxCount : Transfer("write", f_pos, n, TRUE)
silly_pread ==
  \E n \in 0..MaxCount, pos \in 0..Window + 1, op \in {"read", "fault"} :
    Transfer(op, pos, n, FALSE)
silly_pwrite == \E n \in 0..MaxCount, pos \in 0..Window + 1 : Transfer("write", pos, n, FALSE)

Return ==
  /\ call # "none" /\ call' = "none" /\ range' = {} /\ moved' = {}
  /\ UNCHANGED <<loaded, open, f_pos, leaked>>

Next ==
  \/ Return
  \/ silly_init \/ silly_cleanup \/ silly_open \/ silly_release
  \/ silly_read \/ silly_write \/ silly_pread \/ silly_pwrite

-----------------------------------------------------------------------------
TypeOK ==
  /\ {loaded, leaked} \subseteq BOOLEAN /\ open \in -1..4 /\ f_pos \in -Efault..Window
  /\ call \in {"none", "read", "write", "fault"} /\ range \subseteq Int /\ moved \subseteq Int

\* Nothing outside of the window is touched, wherever the position is, even where a
\* failed read has moved it.  What a read returns it has read, byte by byte, and a
\* read that returns nothing for what it has read has met -EFAULT.  A write that
\* reports a byte and has not put it out ("minor 1 uses ioread16/iowrite16",
\* silly.c:48, it does not) has left out the upper bytes of a unit.
TransfersExplained ==
  /\ range \subseteq Base..ISA_MAX - 1 /\ moved \subseteq range
  /\ moved \subseteq Said \/ call = "fault"
  /\ \A a \in Said \ moved : call = "write" /\ open \in {1, 2} /\ a % 4 # 0
=============================================================================
