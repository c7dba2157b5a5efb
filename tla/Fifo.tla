-------------------------------- MODULE Fifo --------------------------------
(***************************************************************************)
(* What a pipe promises: a bounded queue of bytes.  Bytes are delivered    *)
(* once each and in the order in which they were written; they are thrown  *)
(* away only by a user who comes (with creat), and then all of them.       *)
(* Module Pipe (kernel/coh/pipe.c) implements it with a ring of blocks.    *)
(***************************************************************************)
EXTENDS Naturals, Sequences

CONSTANTS
  Values,  \* the bytes
  Size,    \* how many of them the pipe holds
  Users    \* who may read or write it

VARIABLES
  q,      \* the bytes in the pipe
  out,    \* the bytes the last transfer to a reader delivered
  users   \* those who have it open

Init == q = <<>> /\ out = <<>> /\ users \subseteq Users

\* A transfer from a writer.
Put(s) ==
  /\ Len(q) + Len(s) <= Size
  /\ q' = q \o s
  /\ UNCHANGED <<out, users>>

\* A transfer to a reader.
Get(n) ==
  /\ n <= Len(q)
  /\ out' = SubSeq(q, 1, n)
  /\ q' = SubSeq(q, n + 1, Len(q))
  /\ UNCHANGED users

\* A user comes, and may start the pipe afresh.
Enter(u) ==
  /\ u \notin users
  /\ users' = users \union {u}
  /\ q' \in {q, <<>>}
  /\ UNCHANGED out

Leave(u) ==
  /\ u \in users
  /\ users' = users \ {u}
  /\ UNCHANGED <<q, out>>

Next ==
  \/ \E n \in 0 .. Size : \E s \in [1 .. n -> Values] : Put(s)
  \/ \E n \in 0 .. Size : Get(n)
  \/ \E u \in Users : Enter(u) \/ Leave(u)

Spec == Init /\ [][Next]_<<q, out, users>>

=============================================================================
