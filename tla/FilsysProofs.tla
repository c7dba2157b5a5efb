---------------------------- MODULE FilsysProofs ----------------------------
(***************************************************************************)
(* Proofs about a file system's free list and super block, for any number  *)
(* of processes, files and blocks: a change of the free list does not stay *)
(* in core only, although sync clears s_fmod while balloc and bfree sleep; *)
(* a block is never in two files, nor in a file and in the free list; and  *)
(* a disk that is marked clean is consistent unless a sync has met a call. *)
(*                                                                         *)
(* The free list is a chain of blocks of numbers, its first link kept in   *)
(* the super block.  The proof reads it as a stack t of the free blocks,   *)
(* with the set B of the places of t at which a link is kept in the block  *)
(* itself; bfree pushes, balloc pops, and only s_tfree says where in the   *)
(* super block's link the top of the stack is.                             *)
(***************************************************************************)
EXTENDS Filsys, FiniteSetTheorems, SequenceTheorems, TLAPS

(***************************************************************************)
(* Sets of natural numbers have minima: the inductions below are about the *)
(* least number for which something fails.                                 *)
(***************************************************************************)
LEMMA LeastExists ==
  ASSUME NEW T \in SUBSET Nat, T # {}
  PROVE  \E m \in T : \A k \in T : m <= k
  <1> DEFINE R == OpToRel(<, Nat)
  <1>1. \A x, y \in Nat : <<x, y>> \in R <=> x < y
    BY Zenon DEF OpToRel
  <1>2. IsWellFoundedOn(R, Nat)
    BY NatLessThanWellFounded, Zenon
  <1> HIDE DEF R
  <1>3. PICK m \in T : \A y \in T : ~ (<<y, m>> \in R)
    BY <1>2, WFMin, Zenon
  <1>4. \A y \in T : m <= y
    <2> TAKE y \in T
    <2>1. ~ (y < m)
      BY <1>1, <1>3, Zenon
    <2> QED
      BY <2>1
  <1> QED
    BY <1>4, Zenon

\* Induction up to n, over a set.
LEMMA Steps ==
  ASSUME NEW m \in Nat, NEW G, 0 \in G, \A k \in 1 .. m : k - 1 \in G => k \in G
  PROVE  \A k \in 0 .. m : k \in G
  <1> DEFINE T == {k \in Nat : k <= m /\ k \notin G}
  <1> SUFFICES ASSUME T # {} PROVE FALSE
    OBVIOUS
  <1>1. T \in SUBSET Nat
    OBVIOUS
  <1>2. PICK k \in T : \A j \in T : k <= j
    <2> HIDE DEF T
    <2> QED
      BY <1>1, LeastExists
  <1>3. k \in 1 .. m /\ k \notin G
    OBVIOUS
  <1>4. k - 1 \in G
    <2>1. k - 1 \in Nat /\ k - 1 <= m /\ ~(k <= k - 1)
      BY <1>3
    <2> QED
      BY <1>2, <2>1
  <1> QED
    BY <1>3, <1>4


-----------------------------------------------------------------------------
(* The free list as a stack: bfree pushes a block, balloc pops one.        *)

\* l is the list below place e of the stack t: it reaches down to a block that
\* is itself at one of the places B of chain blocks, or to the bottom.
Linked(t, B, e, l) ==
  /\ l \in Seq(Blocks) /\ Len(l) < e
  /\ Len(l) = 0 <=> e = 1
  /\ Len(l) > 0 => e - Len(l) \in B
  /\ \A j \in 1 .. Len(l) : l[j] = t[e - Len(l) - 1 + j]

\* The blocks of the free list, when chain blocks hold what blk says.
Stack(t, B, list, blk) ==
  /\ t \in Seq(Blocks)
  /\ \A e \in B : e \in 1 .. Len(t) /\ Linked(t, B, e, blk[t[e]])
  /\ Linked(t, B, Len(t) + 1, list)

\* A list depends on what is below it.
LEMMA LinkedBelow ==
  ASSUME NEW t, NEW B, NEW u, NEW C, NEW e \in Nat, NEW l, Linked(t, B, e, l),
         \A i \in 1 .. e - 1 : u[i] = t[i] /\ (i \in B => i \in C)
  PROVE  Linked(u, C, e, l)
  <1>1. /\ l \in Seq(Blocks) /\ Len(l) < e /\ Len(l) \in Nat
        /\ Len(l) = 0 <=> e = 1
        /\ Len(l) > 0 => e - Len(l) \in B
        /\ \A j \in 1 .. Len(l) : l[j] = t[e - Len(l) - 1 + j]
    BY DEF Linked
  <1>2. ASSUME NEW j \in 1 .. Len(l) PROVE l[j] = u[e - Len(l) - 1 + j]
    <2>1. PICK i : i = e - Len(l) - 1 + j
      OBVIOUS
    <2>2. i \in 1 .. e - 1
      BY <1>1, <2>1
    <2> QED
      BY <1>1, <2>1, <2>2
  <1>3. ASSUME Len(l) > 0 PROVE e - Len(l) \in C
    <2>1. e - Len(l) \in 1 .. e - 1
      BY <1>1, <1>3
    <2> QED
      BY <1>1, <1>3, <2>1
  <1> QED
    BY <1>1, <1>2, <1>3 DEF Linked

LEMMA StackTyped ==
  ASSUME NEW t, NEW B, NEW list, NEW blk, Stack(t, B, list, blk)
  PROVE  /\ t \in Seq(Blocks) /\ Len(t) \in Nat /\ list \in Seq(Blocks)
         /\ Len(list) \in Nat /\ Len(list) <= Len(t)
         /\ list = <<>> <=> Len(list) = 0
         /\ Len(list) = 0 <=> Len(t) = 0
         /\ t = <<>> <=> Len(t) = 0
         /\ \A i \in 1 .. Len(t) : t[i] \in Blocks
  <1>1. t \in Seq(Blocks) /\ list \in Seq(Blocks)
    BY DEF Stack, Linked
  <1>2. /\ Len(t) \in Nat /\ Len(list) \in Nat
        /\ list = <<>> <=> Len(list) = 0
        /\ t = <<>> <=> Len(t) = 0
    BY <1>1, EmptySeq
  <1>3. Len(list) < Len(t) + 1 /\ (Len(list) = 0 <=> Len(t) + 1 = 1)
    BY DEF Stack, Linked
  <1> QED
    BY <1>1, <1>2, <1>3, ElementOfSeq

\* A list that is not empty shows the top.
LEMMA StackTop ==
  ASSUME NEW t, NEW B, NEW list, NEW blk, Stack(t, B, list, blk), list # <<>>
  PROVE  /\ Last(list) = t[Len(t)] /\ t[Len(t)] \in Blocks /\ Last(list) = list[Len(list)]
         /\ Len(list) > 0 /\ Len(t) > 0 /\ t # <<>>
  <1>1. /\ Len(list) \in Nat /\ Len(list) > 0 /\ Len(t) \in Nat /\ Len(t) > 0
        /\ t[Len(t)] \in Blocks /\ t # <<>>
    BY StackTyped
  <1>2. list[Len(list)] = t[Len(t) + 1 - Len(list) - 1 + Len(list)]
    BY <1>1 DEF Stack, Linked
  <1>3. Len(t) + 1 - Len(list) - 1 + Len(list) = Len(t)
    BY <1>1
  <1> QED
    BY <1>1, <1>2, <1>3 DEF Last

LEMMA FrontSeq ==
  ASSUME NEW S, NEW s \in Seq(S), s # <<>>
  PROVE  /\ Front(s) \in Seq(S) /\ Len(Front(s)) = Len(s) - 1
         /\ \A i \in 1 .. Len(s) - 1 : Front(s)[i] = s[i]
         /\ Len(s) \in Nat \ {0} /\ Last(s) = s[Len(s)] /\ s[Len(s)] \in S
  <1>1. Len(s) \in Nat \ {0}
    BY EmptySeq
  <1>2. \A i \in 1 .. Len(s) : s[i] \in S
    BY ElementOfSeq
  <1>3. /\ SubSeq(s, 1, Len(s) - 1) \in Seq(S)
        /\ Len(SubSeq(s, 1, Len(s) - 1)) = IF 1 <= Len(s) - 1 THEN Len(s) - 1 - 1 + 1 ELSE 0
        /\ \A i \in 1 .. Len(s) - 1 - 1 + 1 : SubSeq(s, 1, Len(s) - 1)[i] = s[1 + i - 1]
    <2>1. \A i \in 1 .. Len(s) - 1 : s[i] \in S
      BY <1>1, <1>2
    <2>2. 1 \in Int /\ Len(s) - 1 \in Int
      BY <1>1
    <2> QED
      BY <2>1, <2>2, SubSeqProperties
  <1>4. \A i \in 1 .. Len(s) - 1 : SubSeq(s, 1, Len(s) - 1)[i] = s[i]
    BY <1>1, <1>3
  <1>5. Len(SubSeq(s, 1, Len(s) - 1)) = Len(s) - 1
    <2>1. PICK k : k = Len(s) /\ k \in Nat \ {0}
      BY <1>1
    <2>2. (IF 1 <= k - 1 THEN k - 1 - 1 + 1 ELSE 0) = k - 1
      BY <2>1
    <2> QED
      BY <1>3, <2>1, <2>2
  <1> QED
    BY <1>1, <1>2, <1>3, <1>4, <1>5 DEF Front, Last

\* balloc takes a block and leaves some in the list.
LEMMA PopList ==
  ASSUME NEW t, NEW B, NEW list, NEW blk, Stack(t, B, list, blk), Len(list) > 1
  PROVE  Stack(Front(t), B \ {Len(t)}, Front(list), blk)
  <1>1. /\ t \in Seq(Blocks) /\ list \in Seq(Blocks) /\ Len(t) \in Nat
        /\ Len(list) \in Nat /\ Len(list) <= Len(t) /\ t # <<>> /\ list # <<>>
        /\ 1 < Len(list)
    BY StackTyped
  <1>2. PICK u : u = Front(t)
    OBVIOUS
  <1>3. PICK l : l = Front(list)
    OBVIOUS
  <1>4. PICK C : C = B \ {Len(t)}
    OBVIOUS
  <1>5. /\ u \in Seq(Blocks) /\ Len(u) = Len(t) - 1
        /\ \A i \in 1 .. Len(t) - 1 : u[i] = t[i]
    BY <1>1, <1>2, FrontSeq
  <1>6. /\ l \in Seq(Blocks) /\ Len(l) = Len(list) - 1
        /\ \A i \in 1 .. Len(list) - 1 : l[i] = list[i]
    BY <1>1, <1>3, FrontSeq
  <1>7. \A i \in 1 .. Len(t) - 1 : u[i] = t[i] /\ (i \in B => i \in C)
    BY <1>1, <1>4, <1>5
  <1>8. Linked(u, C, Len(u) + 1, l)
    <2>1. /\ Len(t) + 1 - Len(list) \in B
          /\ \A j \in 1 .. Len(list) : list[j] = t[Len(t) + 1 - Len(list) - 1 + j]
      <3>1. Linked(t, B, Len(t) + 1, list)
        BY DEF Stack
      <3>2. Len(list) > 0
        BY <1>1
      <3> QED
        BY <3>1, <3>2 DEF Linked
    <2>2. ASSUME NEW j \in 1 .. Len(l) PROVE l[j] = u[Len(u) + 1 - Len(l) - 1 + j]
      <3>1. PICK i : i = Len(t) - Len(list) + j
        OBVIOUS
      <3>2. /\ j \in 1 .. Len(list) - 1 /\ j \in 1 .. Len(list)
            /\ i \in 1 .. Len(t) - 1 /\ i = Len(t) + 1 - Len(list) - 1 + j
            /\ i = Len(u) + 1 - Len(l) - 1 + j
        BY <1>1, <1>5, <1>6, <3>1
      <3> QED
        BY <1>5, <1>6, <2>1, <3>2
    <2>3. Len(u) + 1 - Len(l) \in C
      <3>1. Len(u) + 1 - Len(l) = Len(t) + 1 - Len(list)
            /\ Len(t) + 1 - Len(list) \in 1 .. Len(t) - 1
        BY <1>1, <1>5, <1>6
      <3> QED
        BY <1>7, <2>1, <3>1
    <2>4. Len(l) < Len(u) + 1 /\ Len(l) # 0 /\ Len(u) + 1 # 1
      <3>1. PICK k, m : k = Len(list) /\ m = Len(t)
        OBVIOUS
      <3>2. k \in Nat /\ m \in Nat /\ 1 < k /\ k <= m /\ Len(l) = k - 1 /\ Len(u) = m - 1
        BY <1>1, <1>5, <1>6, <3>1
      <3> QED
        BY <3>2
    <2> QED
      BY <1>6, <2>2, <2>3, <2>4 DEF Linked
  <1>9. ASSUME NEW e \in C PROVE e \in 1 .. Len(u) /\ Linked(u, C, e, blk[u[e]])
    <2>1. e \in B /\ e \in 1 .. Len(t) /\ e # Len(t) /\ Linked(t, B, e, blk[t[e]])
      BY <1>4 DEF Stack
    <2>2. e \in 1 .. Len(u) /\ u[e] = t[e] /\ e \in Nat
      <3>1. e \in 1 .. Len(t) - 1
        BY <1>1, <2>1
      <3> QED
        BY <1>5, <3>1
    <2>3. \A i \in 1 .. e - 1 : u[i] = t[i] /\ (i \in B => i \in C)
      BY <1>1, <1>5, <1>7, <2>2
    <2> QED
      BY <2>1, <2>2, <2>3, LinkedBelow
  <1> QED
    BY <1>2, <1>3, <1>4, <1>5, <1>8, <1>9 DEF Stack

\* balloc takes the only block of the list, which holds the next one.
LEMMA PopChain ==
  ASSUME NEW t, NEW B, NEW list, NEW blk, Stack(t, B, list, blk), Len(list) = 1
  PROVE  Stack(Front(t), B \ {Len(t)}, blk[t[Len(t)]], blk)
  <1>1. /\ t \in Seq(Blocks) /\ Len(t) \in Nat /\ t # <<>> /\ Len(t) > 0
    BY StackTyped
  <1>2. PICK u : u = Front(t)
    OBVIOUS
  <1>4. PICK C : C = B \ {Len(t)}
    OBVIOUS
  <1>5. /\ u \in Seq(Blocks) /\ Len(u) = Len(t) - 1
        /\ \A i \in 1 .. Len(t) - 1 : u[i] = t[i]
    BY <1>1, <1>2, FrontSeq
  <1>7. \A i \in 1 .. Len(t) - 1 : u[i] = t[i] /\ (i \in B => i \in C)
    BY <1>1, <1>4, <1>5
  <1>6. Len(t) \in B
    <2>1. Len(t) + 1 - 1 \in B
      BY DEF Stack, Linked
    <2> QED
      BY <1>1, <2>1
  <1>9. ASSUME NEW e \in B
        PROVE  /\ Linked(u, C, e, blk[t[e]])
               /\ e \in C => e \in 1 .. Len(u) /\ u[e] = t[e]
    <2>1. e \in 1 .. Len(t) /\ Linked(t, B, e, blk[t[e]])
      BY DEF Stack
    <2>2. e \in C => e \in 1 .. Len(u) /\ u[e] = t[e]
      BY <1>1, <1>4, <1>5, <2>1
    <2>3. e \in Nat /\ \A i \in 1 .. e - 1 : u[i] = t[i] /\ (i \in B => i \in C)
      BY <1>1, <1>5, <1>7, <2>1
    <2> QED
      BY <2>1, <2>2, <2>3, LinkedBelow
  <1>10. Linked(u, C, Len(u) + 1, blk[t[Len(t)]])
    <2>1. Len(u) + 1 = Len(t)
      BY <1>1, <1>5
    <2> QED
      BY <1>6, <1>9, <2>1
  <1>11. \A e \in C : e \in B
    BY <1>4
  <1> QED
    BY <1>2, <1>4, <1>5, <1>9, <1>10, <1>11 DEF Stack

\* What a block that is not in the stack holds does not matter.
LEMMA StackFrame ==
  ASSUME NEW t, NEW B, NEW list, NEW blk, NEW blk2, Stack(t, B, list, blk),
         \A i \in 1 .. Len(t) : blk2[t[i]] = blk[t[i]]
  PROVE  Stack(t, B, list, blk2)
  BY DEF Stack

LEMMA AppendSeq ==
  ASSUME NEW S, NEW s \in Seq(S), NEW b \in S
  PROVE  /\ Append(s, b) \in Seq(S) /\ Len(Append(s, b)) = Len(s) + 1
         /\ Append(s, b)[Len(s) + 1] = b
         /\ \A i \in 1 .. Len(s) : Append(s, b)[i] = s[i]
         /\ Len(s) \in Nat
  OBVIOUS

\* bfree puts a block on a list that has some.
LEMMA PushList ==
  ASSUME NEW t, NEW B, NEW list, NEW blk, Stack(t, B, list, blk), NEW b \in Blocks,
         list # <<>>
  PROVE  Stack(Append(t, b), B, Append(list, b), blk)
  <1>1. /\ t \in Seq(Blocks) /\ list \in Seq(Blocks) /\ Len(t) \in Nat
        /\ Len(list) \in Nat /\ Len(list) <= Len(t) /\ Len(list) > 0
    BY StackTyped
  <1>3. PICK u : u = Append(t, b)
    OBVIOUS
  <1>4. PICK l : l = Append(list, b)
    OBVIOUS
  <1>5. /\ u \in Seq(Blocks) /\ Len(u) = Len(t) + 1 /\ u[Len(t) + 1] = b
        /\ \A i \in 1 .. Len(t) : u[i] = t[i]
    BY <1>1, <1>3, AppendSeq
  <1>6. /\ l \in Seq(Blocks) /\ Len(l) = Len(list) + 1 /\ l[Len(list) + 1] = b
        /\ \A i \in 1 .. Len(list) : l[i] = list[i]
    BY <1>1, <1>4, AppendSeq
  <1>8. Linked(u, B, Len(u) + 1, l)
    <2>1. /\ Len(t) + 1 - Len(list) \in B
          /\ \A j \in 1 .. Len(list) : list[j] = t[Len(t) + 1 - Len(list) - 1 + j]
      BY <1>1 DEF Stack, Linked
    <2>2. ASSUME NEW j \in 1 .. Len(l) PROVE l[j] = u[Len(u) + 1 - Len(l) - 1 + j]
      <3>0. j \in Int /\ 1 <= j /\ j <= Len(list) + 1
        BY <1>1, <1>6
      <3>1. PICK i : i = Len(t) - Len(list) + j
        OBVIOUS
      <3>2. i = Len(u) + 1 - Len(l) - 1 + j /\ i = Len(t) + 1 - Len(list) - 1 + j
        BY <1>1, <1>5, <1>6, <3>0, <3>1
      <3>3. CASE j = Len(list) + 1
        <4>1. i = Len(t) + 1
          BY <1>1, <3>1, <3>3
        <4> QED
          BY <1>5, <1>6, <3>2, <3>3, <4>1
      <3>4. CASE j <= Len(list)
        <4>1. i \in 1 .. Len(t) /\ j \in 1 .. Len(list)
          BY <1>1, <3>0, <3>1, <3>4
        <4> QED
          BY <1>5, <1>6, <2>1, <3>2, <4>1
      <3> QED
        BY <1>1, <3>0, <3>3, <3>4
    <2>3. Len(u) + 1 - Len(l) \in B
      <3>1. Len(u) + 1 - Len(l) = Len(t) + 1 - Len(list)
        BY <1>1, <1>5, <1>6
      <3> QED
        BY <2>1, <3>1
    <2>4. Len(l) < Len(u) + 1 /\ Len(l) # 0 /\ Len(u) + 1 # 1
      BY <1>1, <1>5, <1>6
    <2> QED
      BY <1>6, <2>2, <2>3, <2>4 DEF Linked
  <1>9. ASSUME NEW e \in B PROVE e \in 1 .. Len(u) /\ Linked(u, B, e, blk[u[e]])
    <2>1. e \in 1 .. Len(t) /\ Linked(t, B, e, blk[t[e]])
      BY DEF Stack
    <2>2. e \in 1 .. Len(u) /\ u[e] = t[e] /\ e \in Nat
      BY <1>1, <1>5, <2>1
    <2>3. \A i \in 1 .. e - 1 : u[i] = t[i] /\ (i \in B => i \in B)
      BY <1>1, <1>5, <2>1
    <2> QED
      BY <2>1, <2>2, <2>3, LinkedBelow
  <1> QED
    BY <1>3, <1>4, <1>5, <1>8, <1>9 DEF Stack

\* bfree puts a block that holds the list on an empty one.
LEMMA PushChain ==
  ASSUME NEW t, NEW B, NEW blk, NEW b \in Blocks, Stack(t, B, blk[b], blk)
  PROVE  Stack(Append(t, b), B \union {Len(t) + 1}, <<b>>, blk)
  <1>1. t \in Seq(Blocks) /\ Len(t) \in Nat
    BY DEF Stack
  <1>3. PICK u : u = Append(t, b)
    OBVIOUS
  <1>4. PICK l : l = <<b>>
    OBVIOUS
  <1>5. /\ u \in Seq(Blocks) /\ Len(u) = Len(t) + 1 /\ u[Len(t) + 1] = b
        /\ \A i \in 1 .. Len(t) : u[i] = t[i]
    BY <1>1, <1>3, AppendSeq
  <1>6. l \in Seq(Blocks) /\ Len(l) = 1 /\ l[1] = b
    BY <1>4
  <1>7. PICK C : C = B \union {Len(t) + 1}
    OBVIOUS
  <1>8. Linked(u, C, Len(u) + 1, l)
    <2>1. Len(u) + 1 - 1 = Len(t) + 1 /\ 1 < Len(u) + 1 /\ Len(u) + 1 # 1
          /\ Len(u) + 1 - 1 - 1 + 1 = Len(t) + 1
      BY <1>1, <1>5
    <2>2. \A j \in 1 .. Len(l) : j = 1
      BY <1>6
    <2> QED
      BY <1>5, <1>6, <1>7, <2>1, <2>2 DEF Linked
  <1>9. ASSUME NEW e \in C PROVE e \in 1 .. Len(u) /\ Linked(u, C, e, blk[u[e]])
    <2>1. e \in 1 .. Len(t) + 1 /\ Linked(t, B, e, blk[u[e]])
      <3>1. CASE e = Len(t) + 1
        BY <1>1, <1>5, <3>1 DEF Stack
      <3>2. CASE e \in B
        <4>1. e \in 1 .. Len(t) /\ Linked(t, B, e, blk[t[e]])
          BY <3>2 DEF Stack
        <4> QED
          BY <1>1, <1>5, <4>1
      <3> QED
        BY <1>7, <3>1, <3>2
    <2>3. e \in Nat /\ \A i \in 1 .. e - 1 : u[i] = t[i] /\ (i \in B => i \in C)
      BY <1>1, <1>5, <1>7, <2>1
    <2> QED
      BY <1>5, <2>1, <2>3, LinkedBelow
  <1> QED
    BY <1>3, <1>4, <1>5, <1>7, <1>8, <1>9 DEF Stack


-----------------------------------------------------------------------------
(* What Chain computes.                                                    *)

\* The blocks s, and those of the list in the last of them.
Grown(s, blk) ==
  IF s = <<>> \/ Len(s) > NBLOCK \/ Last(s) = DATA THEN s
  ELSE s \o Reverse(blk[Last(s)])

LEMMA ChainSteps ==
  ASSUME NEW list, NEW blk
  PROVE  \E from : /\ Chain(list, blk) = from[NBLOCK] /\ from[0] = Reverse(list)
                   /\ \A k \in 1 .. NBLOCK : from[k] = Grown(from[k - 1], blk)
  <1> DEFINE Loop(m, f) ==
        f = [k \in 0 .. m |-> IF k = 0 THEN Reverse(list) ELSE Grown(f[k - 1], blk)]
  <1>0. NBLOCK \in Nat
    BY FilsysAssumption
  <1>1. \E f : Loop(NBLOCK, f)
    <2> DEFINE T == {k \in Nat : ~ \E f : Loop(k, f)}
    <2> SUFFICES ASSUME T # {} PROVE FALSE
      BY <1>0
    <2>1. T \in SUBSET Nat
      OBVIOUS
    <2>2. PICK k \in T : \A j \in T : k <= j
      <3> HIDE DEF T
      <3> QED
        BY <2>1, LeastExists
    <2>3. k \in Nat /\ ~ \E f : Loop(k, f)
      OBVIOUS
    <2>4. CASE k = 0
      <3>1. Loop(0, [j \in 0 .. 0 |-> Reverse(list)])
        OBVIOUS
      <3> QED
        BY <2>3, <2>4, <3>1
    <2>5. CASE k # 0
      <3>1. k - 1 \in Nat /\ k - 1 \notin T
        <4>1. k - 1 \in Nat /\ ~ (k <= k - 1)
          BY <2>3, <2>5
        <4> HIDE DEF T
        <4> QED
          BY <2>2, <4>1
      <3>2. PICK f : Loop(k - 1, f)
        BY <3>1
      <3> DEFINE g == [j \in 0 .. k |-> IF j = k THEN Grown(f[k - 1], blk) ELSE f[j]]
      <3>3. \A j \in 0 .. k - 1 :
              f[j] = IF j = 0 THEN Reverse(list) ELSE Grown(f[j - 1], blk)
        BY <3>2
      <3>4. \A j \in 0 .. k : g[j] = IF j = 0 THEN Reverse(list) ELSE Grown(g[j - 1], blk)
        BY <2>3, <2>5, <3>3
      <3>5. Loop(k, g)
        BY <3>4
      <3> QED
        BY <2>3, <3>5
    <2> QED
      BY <2>4, <2>5
  <1> DEFINE from == CHOOSE f : Loop(NBLOCK, f)
  <1>2. Chain(list, blk) = from[NBLOCK]
    BY DEF Chain, Grown
  <1>3. Loop(NBLOCK, from)
    BY <1>1
  <1> HIDE DEF from
  <1>4. from[0] = Reverse(list) /\ \A k \in 1 .. NBLOCK : from[k] = Grown(from[k - 1], blk)
    BY <1>0, <1>3
  <1> QED
    BY <1>2, <1>4

LEMMA ReverseSeq ==
  ASSUME NEW S, NEW s \in Seq(S)
  PROVE  /\ Reverse(s) \in Seq(S) /\ Len(Reverse(s)) = Len(s) /\ Len(s) \in Nat
         /\ \A i \in 1 .. Len(s) : Reverse(s)[i] = s[Len(s) - i + 1]
         /\ \A i \in 1 .. Len(s) : s[i] = Reverse(s)[Len(s) - i + 1]
  <1>1. Len(s) \in Nat /\ \A i \in 1 .. Len(s) : s[i] \in S
    BY ElementOfSeq
  <1>2. PICK r : r = Reverse(s)
    OBVIOUS
  <1>3. r = [i \in 1 .. Len(s) |-> s[(Len(s) - i) + 1]]
    BY <1>2 DEF Reverse
  <1>4. ASSUME NEW i \in 1 .. Len(s)
        PROVE  /\ Len(s) - i + 1 \in 1 .. Len(s) /\ r[i] = s[Len(s) - i + 1] /\ r[i] \in S
               /\ Len(s) - (Len(s) - i + 1) + 1 = i
    BY <1>1, <1>3
  <1>5. r \in [1 .. Len(s) -> S]
    BY <1>3, <1>4
  <1>6. r \in Seq(S) /\ Len(r) = Len(s)
    BY <1>1, <1>5
  <1>7. \A i \in 1 .. Len(s) : s[i] = r[Len(s) - i + 1]
    BY <1>4
  <1> QED
    BY <1>1, <1>2, <1>4, <1>6, <1>7

\* The chain that a stack describes is the stack from the top down.
LEMMA ChainOfStack ==
  ASSUME NEW t, NEW B, NEW list, NEW blk, Stack(t, B, list, blk), Len(t) <= NBLOCK
  PROVE  Chain(list, blk) = Reverse(t)
  <1>0. NBLOCK \in Nat /\ DATA \notin Blocks
    BY FilsysAssumption
  <1>1. /\ t \in Seq(Blocks) /\ Len(t) \in Nat /\ list \in Seq(Blocks)
        /\ Len(list) \in Nat /\ Len(list) <= Len(t)
        /\ Len(list) = 0 <=> Len(t) = 0
        /\ \A i \in 1 .. Len(t) : t[i] \in Blocks
    BY StackTyped
  <1>2. PICK from : /\ Chain(list, blk) = from[NBLOCK] /\ from[0] = Reverse(list)
                    /\ \A k \in 1 .. NBLOCK : from[k] = Grown(from[k - 1], blk)
    BY ChainSteps
  <1> DEFINE Top(k) ==
        /\ from[k] \in Seq(Blocks) /\ Len(from[k]) <= Len(t)
        /\ \A i \in 1 .. Len(from[k]) : from[k][i] = t[Len(t) + 1 - i]
        /\ Len(from[k]) > 0 => Len(t) + 1 - Len(from[k]) \in B
        /\ Len(from[k]) = Len(t) \/ Len(from[k]) > k
  <1>3. Top(0)
    <2>1. PICK s : s = from[0]
      OBVIOUS
    <2>2. /\ s \in Seq(Blocks) /\ Len(s) = Len(list)
          /\ \A i \in 1 .. Len(list) : s[i] = list[Len(list) - i + 1]
      BY <1>1, <1>2, <2>1, ReverseSeq
    <2>3. /\ Len(list) > 0 => Len(t) + 1 - Len(list) \in B
          /\ \A j \in 1 .. Len(list) : list[j] = t[Len(t) + 1 - Len(list) - 1 + j]
      BY DEF Stack, Linked
    <2>4. ASSUME NEW i \in 1 .. Len(s) PROVE s[i] = t[Len(t) + 1 - i]
      <3>1. PICK j : j = Len(list) - i + 1
        OBVIOUS
      <3>2. /\ j \in 1 .. Len(list) /\ i \in 1 .. Len(list)
            /\ Len(t) + 1 - Len(list) - 1 + j = Len(t) + 1 - i
        <4>1. i \in 1 .. Len(list)
          BY <2>2
        <4> HIDE DEF Top
        <4> QED
          BY <1>1, <3>1, <4>1
      <3> QED
        BY <2>2, <2>3, <3>1, <3>2
    <2>5. Len(s) = Len(t) \/ Len(s) > 0
      BY <1>1, <2>2
    <2> QED
      BY <1>1, <2>1, <2>2, <2>3, <2>4, <2>5
  <1>4. ASSUME NEW k \in 1 .. NBLOCK, Top(k - 1) PROVE Top(k)
    <2>1. PICK s : s = from[k - 1]
      OBVIOUS
    <2>2. /\ s \in Seq(Blocks) /\ Len(s) <= Len(t) /\ Len(s) \in Nat
          /\ \A i \in 1 .. Len(s) : s[i] = t[Len(t) + 1 - i]
          /\ Len(s) > 0 => Len(t) + 1 - Len(s) \in B
          /\ Len(s) = Len(t) \/ Len(s) > k - 1
          /\ from[k] = Grown(s, blk)
      <3>1. from[k] = Grown(s, blk)
        BY <1>2, <2>1
      <3>2. /\ s \in Seq(Blocks) /\ Len(s) <= Len(t)
            /\ \A i \in 1 .. Len(s) : s[i] = t[Len(t) + 1 - i]
            /\ Len(s) > 0 => Len(t) + 1 - Len(s) \in B
            /\ Len(s) = Len(t) \/ Len(s) > k - 1
        BY <1>4, <2>1, Zenon
      <3>3. Len(s) \in Nat
        BY <3>2
      <3> QED
        BY <3>1, <3>2, <3>3
    <2> HIDE DEF Top
    <2>3. CASE Len(s) = 0
      <3>1. s = <<>>
        BY <2>2, <2>3, EmptySeq
      <3>2. from[k] = s /\ Len(t) = 0
        BY <1>1, <2>2, <2>3, <3>1 DEF Grown
      <3> QED
        BY <2>2, <2>3, <3>2 DEF Top
    <2>4. CASE Len(s) > 0
      <3>1. PICK e : e = Len(t) + 1 - Len(s)
        OBVIOUS
      <3>2. e \in B /\ e \in 1 .. Len(t) /\ Linked(t, B, e, blk[t[e]]) /\ e \in Nat
        BY <2>2, <2>4, <3>1 DEF Stack
      <3>3. Last(s) = t[e] /\ t[e] \in Blocks
        <4>1. Len(s) \in 1 .. Len(s)
          BY <2>2, <2>4
        <4> QED
          BY <1>1, <2>2, <3>1, <3>2, <4>1 DEF Last
      <3>4. PICK l : l = blk[t[e]]
        OBVIOUS
      <3>5. /\ l \in Seq(Blocks) /\ Len(l) < e /\ Len(l) \in Nat
            /\ Len(l) = 0 <=> e = 1
            /\ Len(l) > 0 => e - Len(l) \in B
            /\ \A j \in 1 .. Len(l) : l[j] = t[e - Len(l) - 1 + j]
        BY <3>2, <3>4 DEF Linked
      <3>6. s # <<>> /\ ~(Len(s) > NBLOCK) /\ Last(s) # DATA
        BY <1>0, <1>1, <2>2, <2>4, <3>3, EmptySeq
      <3>7. PICK r : r = Reverse(l)
        OBVIOUS
      <3>8. /\ r \in Seq(Blocks) /\ Len(r) = Len(l)
            /\ \A i \in 1 .. Len(l) : r[i] = l[Len(l) - i + 1]
        BY <3>5, <3>7, ReverseSeq
      <3>9. PICK u : u = from[k]
        OBVIOUS
      <3>10. u = s \o r
        BY <2>2, <3>3, <3>4, <3>6, <3>7, <3>9 DEF Grown
      <3>11. /\ u \in Seq(Blocks) /\ Len(u) = Len(s) + Len(l)
             /\ \A i \in 1 .. Len(s) + Len(l) : u[i] = IF i <= Len(s) THEN s[i] ELSE r[i - Len(s)]
        <4>1. s \in Seq(Blocks) /\ r \in Seq(Blocks)
          BY <2>2, <3>8
        <4>2. /\ s \o r \in Seq(Blocks) /\ Len(s \o r) = Len(s) + Len(r)
              /\ \A i \in 1 .. Len(s) + Len(r) :
                   (s \o r)[i] = IF i <= Len(s) THEN s[i] ELSE r[i - Len(s)]
          BY <4>1, ConcatProperties
        <4> QED
          BY <3>8, <3>10, <4>2
      <3>12. ASSUME NEW i \in 1 .. Len(u) PROVE u[i] = t[Len(t) + 1 - i]
        <4>0. i \in Nat /\ i \in 1 .. Len(s) + Len(l)
          BY <3>11
        <4>1. CASE i <= Len(s)
          <5>1. i \in 1 .. Len(s)
            BY <2>2, <4>0, <4>1
          <5> QED
            BY <2>2, <3>11, <4>0, <4>1, <5>1
        <4>2. CASE i > Len(s)
          <5>1. PICK m : m = i - Len(s)
            OBVIOUS
          <5>2. PICK j : j = Len(l) - m + 1
            OBVIOUS
          <5>3. /\ m \in 1 .. Len(l) /\ j \in 1 .. Len(l) /\ ~(i <= Len(s))
                /\ e - Len(l) - 1 + j = Len(t) + 1 - i
            BY <1>1, <2>2, <3>1, <3>5, <4>0, <4>2, <5>1, <5>2
          <5> QED
            BY <3>5, <3>8, <3>11, <4>0, <5>1, <5>2, <5>3
        <4> QED
          BY <2>2, <4>0, <4>1, <4>2
      <3>13. Len(u) <= Len(t) /\ Len(t) + 1 - Len(u) \in B
        <4>1. Len(t) + 1 - Len(u) = e - Len(l)
          BY <1>1, <2>2, <3>1, <3>5, <3>11
        <4>2. Len(u) <= Len(t)
          BY <1>1, <2>2, <3>1, <3>5, <3>11
        <4>3. CASE Len(l) = 0
          <5>1. e - Len(l) = e
            BY <3>2, <4>3
          <5> QED
            BY <3>2, <4>1, <4>2, <5>1
        <4>4. CASE Len(l) > 0
          <5>1. e - Len(l) \in B
            BY <3>5, <4>4
          <5> QED
            BY <4>1, <4>2, <5>1
        <4> QED
          BY <3>5, <4>3, <4>4
      <3>14. Len(u) = Len(t) \/ Len(u) > k
        <4>1. CASE Len(l) = 0
          BY <1>1, <2>2, <3>1, <3>5, <3>11, <4>1
        <4>2. CASE Len(l) > 0
          BY <1>1, <2>2, <3>1, <3>5, <3>11, <3>13, <4>2
        <4> QED
          BY <3>5, <4>1, <4>2
      <3> QED
        BY <3>9, <3>11, <3>12, <3>13, <3>14 DEF Top
    <2> QED
      BY <2>2, <2>3, <2>4
  <1>5. Top(NBLOCK)
    <2> DEFINE G == {k \in 0 .. NBLOCK : Top(k)}
    <2> HIDE DEF Top
    <2>1. 0 \in G
      BY <1>0, <1>3
    <2>2. ASSUME NEW k \in 1 .. NBLOCK, k - 1 \in G PROVE k \in G
      BY <1>0, <1>4, <2>2
    <2>3. NBLOCK \in 0 .. NBLOCK
      BY <1>0
    <2> HIDE DEF G
    <2>4. NBLOCK \in G
      BY <1>0, <2>1, <2>2, <2>3, Steps
    <2> QED
      BY <2>4 DEF G
  <1>6. PICK c : c = from[NBLOCK]
    OBVIOUS
  <1>7. /\ c \in Seq(Blocks) /\ Len(c) = Len(t)
        /\ \A i \in 1 .. Len(t) : c[i] = t[Len(t) + 1 - i]
    BY <1>0, <1>1, <1>5, <1>6
  <1>8. PICK r : r = Reverse(t)
    OBVIOUS
  <1>9. /\ r \in Seq(Blocks) /\ Len(r) = Len(t)
        /\ \A i \in 1 .. Len(t) : r[i] = t[Len(t) - i + 1]
    BY <1>1, <1>8, ReverseSeq
  <1>10. \A i \in 1 .. Len(t) : Len(t) + 1 - i = Len(t) - i + 1
    BY <1>1
  <1>11. \A i \in 1 .. Len(c) : c[i] = r[i]
    BY <1>7, <1>9, <1>10
  <1>12. c = r
    BY <1>7, <1>9, <1>11, SeqEqual
  <1> QED
    BY <1>2, <1>6, <1>8, <1>12


-----------------------------------------------------------------------------
(* Conversely, a list without loops is a stack.                            *)

LEMMA ListIsSeq ==
  ASSUME NEW l
  PROVE  l \in Lists <=> l \in Seq(Blocks) /\ Len(l) <= NICFREE
  <1>0. NICFREE \in Nat
    BY FilsysAssumption
  <1>1. ASSUME l \in Lists PROVE l \in Seq(Blocks) /\ Len(l) <= NICFREE
    <2>1. PICK k \in 0 .. NICFREE : l \in [1 .. k -> Blocks]
      BY <1>1 DEF Lists
    <2>2. k \in Nat /\ k <= NICFREE
      BY <1>0
    <2> QED
      BY <2>1, <2>2
  <1>2. ASSUME l \in Seq(Blocks), Len(l) <= NICFREE PROVE l \in Lists
    <2>1. Len(l) \in 0 .. NICFREE /\ l \in [1 .. Len(l) -> Blocks]
      BY <1>0, <1>2
    <2> QED
      BY <2>1 DEF Lists
  <1> QED
    BY <1>1, <1>2

\* The blocks, and what the first word of file data is taken for.
Words == Blocks \union {DATA}

LEMMA ContentsIsSeq ==
  ASSUME NEW l \in Contents
  PROVE  l \in Seq(Words) /\ (l \in Seq(Blocks) => l \in Lists)
  <1>1. CASE l \in Lists
    BY <1>1, ListIsSeq, SeqMonotonic DEF Words
  <1>2. CASE l = <<DATA>>
    <2>1. l \in Seq(Words) /\ Len(l) = 1 /\ l[1] = DATA
      BY <1>2 DEF Words
    <2>2. ASSUME l \in Seq(Blocks) PROVE l[1] \in Blocks
      <3>1. 1 \in 1 .. Len(l)
        BY <2>1
      <3> QED
        BY <2>2, <3>1, ElementOfSeq
    <2> QED
      BY <2>1, <2>2, FilsysAssumption
  <1> QED
    BY <1>1, <1>2 DEF Contents

LEMMA InjectiveLen ==
  ASSUME NEW s \in Seq(Blocks), IsInjective(s)
  PROVE  Len(s) <= NBLOCK
  <1>0. NBLOCK \in Nat /\ Len(s) \in Nat
    BY FilsysAssumption
  <1>1. SUFFICES ASSUME Len(s) > NBLOCK PROVE FALSE
    BY <1>0
  <1>2. /\ IsFiniteSet(1 .. Len(s)) /\ Cardinality(1 .. Len(s)) = Len(s)
        /\ IsFiniteSet(1 .. NBLOCK) /\ Cardinality(1 .. NBLOCK) = NBLOCK
    <2>1. ASSUME NEW k \in Nat PROVE IsFiniteSet(1 .. k) /\ Cardinality(1 .. k) = k
      <3>1. 1 \in Int /\ k \in Int /\ (IF 1 > k THEN 0 ELSE k - 1 + 1) = k
        OBVIOUS
      <3> QED
        BY <3>1, FS_Interval
    <2> QED
      BY <1>0, <2>1
  <1>3. s \in [1 .. Len(s) -> 1 .. NBLOCK]
    <2>1. s \in [1 .. Len(s) -> Blocks]
      BY LenProperties
    <2> QED
      BY <2>1 DEF Blocks
  <1>4. Cardinality(1 .. NBLOCK) < Cardinality(1 .. Len(s))
    BY <1>0, <1>1, <1>2
  <1>5. \E x, y \in 1 .. Len(s) : x # y /\ s[x] = s[y]
    BY <1>2, <1>3, <1>4, FS_PigeonHole
  <1>6. DOMAIN s = 1 .. Len(s)
    OBVIOUS
  <1> QED
    BY <1>5, <1>6 DEF IsInjective

\* s is the beginning of u.
Begins(s, u) == Len(s) <= Len(u) /\ \A i \in 1 .. Len(s) : u[i] = s[i]

LEMMA ConcatSeq ==
  ASSUME NEW s \in Seq(Words), NEW r \in Seq(Words)
  PROVE  /\ s \o r \in Seq(Words) /\ Len(s \o r) = Len(s) + Len(r)
         /\ Len(s) \in Nat /\ Len(r) \in Nat
         /\ \A i \in 1 .. Len(s) : (s \o r)[i] = s[i]
         /\ \A i \in 1 .. Len(r) : (s \o r)[Len(s) + i] = r[i]
  <1>1. /\ s \o r \in Seq(Words) /\ Len(s \o r) = Len(s) + Len(r)
        /\ \A i \in 1 .. Len(s) + Len(r) :
             (s \o r)[i] = IF i <= Len(s) THEN s[i] ELSE r[i - Len(s)]
    BY ConcatProperties
  <1>2. Len(s) \in Nat /\ Len(r) \in Nat
    OBVIOUS
  <1>3. ASSUME NEW i \in 1 .. Len(s) PROVE (s \o r)[i] = s[i]
    <2>1. i \in 1 .. Len(s) + Len(r) /\ i <= Len(s)
      BY <1>2
    <2> QED
      BY <1>1, <2>1
  <1>4. ASSUME NEW i \in 1 .. Len(r) PROVE (s \o r)[Len(s) + i] = r[i]
    <2>1. /\ Len(s) + i \in 1 .. Len(s) + Len(r) /\ ~(Len(s) + i <= Len(s))
          /\ Len(s) + i - Len(s) = i
      BY <1>2
    <2> QED
      BY <1>1, <2>1
  <1> QED
    BY <1>1, <1>2, <1>3, <1>4

LEMMA GrownSeq ==
  ASSUME NEW s \in Seq(Words), NEW blk \in [Blocks -> Contents]
  PROVE  /\ Grown(s, blk) \in Seq(Words) /\ Begins(s, Grown(s, blk))
         /\ s # <<>> /\ Last(s) # DATA => Last(s) \in Blocks
  <1>1. Len(s) \in Nat /\ \A i \in 1 .. Len(s) : s[i] \in Words
    BY ElementOfSeq
  <1>2. s # <<>> => Len(s) \in 1 .. Len(s)
    BY <1>1, EmptySeq
  <1>3. s # <<>> /\ Last(s) # DATA => Last(s) \in Blocks
    BY <1>1, <1>2 DEF Last, Words
  <1>4. CASE s = <<>> \/ Len(s) > NBLOCK \/ Last(s) = DATA
    BY <1>1, <1>3, <1>4 DEF Grown, Begins
  <1>5. CASE ~(s = <<>> \/ Len(s) > NBLOCK \/ Last(s) = DATA)
    <2>1. PICK r : r = Reverse(blk[Last(s)])
      OBVIOUS
    <2>2. r \in Seq(Words)
      BY <1>3, <1>5, <2>1, ContentsIsSeq, ReverseSeq
    <2>3. Grown(s, blk) = s \o r
      BY <1>5, <2>1 DEF Grown
    <2> QED
      BY <1>3, <2>2, <2>3, ConcatSeq DEF Begins
  <1> QED
    BY <1>4, <1>5

LEMMA StackOfChain ==
  ASSUME NEW list \in Lists, NEW blk \in [Blocks -> Contents],
         Range(Chain(list, blk)) \subseteq Blocks, IsInjective(Chain(list, blk))
  PROVE  /\ Chain(list, blk) \in Seq(Blocks)
         /\ \E B : Stack(Reverse(Chain(list, blk)), B, list, blk)
  <1>0. NBLOCK \in Nat /\ DATA \notin Blocks
    BY FilsysAssumption
  <1>1. PICK from : /\ Chain(list, blk) = from[NBLOCK] /\ from[0] = Reverse(list)
                    /\ \A k \in 1 .. NBLOCK : from[k] = Grown(from[k - 1], blk)
    BY ChainSteps
  <1>2. PICK c : c = Chain(list, blk)
    OBVIOUS
  <1>3. list \in Seq(Blocks) /\ list \in Seq(Words) /\ Len(list) \in Nat
    BY ListIsSeq, SeqMonotonic DEF Words
  \* Every step is a sequence.
  <1>4. \A k \in 0 .. NBLOCK : from[k] \in Seq(Words)
    <2> DEFINE G == {k \in 0 .. NBLOCK : from[k] \in Seq(Words)}
    <2>1. 0 \in G
      BY <1>0, <1>1, <1>3, ReverseSeq
    <2>2. ASSUME NEW k \in 1 .. NBLOCK, k - 1 \in G PROVE k \in G
      <3>1. from[k] = Grown(from[k - 1], blk) /\ from[k - 1] \in Seq(Words) /\ k \in 0 .. NBLOCK
        BY <1>0, <1>1, <2>2
      <3> QED
        BY <3>1, GrownSeq
    <2> HIDE DEF G
    <2>3. \A k \in 0 .. NBLOCK : k \in G
      BY <1>0, <2>1, <2>2, Steps
    <2> QED
      BY <2>3 DEF G
  \* And the beginning of the last.
  <1>5. \A k \in 0 .. NBLOCK : Begins(from[k], c)
    <2> DEFINE G == {m \in 0 .. NBLOCK : Begins(from[NBLOCK - m], c)}
    <2>1. 0 \in G
      <3>1. NBLOCK - 0 = NBLOCK /\ 0 \in 0 .. NBLOCK /\ NBLOCK \in 0 .. NBLOCK
        BY <1>0
      <3>2. c = from[NBLOCK] /\ c \in Seq(Words)
        BY <1>1, <1>2, <1>4, <3>1
      <3>3. Begins(c, c)
        BY <3>2 DEF Begins
      <3> QED
        BY <3>1, <3>2, <3>3
    <2>2. ASSUME NEW m \in 1 .. NBLOCK, m - 1 \in G PROVE m \in G
      <3>1. PICK k : k = NBLOCK - (m - 1)
        OBVIOUS
      <3>2. /\ k \in 1 .. NBLOCK /\ k - 1 = NBLOCK - m /\ m \in 0 .. NBLOCK
            /\ k - 1 \in 0 .. NBLOCK /\ k \in 0 .. NBLOCK
        BY <1>0, <3>1
      <3>3. Begins(from[k], c)
        BY <2>2, <3>1
      <3>4. PICK s, u : s = from[k - 1] /\ u = from[k]
        OBVIOUS
      <3>5. s \in Seq(Words) /\ u \in Seq(Words) /\ Begins(s, u) /\ Begins(u, c)
        BY <1>1, <1>4, <3>2, <3>3, <3>4, GrownSeq
      <3>6. NBLOCK \in 0 .. NBLOCK
        BY <1>0
      <3>7. c \in Seq(Words)
        BY <1>1, <1>2, <1>4, <3>6
      <3>8. Len(s) \in Nat /\ Len(u) \in Nat /\ Len(c) \in Nat
        BY <3>5, <3>7
      <3>9. Begins(s, c)
        BY <3>5, <3>8 DEF Begins
      <3> QED
        BY <3>2, <3>4, <3>9
    <2> HIDE DEF G
    <2>3. \A k \in 0 .. NBLOCK : k \in G
      BY <1>0, <2>1, <2>2, Steps
    <2>4. ASSUME NEW k \in 0 .. NBLOCK PROVE Begins(from[k], c)
      <3>1. NBLOCK - k \in 0 .. NBLOCK /\ NBLOCK - (NBLOCK - k) = k
        BY <1>0
      <3>2. NBLOCK - k \in G
        BY <2>3, <3>1
      <3> QED
        BY <3>1, <3>2 DEF G
    <2> QED
      BY <2>4
  <1>6. /\ c \in Seq(Blocks) /\ Len(c) \in Nat /\ Len(c) <= NBLOCK
        /\ \A i \in 1 .. Len(c) : c[i] \in Blocks
    <2>1. NBLOCK \in 0 .. NBLOCK
      BY <1>0
    <2>2. c \in Seq(Words) /\ Len(c) \in Nat /\ DOMAIN c = 1 .. Len(c)
      BY <1>1, <1>2, <1>4, <2>1
    <2>3. \A i \in 1 .. Len(c) : c[i] \in Blocks
      BY <1>2, <2>2 DEF Range
    <2>4. c \in Seq(Blocks)
      <3>1. c = [i \in 1 .. Len(c) |-> c[i]]
        BY <2>2
      <3> QED
        BY <2>2, <2>3, <3>1
    <2> QED
      BY <1>2, <2>2, <2>3, <2>4, InjectiveLen
  <1>7. ASSUME NEW k \in 0 .. NBLOCK
        PROVE  /\ from[k] \in Seq(Blocks) /\ Len(from[k]) \in Nat
               /\ Len(from[k]) <= Len(c)
               /\ \A i \in 1 .. Len(from[k]) : from[k][i] = c[i]
               /\ from[k] # <<>> => /\ Len(from[k]) > 0 /\ Last(from[k]) \in Blocks
                                    /\ Last(from[k]) = c[Len(from[k])]
               /\ Len(from[k]) = 0 => from[k] = <<>>
    <2>1. PICK s : s = from[k]
      OBVIOUS
    <2>2. s \in Seq(Words) /\ Begins(s, c) /\ Len(s) \in Nat
      BY <1>4, <1>5, <2>1
    <2>3. \A i \in 1 .. Len(s) : s[i] = c[i] /\ s[i] \in Blocks
      BY <1>6, <2>2 DEF Begins
    <2>4. s \in Seq(Blocks)
      <3>1. s = [i \in 1 .. Len(s) |-> s[i]]
        BY <2>2
      <3> QED
        BY <2>2, <2>3, <3>1
    <2>5. s # <<>> => Len(s) \in 1 .. Len(s)
      BY <2>4, EmptySeq
    <2>6. Len(s) = 0 => s = <<>>
      BY <2>4, EmptySeq
    <2> QED
      BY <2>1, <2>2, <2>3, <2>4, <2>5, <2>6 DEF Begins, Last
  \* So each step appends the next list.
  <1>8. ASSUME NEW k \in 1 .. NBLOCK
        PROVE  /\ k - 1 \in 0 .. NBLOCK /\ k \in 0 .. NBLOCK
               /\ from[k] = IF from[k - 1] = <<>> THEN <<>>
                            ELSE from[k - 1] \o Reverse(blk[Last(from[k - 1])])
    <2>1. k - 1 \in 0 .. NBLOCK /\ k \in 0 .. NBLOCK
      BY <1>0
    <2>2. PICK s : s = from[k - 1]
      OBVIOUS
    <2>3. from[k] = Grown(s, blk)
      BY <1>1, <2>2
    <2>4. Len(s) \in Nat /\ Len(s) <= Len(c) /\ (s # <<>> => Last(s) \in Blocks)
      BY <1>7, <2>1, <2>2
    <2>5. ~(Len(s) > NBLOCK)
      BY <1>0, <1>6, <2>4
    <2>6. s # <<>> => Last(s) # DATA
      BY <1>0, <2>4
    <2> QED
      BY <2>1, <2>2, <2>3, <2>5, <2>6 DEF Grown
  \* Where nothing is appended the chain ends.
  <1>9. ASSUME NEW h \in 0 .. NBLOCK, from[h] = <<>> \/ blk[Last(from[h])] = <<>>
        PROVE  from[h] = c
    <2> DEFINE G == {m \in 0 .. NBLOCK : h + m <= NBLOCK => from[h + m] = from[h]}
    <2>1. 0 \in G
      BY <1>0
    <2>2. ASSUME NEW m \in 1 .. NBLOCK, m - 1 \in G PROVE m \in G
      <3>0. m \in 0 .. NBLOCK
        BY <1>0
      <3>1. SUFFICES ASSUME h + m <= NBLOCK PROVE from[h + m] = from[h]
        BY <3>0
      <3>2. PICK k : k = h + m
        OBVIOUS
      <3>3. k \in 1 .. NBLOCK /\ h + (m - 1) <= NBLOCK /\ h + (m - 1) = k - 1
        BY <1>0, <3>1, <3>2
      <3>4. from[k - 1] = from[h]
        BY <2>2, <3>3
      <3>5. from[k] = IF from[h] = <<>> THEN <<>>
                      ELSE from[h] \o Reverse(blk[Last(from[h])])
        BY <1>8, <3>3, <3>4
      <3>6. CASE from[h] = <<>>
        BY <3>2, <3>5, <3>6
      <3>7. CASE from[h] # <<>>
        <4>1. blk[Last(from[h])] = <<>> /\ from[h] \in Seq(Blocks)
          BY <1>7, <1>9, <3>7
        <4>2. Reverse(<<>>) = <<>>
          <5>1. <<>> \in Seq(Blocks) /\ Len(<<>>) = 0
            BY EmptySeq
          <5>2. Reverse(<<>>) \in Seq(Blocks) /\ Len(Reverse(<<>>)) = 0
            BY <5>1, ReverseSeq
          <5> QED
            BY <5>2, EmptySeq
        <4>3. from[h] \o <<>> = from[h]
          BY <4>1, ConcatEmptySeq
        <4> QED
          BY <3>2, <3>5, <3>7, <4>1, <4>2, <4>3
      <3> QED
        BY <3>6, <3>7
    <2> HIDE DEF G
    <2>3. \A k \in 0 .. NBLOCK : k \in G
      BY <1>0, <2>1, <2>2, Steps
    <2>4. NBLOCK - h \in 0 .. NBLOCK /\ h + (NBLOCK - h) = NBLOCK /\ NBLOCK <= NBLOCK
      BY <1>0
    <2>5. NBLOCK - h \in G
      BY <2>3, <2>4
    <2>6. from[NBLOCK] = from[h]
      BY <2>4, <2>5 DEF G
    <2> QED
      BY <1>1, <1>2, <2>6
  \* And it does end.
  <1>10. c = <<>> \/ blk[Last(c)] = <<>>
    <2> DEFINE G == {k \in 0 .. NBLOCK : \/ from[k] = <<>> \/ blk[Last(from[k])] = <<>>
                                         \/ Len(from[k]) > k}
    <2>1. 0 \in G
      <3>1. 0 \in 0 .. NBLOCK
        BY <1>0
      <3>2. from[0] = <<>> \/ Len(from[0]) > 0
        BY <1>7, <3>1
      <3> QED
        BY <3>1, <3>2
    <2>2. ASSUME NEW k \in 1 .. NBLOCK, k - 1 \in G PROVE k \in G
      <3>1. PICK s : s = from[k - 1]
        OBVIOUS
      <3>2. /\ k - 1 \in 0 .. NBLOCK /\ k \in 0 .. NBLOCK
            /\ from[k] = IF s = <<>> THEN <<>> ELSE s \o Reverse(blk[Last(s)])
        BY <1>8, <3>1
      <3>3. s = <<>> \/ blk[Last(s)] = <<>> \/ Len(s) > k - 1
        BY <2>2, <3>1
      <3>4. CASE s = <<>>
        BY <3>2, <3>4
      <3>5. CASE s # <<>> /\ blk[Last(s)] = <<>>
        <4>1. s = c
          BY <1>9, <3>1, <3>2, <3>5
        <4>2. Begins(from[k], c) /\ Begins(s, from[k])
          BY <1>1, <1>4, <1>5, <3>1, <3>2, GrownSeq
        <4>3. from[k] \in Seq(Blocks) /\ s \in Seq(Blocks) /\ c \in Seq(Blocks)
          BY <1>6, <1>7, <3>1, <3>2
        <4>4. Len(from[k]) = Len(c)
          BY <1>6, <4>1, <4>2, <4>3 DEF Begins
        <4>5. \A i \in 1 .. Len(from[k]) : from[k][i] = c[i]
          BY <1>7, <3>2
        <4>6. from[k] = c
          BY <4>3, <4>4, <4>5, SeqEqual
        <4> QED
          BY <3>2, <3>5, <4>1, <4>6
      <3>6. CASE s # <<>> /\ blk[Last(s)] # <<>> /\ Len(s) > k - 1
        <4>1. s \in Seq(Words) /\ Last(s) \in Blocks
          BY <1>4, <1>7, <3>1, <3>2, <3>6
        <4>2. PICK l : l = blk[Last(s)]
          OBVIOUS
        <4>3. l \in Seq(Words) /\ l # <<>>
          BY <3>6, <4>1, <4>2, ContentsIsSeq
        <4>4. Len(l) \in Nat /\ Len(l) > 0 /\ Reverse(l) \in Seq(Words) /\ Len(Reverse(l)) = Len(l)
          BY <4>3, EmptySeq, ReverseSeq
        <4>5. from[k] = s \o Reverse(l)
          BY <3>2, <3>6, <4>2
        <4>6. Len(from[k]) = Len(s) + Len(l) /\ Len(s) \in Nat
          <5>1. PICK r : r = Reverse(l)
            OBVIOUS
          <5>2. s \in Seq(Words) /\ r \in Seq(Words) /\ Len(r) = Len(l)
            BY <4>1, <4>4, <5>1
          <5>3. Len(s \o r) = Len(s) + Len(r) /\ Len(s) \in Nat
            BY <5>2, ConcatSeq
          <5> QED
            BY <4>5, <5>1, <5>2, <5>3
        <4>7. Len(from[k]) > k
          BY <3>6, <4>4, <4>6
        <4> QED
          BY <3>2, <4>7
      <3> QED
        BY <3>3, <3>4, <3>5, <3>6
    <2> HIDE DEF G
    <2>3. \A k \in 0 .. NBLOCK : k \in G
      BY <1>0, <2>1, <2>2, Steps
    <2>4. NBLOCK \in 0 .. NBLOCK
      BY <1>0
    <2>5. c = <<>> \/ blk[Last(c)] = <<>> \/ Len(c) > NBLOCK
      BY <1>1, <1>2, <2>3, <2>4 DEF G
    <2> QED
      BY <1>0, <1>6, <2>5

  <1> DEFINE t == Reverse(c)
             B == {e \in 1 .. Len(c) : \E k \in 0 .. NBLOCK :
                     from[k] # <<>> /\ e = Len(c) + 1 - Len(from[k])}
  <1>11. /\ t \in Seq(Blocks) /\ Len(t) = Len(c)
         /\ \A i \in 1 .. Len(c) : t[i] = c[Len(c) - i + 1]
    BY <1>6, ReverseSeq
  <1> HIDE DEF t
  \* A list l after the first s blocks of the chain.
  <1>12. ASSUME NEW k \in 0 .. NBLOCK, NEW l \in Seq(Words), NEW m \in Nat,
                Len(from[k]) = m + Len(l),
                \A j \in 1 .. Len(l) : from[k][m + j] = Reverse(l)[j],
                Len(l) = 0 => m = Len(c)
         PROVE  Linked(t, B, Len(c) + 1 - m, l)
    <2>1. /\ Len(from[k]) <= Len(c) /\ Len(l) \in Nat
          /\ \A i \in 1 .. m + Len(l) : from[k][i] = c[i]
          /\ Len(from[k]) > 0 => from[k] # <<>>
      BY <1>7, <1>12, EmptySeq
    <2>2. PICK e : e = Len(c) + 1 - m
      OBVIOUS
    <2>3. Len(l) < e /\ (Len(l) = 0 <=> e = 1)
      BY <1>6, <1>12, <2>1, <2>2
    <2>4. \A j \in 1 .. Len(l) : l[j] = Reverse(l)[Len(l) - j + 1]
      BY ReverseSeq
    <2>5. ASSUME NEW j \in 1 .. Len(l) PROVE l[j] = t[e - Len(l) - 1 + j] /\ l[j] \in Blocks
      <3>1. PICK i : i = Len(l) - j + 1
        OBVIOUS
      <3>2. PICK h : h = e - Len(l) - 1 + j
        OBVIOUS
      <3>3. /\ i \in 1 .. Len(l) /\ m + i \in 1 .. m + Len(l)
            /\ h \in 1 .. Len(c) /\ Len(c) - h + 1 = m + i /\ m + i \in 1 .. Len(c)
        BY <1>6, <1>12, <2>1, <2>2, <3>1, <3>2
      <3>4. l[j] = c[m + i]
        BY <1>12, <2>1, <2>4, <3>1, <3>3
      <3>5. t[h] = c[m + i]
        BY <1>11, <3>3
      <3> QED
        BY <1>6, <3>2, <3>3, <3>4, <3>5
    <2>6. l \in Seq(Blocks)
      <3>1. l = [i \in 1 .. Len(l) |-> l[i]]
        OBVIOUS
      <3> QED
        BY <2>1, <2>5, <3>1
    <2>7. ASSUME Len(l) > 0 PROVE e - Len(l) \in B
      <3>1. e - Len(l) = Len(c) + 1 - Len(from[k]) /\ e - Len(l) \in 1 .. Len(c)
        BY <1>6, <1>12, <2>1, <2>2, <2>7
      <3>2. from[k] # <<>>
        BY <1>12, <2>1, <2>7
      <3> QED
        BY <3>1, <3>2
    <2> HIDE DEF B
    <2> QED
      BY <2>2, <2>3, <2>5, <2>6, <2>7 DEF Linked
  <1>13. Linked(t, B, Len(t) + 1, list)
    <2>1. PICK s : s = from[0]
      OBVIOUS
    <2>2. 0 \in 0 .. NBLOCK
      BY <1>0
    <2>3. s = Reverse(list) /\ Len(s) = Len(list)
      BY <1>1, <1>3, <2>1, ReverseSeq
    <2>4. Len(list) = 0 => 0 = Len(c)
      BY <1>7, <1>9, <2>1, <2>2, <2>3
    <2>5. Len(from[0]) = 0 + Len(list) /\ \A j \in 1 .. Len(list) : from[0][0 + j] = Reverse(list)[j]
      BY <1>3, <2>1, <2>3
    <2>6. Linked(t, B, Len(c) + 1 - 0, list)
      <3> HIDE DEF B
      <3> QED
        BY <1>3, <1>12, <2>2, <2>4, <2>5
    <2>7. Len(c) + 1 - 0 = Len(t) + 1
      BY <1>6, <1>11
    <2> QED
      BY <2>6, <2>7
  <1>14. ASSUME NEW e \in B PROVE e \in 1 .. Len(t) /\ Linked(t, B, e, blk[t[e]])
    <2>1. PICK k \in 0 .. NBLOCK : from[k] # <<>> /\ e = Len(c) + 1 - Len(from[k])
      OBVIOUS
    <2>0. e \in 1 .. Len(c)
      OBVIOUS
    <2>2. PICK s : s = from[k]
      OBVIOUS
    <2>3. /\ s \in Seq(Blocks) /\ Len(s) \in Nat /\ Len(s) > 0 /\ Last(s) \in Blocks
          /\ Len(s) <= Len(c) /\ Last(s) = c[Len(s)] /\ s \in Seq(Words)
      BY <1>4, <1>7, <2>1, <2>2
    <2>4. t[e] = Last(s) /\ e \in 1 .. Len(t)
      <3>1. Len(c) - e + 1 = Len(s)
        BY <1>6, <2>1, <2>2, <2>3
      <3> QED
        BY <1>11, <2>0, <2>3, <3>1
    <2>5. PICK l : l = blk[Last(s)]
      OBVIOUS
    <2>6. l \in Seq(Words) /\ Reverse(l) \in Seq(Words) /\ Len(Reverse(l)) = Len(l)
      BY <2>3, <2>5, ContentsIsSeq, ReverseSeq
    <2>7. PICK h \in 0 .. NBLOCK : from[h] = s \o Reverse(l)
      <3>1. CASE k = NBLOCK
        <4>1. s = c /\ l = <<>>
          BY <1>1, <1>2, <1>10, <2>1, <2>2, <2>5, <3>1
        <4>2. Reverse(l) = <<>>
          BY <2>6, <4>1, EmptySeq
        <4>3. s \o <<>> = s
          BY <2>3, ConcatEmptySeq
        <4> QED
          BY <2>2, <4>2, <4>3
      <3>2. CASE k # NBLOCK
        <4>1. k + 1 \in 1 .. NBLOCK /\ k + 1 - 1 = k
          BY <1>0, <3>2
        <4>2. from[k + 1] = s \o Reverse(l) /\ k + 1 \in 0 .. NBLOCK
          <5>1. PICK i : i = k + 1
            OBVIOUS
          <5>2. i \in 1 .. NBLOCK /\ from[i - 1] = s /\ s # <<>>
            BY <2>1, <2>2, <4>1, <5>1
          <5>3. from[i] = s \o Reverse(blk[Last(s)]) /\ i \in 0 .. NBLOCK
            BY <1>8, <5>2
          <5> QED
            BY <2>5, <5>1, <5>3
        <4> QED
          BY <4>2
      <3> QED
        BY <3>1, <3>2
    <2>8. /\ Len(from[h]) = Len(s) + Len(l)
          /\ \A j \in 1 .. Len(l) : from[h][Len(s) + j] = Reverse(l)[j]
      <3>1. PICK r : r = Reverse(l)
        OBVIOUS
      <3>2. s \in Seq(Words) /\ r \in Seq(Words) /\ Len(r) = Len(l)
        BY <2>3, <2>6, <3>1
      <3>3. /\ s \o r \in Seq(Words) /\ Len(s \o r) = Len(s) + Len(r)
            /\ Len(s) \in Nat /\ Len(r) \in Nat
            /\ \A i \in 1 .. Len(s) : (s \o r)[i] = s[i]
            /\ \A i \in 1 .. Len(r) : (s \o r)[Len(s) + i] = r[i]
        BY <3>2, ConcatSeq
      <3> QED
        BY <2>7, <3>1, <3>2, <3>3
    <2>9. Len(l) = 0 => Len(s) = Len(c)
      <3>1. Len(l) = 0 => l = <<>>
        BY <2>6, EmptySeq
      <3> QED
        BY <1>9, <2>2, <2>5, <3>1
    <2>10. Linked(t, B, Len(c) + 1 - Len(s), l)
      <3> HIDE DEF B
      <3> QED
        BY <1>12, <2>3, <2>6, <2>8, <2>9
    <2> QED
      BY <2>1, <2>2, <2>4, <2>5, <2>10
  <1>15. Stack(t, B, list, blk)
    <2> HIDE DEF B
    <2> QED
      BY <1>11, <1>13, <1>14 DEF Stack
  <1>16. t = Reverse(Chain(list, blk))
    BY <1>2 DEF t
  <1> QED
    BY <1>2, <1>6, <1>15, <1>16


-----------------------------------------------------------------------------
(* Blocks move between the stack and the files.                            *)

LEMMA FrontRange ==
  ASSUME NEW s \in Seq(Blocks), s # <<>>, IsInjective(s)
  PROVE  /\ IsInjective(Front(s)) /\ Range(Front(s)) = Range(s) \ {s[Len(s)]}
         /\ s[Len(s)] \in Range(s)
  <1>1. PICK u : u = Front(s)
    OBVIOUS
  <1>2. /\ u \in Seq(Blocks) /\ Len(u) = Len(s) - 1 /\ Len(s) \in Nat \ {0}
        /\ \A i \in 1 .. Len(s) - 1 : u[i] = s[i]
    BY <1>1, FrontSeq
  <1>3. DOMAIN s = 1 .. Len(s) /\ DOMAIN u = 1 .. Len(s) - 1
    BY <1>2
  <1>4. \A i, j \in 1 .. Len(s) : s[i] = s[j] => i = j
    BY <1>3 DEF IsInjective
  <1>5. \A i \in 1 .. Len(s) - 1 : i \in 1 .. Len(s) /\ i # Len(s)
    BY <1>2
  <1>6. Len(s) \in 1 .. Len(s)
    BY <1>2
  <1>7. IsInjective(u)
    BY <1>2, <1>3, <1>4, <1>5 DEF IsInjective
  <1>8. ASSUME NEW x PROVE x \in Range(u) <=> x \in Range(s) /\ x # s[Len(s)]
    <2>1. ASSUME x \in Range(u) PROVE x \in Range(s) /\ x # s[Len(s)]
      <3>1. PICK i \in 1 .. Len(s) - 1 : x = u[i]
        BY <1>3, <2>1 DEF Range
      <3>2. x = s[i] /\ i \in 1 .. Len(s) /\ i # Len(s)
        BY <1>2, <1>5, <3>1
      <3> QED
        BY <1>3, <1>4, <1>6, <3>2 DEF Range
    <2>2. ASSUME x \in Range(s), x # s[Len(s)] PROVE x \in Range(u)
      <3>1. PICK i \in 1 .. Len(s) : x = s[i]
        BY <1>3, <2>2 DEF Range
      <3>2. i \in 1 .. Len(s) - 1
        BY <1>2, <2>2, <3>1
      <3> QED
        BY <1>2, <1>3, <3>1, <3>2 DEF Range
    <2> QED
      BY <2>1, <2>2
  <1> QED
    BY <1>1, <1>3, <1>6, <1>7, <1>8 DEF Range

LEMMA AppendRange ==
  ASSUME NEW s \in Seq(Blocks), NEW b \in Blocks, IsInjective(s), b \notin Range(s)
  PROVE  IsInjective(Append(s, b)) /\ Range(Append(s, b)) = Range(s) \union {b}
  <1>1. PICK u : u = Append(s, b)
    OBVIOUS
  <1>2. /\ u \in Seq(Blocks) /\ Len(u) = Len(s) + 1 /\ u[Len(s) + 1] = b
        /\ \A i \in 1 .. Len(s) : u[i] = s[i]
        /\ Len(s) \in Nat
    BY <1>1, AppendSeq
  <1>3. DOMAIN s = 1 .. Len(s) /\ DOMAIN u = 1 .. Len(s) + 1
    BY <1>2
  <1>4. \A i, j \in 1 .. Len(s) : s[i] = s[j] => i = j
    BY <1>3 DEF IsInjective
  <1>5. \A i \in 1 .. Len(s) + 1 : i \in 1 .. Len(s) \/ i = Len(s) + 1
    BY <1>2
  <1>6. \A i \in 1 .. Len(s) : s[i] # b
    BY <1>3 DEF Range
  <1>7. IsInjective(u)
    <2> SUFFICES ASSUME NEW i \in 1 .. Len(s) + 1, NEW j \in 1 .. Len(s) + 1, u[i] = u[j]
                 PROVE  i = j
      BY <1>3 DEF IsInjective
    <2> QED
      BY <1>2, <1>4, <1>5, <1>6
  <1>8. ASSUME NEW x PROVE x \in Range(u) <=> x \in Range(s) \/ x = b
    <2>0. \A i \in 1 .. Len(s) : i \in 1 .. Len(s) + 1
      BY <1>2
    <2>2. Len(s) + 1 \in 1 .. Len(s) + 1
      BY <1>2
    <2>1. ASSUME x \in Range(u) PROVE x \in Range(s) \/ x = b
      <3>1. PICK i \in 1 .. Len(s) + 1 : x = u[i]
        BY <1>3, <2>1 DEF Range
      <3> QED
        BY <1>2, <1>3, <1>5, <3>1 DEF Range
    <2>3. ASSUME x \in Range(s) PROVE x \in Range(u)
      <3>1. PICK i \in 1 .. Len(s) : x = s[i]
        BY <1>3, <2>3 DEF Range
      <3> QED
        BY <1>2, <1>3, <2>0, <3>1 DEF Range
    <2>4. b \in Range(u)
      BY <1>2, <1>3, <2>2 DEF Range
    <2> QED
      BY <2>1, <2>3, <2>4
  <1> QED
    BY <1>1, <1>7, <1>8

LEMMA ReverseRange ==
  ASSUME NEW s \in Seq(Blocks)
  PROVE  Range(Reverse(s)) = Range(s) /\ (IsInjective(Reverse(s)) <=> IsInjective(s))
  <1>1. PICK u : u = Reverse(s)
    OBVIOUS
  <1>2. /\ u \in Seq(Blocks) /\ Len(u) = Len(s) /\ Len(s) \in Nat
        /\ \A i \in 1 .. Len(s) : u[i] = s[Len(s) - i + 1]
        /\ \A i \in 1 .. Len(s) : s[i] = u[Len(s) - i + 1]
    BY <1>1, ReverseSeq
  <1>3. DOMAIN s = 1 .. Len(s) /\ DOMAIN u = 1 .. Len(s)
    BY <1>2
  <1>4. \A i \in 1 .. Len(s) : Len(s) - i + 1 \in 1 .. Len(s)
    BY <1>2
  <1>5. \A i, j \in 1 .. Len(s) : Len(s) - i + 1 = Len(s) - j + 1 => i = j
    BY <1>2
  <1>6. Range(u) = Range(s)
    BY <1>2, <1>3, <1>4 DEF Range
  <1>7. ASSUME IsInjective(s) PROVE IsInjective(u)
    <2>1. \A i, j \in 1 .. Len(s) : s[i] = s[j] => i = j
      BY <1>3, <1>7 DEF IsInjective
    <2> SUFFICES ASSUME NEW i \in 1 .. Len(s), NEW j \in 1 .. Len(s), u[i] = u[j]
                 PROVE  i = j
      BY <1>3 DEF IsInjective
    <2>2. s[Len(s) - i + 1] = s[Len(s) - j + 1]
      BY <1>2
    <2>3. Len(s) - i + 1 = Len(s) - j + 1
      BY <1>4, <2>1, <2>2
    <2> QED
      BY <1>5, <2>3
  <1>8. ASSUME IsInjective(u) PROVE IsInjective(s)
    <2>1. \A i, j \in 1 .. Len(s) : u[i] = u[j] => i = j
      BY <1>3, <1>8 DEF IsInjective
    <2> SUFFICES ASSUME NEW i \in 1 .. Len(s), NEW j \in 1 .. Len(s), s[i] = s[j]
                 PROVE  i = j
      BY <1>3 DEF IsInjective
    <2>2. u[Len(s) - i + 1] = u[Len(s) - j + 1]
      BY <1>2
    <2>3. Len(s) - i + 1 = Len(s) - j + 1
      BY <1>4, <2>1, <2>2
    <2> QED
      BY <1>5, <2>3
  <1> QED
    BY <1>1, <1>6, <1>7, <1>8

LEMMA PartitionReverse ==
  ASSUME NEW s \in Seq(Blocks), NEW h
  PROVE  Partition(Reverse(s), h) <=> Partition(s, h)
  BY ReverseRange DEF Partition

\* The top of the stack goes to f.
LEMMA MoveOut ==
  ASSUME NEW t \in Seq(Blocks), NEW h, NEW g, NEW f \in Files, Partition(t, h),
         t # <<>>, h[f] \in Seq(Blocks), g[f] = Append(h[f], t[Len(t)]),
         \A x \in Files \ {f} : g[x] = h[x]
  PROVE  Partition(Front(t), g)
  <1>1. PICK b : b = t[Len(t)]
    OBVIOUS
  <1>2. /\ IsInjective(Front(t)) /\ Range(Front(t)) = Range(t) \ {b} /\ b \in Range(t)
    BY <1>1, FrontRange DEF Partition
  <1>3. b \in Blocks /\ IsInjective(h[f]) /\ \A x \in Files : b \notin Range(h[x])
    BY <1>2 DEF Partition
  <1>4. IsInjective(g[f]) /\ Range(g[f]) = Range(h[f]) \union {b}
    BY <1>1, <1>3, AppendRange
  <1>5. \A x \in Files : IsInjective(g[x]) /\ Range(g[x]) \intersect Range(Front(t)) = {}
    BY <1>2, <1>4 DEF Partition
  <1>6. ASSUME NEW x \in Files, NEW y \in Files, x # y
        PROVE  Range(g[x]) \intersect Range(g[y]) = {}
    <2>1. Range(h[x]) \intersect Range(h[y]) = {}
      BY <1>6 DEF Partition
    <2>2. \A z \in Files : z # f => Range(g[z]) = Range(h[z])
      OBVIOUS
    <2> QED
      BY <1>3, <1>4, <1>6, <2>1, <2>2
  <1>7. Range(Front(t)) \union UNION {Range(g[x]) : x \in Files} = Blocks
    <2>1. Range(t) \union UNION {Range(h[x]) : x \in Files} = Blocks
      BY DEF Partition
    <2>2. \A x \in Files : Range(h[x]) \subseteq Range(g[x]) /\ Range(g[x]) \subseteq Blocks
      BY <1>3, <1>4, <2>1
    <2> QED
      BY <1>2, <1>4, <2>1, <2>2
  <1>8. Range(Front(t)) \subseteq Blocks
    BY <1>2 DEF Partition
  <1> QED
    BY <1>2, <1>5, <1>6, <1>7, <1>8 DEF Partition

\* The last block of f goes on the stack.
LEMMA MoveIn ==
  ASSUME NEW t \in Seq(Blocks), NEW h, NEW g, NEW f \in Files, Partition(t, h),
         h[f] \in Seq(Blocks), h[f] # <<>>, g[f] = Front(h[f]),
         \A x \in Files \ {f} : g[x] = h[x]
  PROVE  Partition(Append(t, h[f][Len(h[f])]), g)
  <1>1. PICK b : b = h[f][Len(h[f])]
    OBVIOUS
  <1>2. /\ IsInjective(g[f]) /\ Range(g[f]) = Range(h[f]) \ {b} /\ b \in Range(h[f])
    BY <1>1, FrontRange DEF Partition
  <1>3. /\ b \in Blocks /\ b \notin Range(t) /\ IsInjective(t)
        /\ \A x \in Files \ {f} : b \notin Range(h[x])
    BY <1>2 DEF Partition
  <1>4. IsInjective(Append(t, b)) /\ Range(Append(t, b)) = Range(t) \union {b}
    BY <1>3, AppendRange
  <1>5. \A x \in Files : IsInjective(g[x]) /\ Range(g[x]) \intersect Range(Append(t, b)) = {}
    BY <1>2, <1>3, <1>4 DEF Partition
  <1>6. \A x, y \in Files : x # y => Range(g[x]) \intersect Range(g[y]) = {}
    BY <1>2 DEF Partition
  <1>7. Range(Append(t, b)) \union UNION {Range(g[x]) : x \in Files} = Blocks
    <2>1. Range(t) \union UNION {Range(h[x]) : x \in Files} = Blocks
      BY DEF Partition
    <2>2. \A x \in Files : Range(g[x]) \subseteq Range(h[x])
      BY <1>2
    <2>3. \A x \in Files : Range(h[x]) \subseteq Range(g[x]) \union {b}
      BY <1>2
    <2>4. UNION {Range(g[x]) : x \in Files} \subseteq Blocks
      BY <2>1, <2>2
    <2>5. UNION {Range(h[x]) : x \in Files} \subseteq
            {b} \union UNION {Range(g[x]) : x \in Files}
      BY <2>3
    <2>6. Range(t) \subseteq Blocks
      BY <2>1
    <2> QED
      BY <1>3, <1>4, <2>1, <2>4, <2>5, <2>6
  <1>8. Range(Append(t, b)) \subseteq Blocks
    BY <1>3, <1>4 DEF Partition
  <1> QED
    BY <1>1, <1>4, <1>5, <1>6, <1>7, <1>8 DEF Partition


-----------------------------------------------------------------------------
(* The list that icheck makes.                                             *)

LEMMA AddrIsSeq ==
  ASSUME NEW l
  PROVE  l \in Addrs <=> l \in Seq(Blocks) /\ Len(l) <= ND
  <1>0. ND \in Nat
    BY FilsysAssumption
  <1>1. ASSUME l \in Addrs PROVE l \in Seq(Blocks) /\ Len(l) <= ND
    <2>1. PICK k \in 0 .. ND : l \in [1 .. k -> Blocks]
      BY <1>1 DEF Addrs
    <2>2. k \in Nat /\ k <= ND
      BY <1>0
    <2> QED
      BY <2>1, <2>2
  <1>2. ASSUME l \in Seq(Blocks), Len(l) <= ND PROVE l \in Addrs
    <2>1. Len(l) \in 0 .. ND /\ l \in [1 .. Len(l) -> Blocks]
      BY <1>0, <1>2
    <2> QED
      BY <2>1 DEF Addrs
  <1> QED
    BY <1>1, <1>2

\* bfree of icheck, for block b.
Put(a, b, idle) ==
  IF b \notin idle THEN a
  ELSE IF Len(a.free) \in {0, NICFREE}
  THEN [free |-> <<b>>, tfree |-> a.tfree + 1, blk |-> [a.blk EXCEPT ![b] = a.free]]
  ELSE [a EXCEPT !.free = Append(@, b), !.tfree = @ + 1]

LEMMA makesuperSteps ==
  ASSUME NEW idle, NEW blk
  PROVE  \E after : /\ makesuper(idle, blk) = after[NBLOCK]
                    /\ after[0] = [free |-> <<>>, tfree |-> 0, blk |-> blk]
                    /\ \A k \in 1 .. NBLOCK :
                         after[k] = Put(after[k - 1], NBLOCK + 1 - k, idle)
  <1> DEFINE a0 == [free |-> <<>>, tfree |-> 0, blk |-> blk]
             Loop(m, f) ==
        f = [k \in 0 .. m |-> IF k = 0 THEN a0 ELSE Put(f[k - 1], NBLOCK + 1 - k, idle)]
  <1>0. NBLOCK \in Nat
    BY FilsysAssumption
  <1>1. \E f : Loop(NBLOCK, f)
    <2> HIDE DEF a0
    <2> DEFINE T == {k \in Nat : ~ \E f : Loop(k, f)}
    <2> SUFFICES ASSUME T # {} PROVE FALSE
      BY <1>0
    <2>1. T \in SUBSET Nat
      OBVIOUS
    <2>2. PICK k \in T : \A j \in T : k <= j
      <3> HIDE DEF T
      <3> QED
        BY <2>1, LeastExists
    <2>3. k \in Nat /\ ~ \E f : Loop(k, f)
      OBVIOUS
    <2>4. CASE k = 0
      <3>1. Loop(0, [j \in 0 .. 0 |-> a0])
        OBVIOUS
      <3> QED
        BY <2>3, <2>4, <3>1
    <2>5. CASE k # 0
      <3>1. k - 1 \in Nat /\ k - 1 \notin T
        <4>1. k - 1 \in Nat /\ ~ (k <= k - 1)
          BY <2>3, <2>5
        <4> HIDE DEF T
        <4> QED
          BY <2>2, <4>1
      <3>2. PICK f : Loop(k - 1, f)
        BY <3>1
      <3> DEFINE g == [j \in 0 .. k |-> IF j = k THEN Put(f[k - 1], NBLOCK + 1 - k, idle)
                                        ELSE f[j]]
      <3>3. \A j \in 0 .. k - 1 :
              f[j] = IF j = 0 THEN a0 ELSE Put(f[j - 1], NBLOCK + 1 - j, idle)
        BY <3>2
      <3>4. \A j \in 0 .. k :
              g[j] = IF j = 0 THEN a0 ELSE Put(g[j - 1], NBLOCK + 1 - j, idle)
        <4> SUFFICES ASSUME NEW j \in 0 .. k
                     PROVE  g[j] = IF j = 0 THEN a0 ELSE Put(g[j - 1], NBLOCK + 1 - j, idle)
          OBVIOUS
        <4>1. CASE j = 0
          BY <2>3, <2>5, <3>3, <4>1
        <4>2. CASE j = k
          <5>1. k - 1 \in 0 .. k /\ k - 1 # k /\ k \in 0 .. k
            BY <2>3, <2>5
          <5>2. g[k - 1] = f[k - 1]
            BY <5>1
          <5>3. g[k] = Put(f[k - 1], NBLOCK + 1 - k, idle)
            BY <5>1
          <5> HIDE DEF g
          <5> QED
            BY <2>5, <4>2, <5>2, <5>3
        <4>3. CASE j # 0 /\ j # k
          <5>1. j \in 0 .. k - 1 /\ j - 1 \in 0 .. k /\ j - 1 # k
            BY <2>3, <4>3
          <5>2. g[j] = f[j]
            BY <4>3
          <5>3. g[j - 1] = f[j - 1]
            BY <5>1
          <5>4. f[j] = Put(f[j - 1], NBLOCK + 1 - j, idle)
            BY <3>3, <4>3, <5>1
          <5> HIDE DEF g
          <5> QED
            BY <4>3, <5>2, <5>3, <5>4
        <4> QED
          BY <4>1, <4>2, <4>3
      <3>5. Loop(k, g)
        BY <3>4
      <3> QED
        BY <2>3, <3>5
    <2> QED
      BY <2>4, <2>5
  <1> DEFINE after == CHOOSE f : Loop(NBLOCK, f)
  <1>2. makesuper(idle, blk) = after[NBLOCK]
    BY DEF makesuper, Put
  <1>3. Loop(NBLOCK, after)
    BY <1>1
  <1> HIDE DEF after
  <1>4. /\ after[0] = a0
        /\ \A k \in 1 .. NBLOCK : after[k] = Put(after[k - 1], NBLOCK + 1 - k, idle)
    <2> HIDE DEF a0
    <2> QED
      BY <1>0, <1>3
  <1> QED
    BY <1>2, <1>4

\* The blocks of S are the stack of the list in a.
Holds(a, S) ==
  /\ a \in [free : Lists, tfree : Nat, blk : [Blocks -> Contents]]
  /\ \E t, B : /\ Stack(t, B, a.free, a.blk) /\ a.tfree = Len(t)
               /\ IsInjective(t) /\ Range(t) = S

LEMMA PutHolds ==
  ASSUME NEW a, NEW S, NEW b \in Blocks, NEW idle, Holds(a, S), b \notin S
  PROVE  Holds(Put(a, b, idle), IF b \in idle THEN S \union {b} ELSE S)
  <1>0. NICFREE \in Nat \ {0}
    BY FilsysAssumption
  <1>1. CASE b \notin idle
    BY <1>1 DEF Put
  <1>2. CASE b \in idle
    <2>1. PICK t, B : /\ Stack(t, B, a.free, a.blk) /\ a.tfree = Len(t)
                      /\ IsInjective(t) /\ Range(t) = S
      BY DEF Holds
    <2>2. PICK l, blk : l = a.free /\ blk = a.blk
      OBVIOUS
    <2>3. /\ l \in Lists /\ blk \in [Blocks -> Contents] /\ a.tfree \in Nat
          /\ a = [free |-> l, tfree |-> a.tfree, blk |-> blk]
      BY <2>2 DEF Holds
    <2>4. Stack(t, B, l, blk)
      BY <2>1, <2>2
    <2>5. /\ t \in Seq(Blocks) /\ Len(t) \in Nat /\ l \in Seq(Blocks) /\ Len(l) \in Nat
          /\ l = <<>> <=> Len(l) = 0
          /\ \A i \in 1 .. Len(t) : t[i] \in Blocks
      BY <2>4, StackTyped
    <2>6. Len(l) <= NICFREE
      BY <2>3, ListIsSeq
    <2>7. /\ IsInjective(Append(t, b)) /\ Range(Append(t, b)) = S \union {b}
          /\ Len(Append(t, b)) = Len(t) + 1
      BY <2>1, <2>5, AppendRange, AppendSeq
    <2>8. CASE Len(l) \in {0, NICFREE}
      <3>1. PICK m : m = [blk EXCEPT ![b] = l]
        OBVIOUS
      <3>2. m \in [Blocks -> Contents] /\ m[b] = l /\ \A i \in 1 .. Len(t) : m[t[i]] = blk[t[i]]
        <4>1. \A i \in 1 .. Len(t) : t[i] # b
          <5>1. DOMAIN t = 1 .. Len(t)
            BY <2>5
          <5> QED
            BY <2>1, <5>1 DEF Range
        <4>2. l \in Contents
          BY <2>3 DEF Contents
        <4> QED
          BY <2>3, <2>5, <3>1, <4>1, <4>2
      <3>3. Stack(t, B, m[b], m)
        BY <2>4, <3>2, StackFrame
      <3>4. Stack(Append(t, b), B \union {Len(t) + 1}, <<b>>, m)
        BY <3>3, PushChain
      <3>5. <<b>> \in Lists
        <4>1. <<b>> \in Seq(Blocks) /\ Len(<<b>>) = 1
          OBVIOUS
        <4> QED
          BY <1>0, <4>1, ListIsSeq
      <3>6. PICK d : d = [free |-> <<b>>, tfree |-> a.tfree + 1, blk |-> m]
        OBVIOUS
      <3>7. d = Put(a, b, idle)
        BY <1>2, <2>2, <2>8, <3>1, <3>6 DEF Put
      <3>8. /\ d \in [free : Lists, tfree : Nat, blk : [Blocks -> Contents]]
            /\ d.free = <<b>> /\ d.blk = m /\ d.tfree = Len(t) + 1
        BY <2>1, <2>3, <3>2, <3>5, <3>6
      <3>9. Holds(d, S \union {b})
        BY <2>7, <3>4, <3>8 DEF Holds
      <3> QED
        BY <1>2, <3>7, <3>9
    <2>9. CASE Len(l) \notin {0, NICFREE}
      <3>1. l # <<>> /\ Len(l) + 1 <= NICFREE
        BY <1>0, <2>5, <2>6, <2>9
      <3>2. Stack(Append(t, b), B, Append(l, b), blk)
        BY <2>4, <3>1, PushList
      <3>3. Append(l, b) \in Lists
        <4>1. Append(l, b) \in Seq(Blocks) /\ Len(Append(l, b)) = Len(l) + 1
          BY <2>5, AppendSeq
        <4> QED
          BY <3>1, <4>1, ListIsSeq
      <3>4. PICK d : d = [a EXCEPT !.free = Append(@, b), !.tfree = @ + 1]
        OBVIOUS
      <3>5. d = Put(a, b, idle)
        BY <1>2, <2>2, <2>9, <3>4 DEF Put
      <3>6. /\ d \in [free : Lists, tfree : Nat, blk : [Blocks -> Contents]]
            /\ d.free = Append(l, b) /\ d.blk = blk /\ d.tfree = Len(t) + 1
        <4>1. PICK u, v : u = Append(l, b) /\ v = Len(t) + 1
          OBVIOUS
        <4>2. d = [a EXCEPT !.free = u, !.tfree = v]
          BY <2>1, <2>2, <3>4, <4>1
        <4>3. a \in [free : Lists, tfree : Nat, blk : [Blocks -> Contents]]
          BY DEF Holds
        <4>4. u \in Lists /\ v \in Nat
          BY <2>5, <3>3, <4>1
        <4>5. d \in [free : Lists, tfree : Nat, blk : [Blocks -> Contents]]
          BY <4>2, <4>3, <4>4
        <4>6. d.free = u /\ d.blk = a.blk /\ d.tfree = v
          BY <4>2, <4>3
        <4> QED
          BY <2>2, <4>1, <4>5, <4>6
      <3>7. Holds(d, S \union {b})
        BY <2>7, <3>2, <3>6 DEF Holds
      <3> QED
        BY <1>2, <3>5, <3>7
    <2> QED
      BY <2>8, <2>9
  <1> QED
    BY <1>1, <1>2

LEMMA makesuperHolds ==
  ASSUME NEW idle \in SUBSET Blocks, NEW blk \in [Blocks -> Contents]
  PROVE  Holds(makesuper(idle, blk), idle)
  <1>0. NBLOCK \in Nat /\ Blocks = 1 .. NBLOCK
    BY FilsysAssumption DEF Blocks
  <1>1. PICK after : /\ makesuper(idle, blk) = after[NBLOCK]
                     /\ after[0] = [free |-> <<>>, tfree |-> 0, blk |-> blk]
                     /\ \A k \in 1 .. NBLOCK :
                          after[k] = Put(after[k - 1], NBLOCK + 1 - k, idle)
    BY makesuperSteps
  <1> DEFINE High(k) == {b \in idle : b > NBLOCK - k}
             G == {k \in 0 .. NBLOCK : Holds(after[k], High(k))}
  <1>2. 0 \in G
    <2>1. High(0) = {}
      <3>1. \A b \in idle : b \in Nat /\ b <= NBLOCK
        BY <1>0
      <3>2. \A b \in idle : ~(b > NBLOCK - 0)
        BY <1>0, <3>1
      <3>3. ASSUME NEW b \in High(0) PROVE FALSE
        BY <3>2
      <3> HIDE DEF High
      <3> QED
        BY <3>3
    <2>2. <<>> \in Seq(Blocks) /\ Len(<<>>) = 0
      BY EmptySeq
    <2>3. <<>> \in Lists
      <3>1. 0 <= NICFREE
        BY FilsysAssumption
      <3> QED
        BY <2>2, <3>1, ListIsSeq
    <2>4. Stack(<<>>, {}, <<>>, blk)
      BY <2>2 DEF Stack, Linked
    <2>5. IsInjective(<<>>) /\ Range(<<>>) = {}
      BY DEF IsInjective, Range
    <2>6. PICK a : a = after[0]
      OBVIOUS
    <2>7. /\ a \in [free : Lists, tfree : Nat, blk : [Blocks -> Contents]]
          /\ a.free = <<>> /\ a.tfree = 0 /\ a.blk = blk
      BY <1>1, <2>3, <2>6
    <2>8. Holds(a, {})
      BY <2>2, <2>4, <2>5, <2>7 DEF Holds
    <2>9. Holds(after[0], High(0))
      <3> HIDE DEF High
      <3> QED
        BY <2>1, <2>6, <2>8
    <2>10. 0 \in 0 .. NBLOCK
      BY <1>0
    <2> HIDE DEF High
    <2> QED
      BY <2>9, <2>10
  <1>3. ASSUME NEW k \in 1 .. NBLOCK, k - 1 \in G PROVE k \in G
    <2>1. PICK b : b = NBLOCK + 1 - k
      OBVIOUS
    <2>2. b \in Blocks /\ k \in 0 .. NBLOCK /\ b \notin High(k - 1)
      BY <1>0, <2>1
    <2>3. High(k) = IF b \in idle THEN High(k - 1) \union {b} ELSE High(k - 1)
      <3>1. ASSUME NEW c \in idle
            PROVE  c > NBLOCK - k <=> c > NBLOCK - (k - 1) \/ c = b
        BY <1>0, <2>1
      <3>2. \A c : c \in High(k) <=> c \in High(k - 1) \/ (c \in idle /\ c = b)
        BY <3>1
      <3> HIDE DEF High
      <3> QED
        BY <3>2
    <2>4. after[k] = Put(after[k - 1], b, idle) /\ Holds(after[k - 1], High(k - 1))
      BY <1>1, <1>3, <2>1
    <2>5. Holds(after[k], High(k))
      <3> HIDE DEF High
      <3>1. PICK a, S : a = after[k - 1] /\ S = High(k - 1)
        OBVIOUS
      <3>2. Holds(a, S) /\ b \notin S /\ b \in Blocks
        BY <2>2, <2>4, <3>1
      <3>3. Holds(Put(a, b, idle), IF b \in idle THEN S \union {b} ELSE S)
        BY <3>2, PutHolds
      <3> QED
        BY <2>3, <2>4, <3>1, <3>3
    <2> QED
      BY <2>2, <2>5
  <1>4. NBLOCK \in G
    <2> HIDE DEF G
    <2>1. \A k \in 0 .. NBLOCK : k \in G
      BY <1>0, <1>2, <1>3, Steps
    <2> QED
      BY <1>0, <2>1
  <1>5. High(NBLOCK) = idle
    <2>1. \A b \in idle : b \in Nat /\ b > 0
      BY <1>0
    <2>2. \A b \in idle : b > NBLOCK - NBLOCK
      BY <1>0, <2>1
    <2>3. \A b : b \in High(NBLOCK) <=> b \in idle
      BY <2>2
    <2> HIDE DEF High
    <2> QED
      BY <2>3
  <1> HIDE DEF High
  <1> QED
    BY <1>1, <1>4, <1>5

\* What a disk can be.
Disks == [sup : Supers, ino : [Files -> Addrs], blk : [Blocks -> Contents]]

LEMMA MadeConsistent ==
  ASSUME NEW ino \in [Files -> Addrs], NEW blk \in [Blocks -> Contents],
         \A f \in Files : IsInjective(ino[f]),
         \A f, g \in Files : f # g => Range(ino[f]) \intersect Range(ino[g]) = {}
  PROVE  /\ Made(ino, blk) \in Disks /\ Consistent(Made(ino, blk))
         /\ Made(ino, blk).ino = ino /\ ~Made(ino, blk).sup.dirty
  <1> DEFINE idle == Blocks \ UNION {Range(ino[f]) : f \in Files}
             list == makesuper(idle, blk)
             d == Made(ino, blk)
  <1>1. Holds(list, idle)
    <2>1. idle \in SUBSET Blocks
      OBVIOUS
    <2> HIDE DEF idle
    <2> QED
      BY <2>1, makesuperHolds
  <1> HIDE DEF list
  <1>2. PICK t, B : /\ Stack(t, B, list.free, list.blk) /\ list.tfree = Len(t)
                    /\ IsInjective(t) /\ Range(t) = idle
    BY <1>1 DEF Holds
  <1>3. t \in Seq(Blocks) /\ Len(t) \in Nat
    BY <1>2, StackTyped
  <1>4. Len(t) <= NBLOCK
    BY <1>2, <1>3, InjectiveLen
  <1>5. Chain(list.free, list.blk) = Reverse(t)
    BY <1>2, <1>4, ChainOfStack
  <1>6. list \in [free : Lists, tfree : Nat, blk : [Blocks -> Contents]]
    BY <1>1 DEF Holds
  <1>7. d = [sup |-> [free |-> list.free, tfree |-> list.tfree, dirty |-> FALSE],
             ino |-> ino, blk |-> list.blk]
    BY DEF Made, list
  <1> HIDE DEF d
  <1>8. list.tfree \in 0 .. NBLOCK
    BY <1>2, <1>3, <1>4, FilsysAssumption
  <1>9. d \in Disks
    BY <1>6, <1>7, <1>8 DEF Disks, Supers
  <1>10. \A f \in Files : Range(ino[f]) \subseteq Blocks
    <2> SUFFICES ASSUME NEW f \in Files PROVE Range(ino[f]) \subseteq Blocks
      OBVIOUS
    <2>1. ino[f] \in Seq(Blocks)
      BY AddrIsSeq
    <2>2. DOMAIN ino[f] = 1 .. Len(ino[f]) /\ \A i \in 1 .. Len(ino[f]) : ino[f][i] \in Blocks
      BY <2>1, ElementOfSeq
    <2> QED
      BY <2>2 DEF Range
  <1>11. Partition(t, ino)
    BY <1>2, <1>10 DEF Partition
  <1>12. Partition(Reverse(t), ino)
    BY <1>3, <1>11, PartitionReverse
  <1>13. Len(Reverse(t)) = Len(t)
    BY <1>3, ReverseSeq
  <1>14. /\ d.sup.free = list.free /\ d.blk = list.blk /\ d.ino = ino
         /\ d.sup.tfree = list.tfree /\ ~d.sup.dirty
    BY <1>7
  <1>15. Consistent(d)
    BY <1>2, <1>5, <1>12, <1>13, <1>14 DEF Consistent
  <1> QED
    BY <1>9, <1>14, <1>15 DEF d


\* Where a process has m_flock.
WithFlock == {"take", "refill", "give", "chain", "put", "freed", "smod",
              "superwrite", "superio"}

\* Where it has changed the free list, or is about to, and will call smod.
BeforeSmod == {"refill", "put", "smod"}

PlaceInv ==
  /\ pc \in [Procs -> {"user", "balloc", "bfree"} \union WithFlock]
  /\ cont \in [Procs -> {"take", "give", "freed"}]
  /\ "sup" \in DOMAIN disk

\* m_flock, and the gate of the super block's buffer, have one owner.
LockInv ==
  /\ \A p \in Procs : pc[p] \in WithFlock => flock = p
  /\ \A p \in Procs : pc[p] = "superio" => sgate = p
  /\ spc = "mssyncio" => sgate = Syncer

\* While the machine is down or the file system read only nobody is in it.
IdleInv ==
  power # "up" \/ ron =>
    /\ flock = Free /\ sgate = Free /\ spc = "user"
    /\ \A p \in Procs : pc[p] = "user"

\* The super block in core is on the disk, or on its way there, or somebody
\* will mark it as modified.
SavedInv ==
  power = "up" /\ ~ron /\ ~fmod =>
    \/ sgate = Free /\ disk.sup = sup
    \/ sgate # Free /\ scopy = sup
    \/ \E p \in Procs : pc[p] \in BeforeSmod

FInv == PlaceInv /\ LockInv /\ IdleInv /\ SavedInv

LEMMA InitFInv == Init => FInv
  BY FilsysAssumption DEF Init, FInv, PlaceInv, LockInv, IdleInv, SavedInv,
     Fresh, Made,
     WithFlock, BeforeSmod

(***************************************************************************)
(* smod marks the super block, or finds it marked.                         *)
(***************************************************************************)
LEMMA smodFInv ==
  ASSUME FInv, NEW p \in Procs, smod(p)
  PROVE  FInv'
  <1> USE FilsysAssumption DEF FInv, smod, Running, Goto, Yield, mount,
     superbuf, invars, cache, callvars, syncvars, history
  <1>1. PlaceInv'
    BY DEF PlaceInv, WithFlock
  <1>2. LockInv'
    BY DEF PlaceInv, LockInv, WithFlock
  <1>3. IdleInv'
    BY DEF PlaceInv, IdleInv, LockInv, WithFlock
  <1>4. SavedInv'
    BY DEF PlaceInv, SavedInv, LockInv, IdleInv, WithFlock, BeforeSmod
  <1> QED
    BY <1>1, <1>2, <1>3, <1>4

(***************************************************************************)
(* superwrite takes the super block as it is.                              *)
(***************************************************************************)
LEMMA superwriteFInv ==
  ASSUME FInv, NEW p \in Procs, superwrite(p)
  PROVE  FInv'
  <1> USE FilsysAssumption DEF FInv, superwrite, Running, Goto, Yield, mount,
     superbuf, invars, cache, callvars, syncvars, history
  <1>1. PlaceInv'
    BY DEF PlaceInv, WithFlock
  <1>2. LockInv'
    BY DEF PlaceInv, LockInv, WithFlock
  <1>3. IdleInv'
    BY DEF PlaceInv, IdleInv, LockInv, WithFlock
  <1>4. SavedInv'
    BY DEF PlaceInv, SavedInv, LockInv, IdleInv, WithFlock, BeforeSmod
  <1> QED
    BY <1>1, <1>2, <1>3, <1>4

(***************************************************************************)
(* What superwrite has taken is on the disk.                               *)
(***************************************************************************)
LEMMA superioFInv ==
  ASSUME FInv, NEW p \in Procs, superio(p)
  PROVE  FInv'
  <1> USE FilsysAssumption DEF FInv, superio, Running, Goto, Yield, mount,
     superbuf, invars, cache, callvars, syncvars, history
  <1>1. PlaceInv'
    BY DEF PlaceInv, WithFlock
  <1>2. LockInv'
    BY DEF PlaceInv, LockInv, WithFlock
  <1>3. IdleInv'
    BY DEF PlaceInv, IdleInv, LockInv, WithFlock
  <1>4. SavedInv'
    BY DEF PlaceInv, SavedInv, LockInv, IdleInv, WithFlock, BeforeSmod
  <1> QED
    BY <1>1, <1>2, <1>3, <1>4

(***************************************************************************)
(* A call that writes, up to balloc.                                       *)
(***************************************************************************)
LEMMA iwriteFInv ==
  ASSUME FInv, NEW p \in Procs, NEW f \in Files, iwrite(p, f)
  PROVE  FInv'
  <1> USE FilsysAssumption DEF FInv, iwrite, GotoGate, Running, Goto, Yield,
     mount, superbuf, invars, cache, callvars, syncvars, history
  <1>1. PlaceInv'
    BY DEF PlaceInv, WithFlock
  <1>2. LockInv'
    BY DEF PlaceInv, LockInv, WithFlock
  <1>3. IdleInv'
    BY DEF PlaceInv, IdleInv, LockInv, WithFlock
  <1>4. SavedInv'
    BY DEF PlaceInv, SavedInv, LockInv, IdleInv, WithFlock, BeforeSmod
  <1> QED
    BY <1>1, <1>2, <1>3, <1>4

(***************************************************************************)
(* balloc, from one sleep to the next.                                     *)
(***************************************************************************)
LEMMA ballocFInv ==
  ASSUME FInv, NEW p \in Procs, balloc(p)
  PROVE  FInv'
  <1> USE FilsysAssumption DEF FInv, balloc, CallSmod, Return, Running, Goto,
     Yield, mount, superbuf, invars, cache, callvars, syncvars, history
  <1>1. PlaceInv'
    BY DEF PlaceInv, WithFlock
  <1>2. LockInv'
    BY DEF PlaceInv, LockInv, WithFlock
  <1>3. IdleInv'
    BY DEF PlaceInv, IdleInv, LockInv, WithFlock
  <1>4. SavedInv'
    BY DEF PlaceInv, SavedInv, LockInv, IdleInv, WithFlock, BeforeSmod
  <1> QED
    BY <1>1, <1>2, <1>3, <1>4

(***************************************************************************)
(* balloc changes the free list: smod follows.                             *)
(***************************************************************************)
LEMMA takeFInv ==
  ASSUME FInv, NEW p \in Procs, take(p)
  PROVE  FInv'
  <1> USE FilsysAssumption DEF FInv, take, CallSmod, Running, Goto, Yield,
     mount, superbuf, invars, cache, callvars, syncvars, history
  <1>1. PlaceInv'
    BY DEF PlaceInv, WithFlock
  <1>2. LockInv'
    BY DEF PlaceInv, LockInv, WithFlock
  <1>3. IdleInv'
    BY DEF PlaceInv, IdleInv, LockInv, WithFlock
  <1>4. SavedInv'
    BY DEF PlaceInv, SavedInv, LockInv, IdleInv, WithFlock, BeforeSmod
  <1> QED
    BY <1>1, <1>2, <1>3, <1>4

(***************************************************************************)
(* So does it when the list was in a chain block.                          *)
(***************************************************************************)
LEMMA refillFInv ==
  ASSUME FInv, NEW p \in Procs, refill(p)
  PROVE  FInv'
  <1> USE FilsysAssumption DEF FInv, refill, CallSmod, Running, Goto, Yield,
     mount, superbuf, invars, cache, callvars, syncvars, history
  <1>1. PlaceInv'
    BY DEF PlaceInv, WithFlock
  <1>2. LockInv'
    BY DEF PlaceInv, LockInv, WithFlock
  <1>3. IdleInv'
    BY DEF PlaceInv, IdleInv, LockInv, WithFlock
  <1>4. SavedInv'
    BY DEF PlaceInv, SavedInv, LockInv, IdleInv, WithFlock, BeforeSmod
  <1> QED
    BY <1>1, <1>2, <1>3, <1>4

(***************************************************************************)
(* balloc opens m_flock.                                                   *)
(***************************************************************************)
LEMMA giveFInv ==
  ASSUME FInv, NEW p \in Procs, give(p)
  PROVE  FInv'
  <1> USE FilsysAssumption DEF FInv, give, Return, Running, Goto, Yield,
     mount, superbuf, invars, cache, callvars, syncvars, history
  <1>1. PlaceInv'
    BY DEF PlaceInv, WithFlock
  <1>2. LockInv'
    BY DEF PlaceInv, LockInv, WithFlock
  <1>3. IdleInv'
    BY DEF PlaceInv, IdleInv, LockInv, WithFlock
  <1>4. SavedInv'
    BY DEF PlaceInv, SavedInv, LockInv, IdleInv, WithFlock, BeforeSmod
  <1> QED
    BY <1>1, <1>2, <1>3, <1>4

(***************************************************************************)
(* A call that truncates, up to bfree.                                     *)
(***************************************************************************)
LEMMA ucreatFInv ==
  ASSUME FInv, NEW p \in Procs, NEW f \in Files, ucreat(p, f)
  PROVE  FInv'
  <1> USE FilsysAssumption DEF FInv, ucreat, GotoGate, Running, Goto, Yield,
     mount, superbuf, invars, cache, callvars, syncvars, history
  <1>1. PlaceInv'
    BY DEF PlaceInv, WithFlock
  <1>2. LockInv'
    BY DEF PlaceInv, LockInv, WithFlock
  <1>3. IdleInv'
    BY DEF PlaceInv, IdleInv, LockInv, WithFlock
  <1>4. SavedInv'
    BY DEF PlaceInv, SavedInv, LockInv, IdleInv, WithFlock, BeforeSmod
  <1> QED
    BY <1>1, <1>2, <1>3, <1>4

(***************************************************************************)
(* bfree, from one sleep to the next.                                      *)
(***************************************************************************)
LEMMA bfreeFInv ==
  ASSUME FInv, NEW p \in Procs, bfree(p)
  PROVE  FInv'
  <1> USE FilsysAssumption DEF FInv, bfree, Running, Goto, Yield, mount,
     superbuf, invars, cache, callvars, syncvars, history
  <1>1. PlaceInv'
    BY DEF PlaceInv, WithFlock
  <1>2. LockInv'
    BY DEF PlaceInv, LockInv, WithFlock
  <1>3. IdleInv'
    BY DEF PlaceInv, IdleInv, LockInv, WithFlock
  <1>4. SavedInv'
    BY DEF PlaceInv, SavedInv, LockInv, IdleInv, WithFlock, BeforeSmod
  <1> QED
    BY <1>1, <1>2, <1>3, <1>4

(***************************************************************************)
(* bfree changes the free list: put follows,                               *)
(***************************************************************************)
LEMMA chainFInv ==
  ASSUME FInv, NEW p \in Procs, chain(p)
  PROVE  FInv'
  <1> USE FilsysAssumption DEF FInv, chain, Running, Goto, Yield, mount,
     superbuf, invars, cache, callvars, syncvars, history
  <1>1. PlaceInv'
    BY DEF PlaceInv, WithFlock
  <1>2. LockInv'
    BY DEF PlaceInv, LockInv, WithFlock
  <1>3. IdleInv'
    BY DEF PlaceInv, IdleInv, LockInv, WithFlock
  <1>4. SavedInv'
    BY DEF PlaceInv, SavedInv, LockInv, IdleInv, WithFlock, BeforeSmod
  <1> QED
    BY <1>1, <1>2, <1>3, <1>4

(***************************************************************************)
(* and smod.                                                               *)
(***************************************************************************)
LEMMA putFInv ==
  ASSUME FInv, NEW p \in Procs, put(p)
  PROVE  FInv'
  <1> USE FilsysAssumption DEF FInv, put, CallSmod, Running, Goto, Yield,
     mount, superbuf, invars, cache, callvars, syncvars, history
  <1>1. PlaceInv'
    BY DEF PlaceInv, WithFlock
  <1>2. LockInv'
    BY DEF PlaceInv, LockInv, WithFlock
  <1>3. IdleInv'
    BY DEF PlaceInv, IdleInv, LockInv, WithFlock
  <1>4. SavedInv'
    BY DEF PlaceInv, SavedInv, LockInv, IdleInv, WithFlock, BeforeSmod
  <1> QED
    BY <1>1, <1>2, <1>3, <1>4

(***************************************************************************)
(* bfree opens m_flock.                                                    *)
(***************************************************************************)
LEMMA freedFInv ==
  ASSUME FInv, NEW p \in Procs, freed(p)
  PROVE  FInv'
  <1> USE FilsysAssumption DEF FInv, freed, Return, Running, Goto, Yield,
     mount, superbuf, invars, cache, callvars, syncvars, history
  <1>1. PlaceInv'
    BY DEF PlaceInv, WithFlock
  <1>2. LockInv'
    BY DEF PlaceInv, LockInv, WithFlock
  <1>3. IdleInv'
    BY DEF PlaceInv, IdleInv, LockInv, WithFlock
  <1>4. SavedInv'
    BY DEF PlaceInv, SavedInv, LockInv, IdleInv, WithFlock, BeforeSmod
  <1> QED
    BY <1>1, <1>2, <1>3, <1>4

(***************************************************************************)
(* The steps of sync before mssync, and of the buffer cache, leave the     *)
(* super block alone.                                                      *)
(***************************************************************************)
LEMMA QuietFInv ==
  ASSUME FInv, spc # "mssyncio",
         spc' = spc \/ (spc' # "mssyncio" /\ power = "up" /\ ~ron),
         "sup" \in DOMAIN disk', disk'.sup = disk.sup,
         UNCHANGED <<sup, fmod, ron, flock, sgate, scopy, pc, cont, power>>
  PROVE  FInv'
  BY DEF FInv, PlaceInv, LockInv, IdleInv, SavedInv

(***************************************************************************)
(* mssync clears the mark and takes the super block as it is.              *)
(***************************************************************************)
LEMMA mssyncClaimFInv ==
  ASSUME FInv, mssyncClaim
  PROVE  FInv'
  <1> USE FilsysAssumption DEF FInv, mssyncClaim, SyncAt, Calls, mount,
     superbuf, invars, cache, callvars, syncvars, history
  <1>1. PlaceInv'
    BY DEF PlaceInv, WithFlock
  <1>2. LockInv'
    BY DEF PlaceInv, LockInv, WithFlock
  <1>3. IdleInv'
    BY DEF PlaceInv, IdleInv, LockInv, WithFlock
  <1>4. SavedInv'
    BY DEF PlaceInv, SavedInv, LockInv, IdleInv, WithFlock, BeforeSmod
  <1> QED
    BY <1>1, <1>2, <1>3, <1>4

(***************************************************************************)
(* What mssync has taken is on the disk.                                   *)
(***************************************************************************)
LEMMA mssyncDoneFInv ==
  ASSUME FInv, mssyncDone
  PROVE  FInv'
  <1> USE FilsysAssumption DEF FInv, mssyncDone, SyncAt, Stage, usync, Calls,
     mount, superbuf, invars, cache, callvars, syncvars, history
  <1>1. PlaceInv'
    BY DEF PlaceInv, WithFlock
  <1>2. LockInv'
    BY DEF PlaceInv, LockInv, WithFlock
  <1>3. IdleInv'
    BY DEF PlaceInv, IdleInv, LockInv, WithFlock
  <1>4. SavedInv'
    BY DEF PlaceInv, SavedInv, LockInv, IdleInv, WithFlock, BeforeSmod
  <1> QED
    BY <1>1, <1>2, <1>3, <1>4

(***************************************************************************)
(* The machine stops.                                                      *)
(***************************************************************************)
LEMMA CrashFInv ==
  ASSUME FInv, Crash
  PROVE  FInv'
  <1> USE FilsysAssumption DEF FInv, Crash, mount, superbuf, invars, cache,
     callvars, syncvars, history
  <1>1. PlaceInv'
    BY DEF PlaceInv, WithFlock
  <1>2. LockInv'
    BY DEF PlaceInv, LockInv, WithFlock
  <1>3. IdleInv'
    BY DEF PlaceInv, IdleInv, LockInv, WithFlock
  <1>4. SavedInv'
    BY DEF PlaceInv, SavedInv, LockInv, IdleInv, WithFlock, BeforeSmod
  <1> QED
    BY <1>1, <1>2, <1>3, <1>4

(***************************************************************************)
(* The file system is mounted,                                             *)
(***************************************************************************)
LEMMA fsmountFInv ==
  ASSUME FInv, fsmount
  PROVE  FInv'
  <1> USE FilsysAssumption DEF FInv, fsmount, Calls, mount, superbuf, invars,
     cache, callvars, syncvars, history
  <1>1. PlaceInv'
    BY DEF PlaceInv, WithFlock
  <1>2. LockInv'
    BY DEF PlaceInv, LockInv, WithFlock
  <1>3. IdleInv'
    BY DEF PlaceInv, IdleInv, LockInv, WithFlock
  <1>4. SavedInv'
    BY DEF PlaceInv, SavedInv, LockInv, IdleInv, WithFlock, BeforeSmod
  <1> QED
    BY <1>1, <1>2, <1>3, <1>4

(***************************************************************************)
(* repaired                                                                *)
(***************************************************************************)
LEMMA checkFInv ==
  ASSUME FInv, check
  PROVE  FInv'
  <1>1. PICK kept : disk' = Repaired(disk, kept)
    BY DEF check
  <1>2. "sup" \in DOMAIN disk'
    BY <1>1 DEF Repaired, Made, FInv, PlaceInv
  <1>3. /\ power # "up" \/ ron
        /\ power' # "up" \/ ron'
        /\ UNCHANGED <<sup, fmod, ron, flock, sgate, scopy, pc, cont, spc>>
    BY DEF check, mount, superbuf, Calls, syncvars
  <1> QED
    BY <1>2, <1>3 DEF FInv, PlaceInv, LockInv, IdleInv, SavedInv

(***************************************************************************)
(* and made writable.                                                      *)
(***************************************************************************)
LEMMA fsremountFInv ==
  ASSUME FInv, fsremount
  PROVE  FInv'
  <1> USE FilsysAssumption DEF FInv, fsremount, SyncAt, Calls, mount,
     superbuf, invars, cache, callvars, syncvars, history
  <1>1. PlaceInv'
    BY DEF PlaceInv, WithFlock
  <1>2. LockInv'
    BY DEF PlaceInv, LockInv, WithFlock
  <1>3. IdleInv'
    BY DEF PlaceInv, IdleInv, LockInv, WithFlock
  <1>4. SavedInv'
    BY DEF PlaceInv, SavedInv, LockInv, IdleInv, WithFlock, BeforeSmod
  <1> QED
    BY <1>1, <1>2, <1>3, <1>4

LEMMA WrittenSup ==
  ASSUME NEW x \in Files \union Blocks, Written(x), "sup" \in DOMAIN disk
  PROVE  "sup" \in DOMAIN disk' /\ disk'.sup = disk.sup
  BY DEF Written

(***************************************************************************)
(* sync, from one sleep to the next.                                       *)
(***************************************************************************)
LEMMA SyncFInv ==
  ASSUME FInv, Sync
  PROVE  FInv'
  <1> USE DEF SyncAt, Calls, mount, superbuf, invars, cache, history
  <1>0. "sup" \in DOMAIN disk /\ (ron => spc = "user")
    BY DEF FInv, PlaceInv, IdleInv
  <1>1. CASE syncBegin
    BY <1>0, <1>1, QuietFInv DEF syncBegin, Stage, usync
  <1>2. ASSUME NEW f \in Files, isync(f) PROVE FInv'
    BY <1>0, <1>2, QuietFInv DEF isync
  <1>3. CASE icopymd
    BY <1>0, <1>3, QuietFInv DEF icopymd
  <1>4. ASSUME NEW x \in Files \union Blocks, bsync(x) PROVE FInv'
    BY <1>0, <1>4, WrittenSup, QuietFInv DEF bsync
  <1>5. CASE syncNext
    BY <1>0, <1>5, QuietFInv DEF syncNext, Stage, usync
  <1>6. CASE mssync
    BY <1>0, <1>6, QuietFInv DEF mssync, Stage, usync
  <1> QED
    BY <1>1, <1>2, <1>3, <1>4, <1>5, <1>6, mssyncClaimFInv, mssyncDoneFInv
       DEF Sync

(***************************************************************************)
(* The cache writes a modified buffer at any time.                         *)
(***************************************************************************)
LEMMA flushFInv ==
  ASSUME FInv, NEW x \in Files \union Blocks, flush(x)
  PROVE  FInv'
  <1>1. "sup" \in DOMAIN disk' /\ disk'.sup = disk.sup
    BY WrittenSup DEF flush, FInv, PlaceInv
  <1> QED
    BY <1>1 DEF flush, FInv, PlaceInv, LockInv, IdleInv, SavedInv, Calls,
       mount,
       superbuf, history

LEMMA NextFInv == FInv /\ [Next]_vars => FInv'
  <1> SUFFICES ASSUME FInv, [Next]_vars PROVE FInv'
    OBVIOUS
  <1>1. CASE UNCHANGED vars
    BY <1>1 DEF vars, FInv, PlaceInv, LockInv, IdleInv, SavedInv
  <1>2. ASSUME NEW p \in Procs, Write(p) PROVE FInv'
    BY <1>2, iwriteFInv, ballocFInv, takeFInv, refillFInv, giveFInv DEF Write
  <1>3. ASSUME NEW p \in Procs, Truncate(p) PROVE FInv'
    BY <1>3, ucreatFInv, bfreeFInv, chainFInv, putFInv, freedFInv DEF Truncate
  <1>4. ASSUME NEW p \in Procs, Super(p) PROVE FInv'
    BY <1>4, smodFInv, superwriteFInv, superioFInv DEF Super
  <1>5. CASE Sync \/ Crash \/ fsmount \/ check \/ fsremount
    BY <1>5, SyncFInv, CrashFInv, fsmountFInv, checkFInv, fsremountFInv
  <1>6. ASSUME NEW x \in Files \union Blocks, flush(x) PROVE FInv'
    BY <1>6, flushFInv
  <1>7. CASE rest
    BY <1>1, <1>7 DEF rest
  <1> QED
    BY <1>1, <1>2, <1>3, <1>4, <1>5, <1>6, <1>7 DEF Next

(***************************************************************************)
(* When s_fmod is clear and nobody is in balloc, bfree or superwrite, the  *)
(* disk has the super block that is in core: neither a sync that clears    *)
(* s_fmod while balloc or bfree sleeps, nor a crash, a repair and a        *)
(* remount leave a change of the free list in core only.                   *)
(***************************************************************************)
THEOREM FilsysFreeListSaved == Spec => []FreeListSaved
  <1>1. FInv => FreeListSaved
    <2> SUFFICES ASSUME FInv, power = "up", ~ron, ~fmod, flock = Free, sgate = Free
                 PROVE  disk.sup = sup
      BY DEF FreeListSaved, Writable
    <2>1. \A p \in Procs : pc[p] \notin BeforeSmod
      BY FilsysAssumption DEF FInv, LockInv, WithFlock, BeforeSmod
    <2> QED
      BY <2>1 DEF FInv, SavedInv
  <1> QED
    BY InitFInv, NextFInv, <1>1, PTL DEF Spec

-----------------------------------------------------------------------------
(* Where every block is.                                                   *)

\* Where a process is in balloc or bfree; smod counts as where it returns to.
At(p) == IF pc[p] \in {"smod", "superwrite", "superio"} THEN cont[p] ELSE pc[p]

Writing == {"balloc", "take", "refill", "give"}
Truncating == {"bfree", "chain", "put", "freed"}

\* A process in a call has one inode, an inode that is locked one process.
CallInv ==
  /\ \A p \in Procs : pc[p] = "user" => bl[p] = NoBlock /\ n[p] = 0
  /\ \A p \in Procs : pc[p] # "user" => fl[p] \in Files /\ ilock[fl[p]] = p
  /\ \A f \in Files : ilock[f] # Free => pc[ilock[f]] # "user" /\ fl[ilock[f]] = f

\* What a process in balloc has: no block before it takes one, and room for it.
WriteInv ==
  \A p \in Procs : At(p) \in Writing =>
    /\ n[p] = 0 /\ Len(mem[fl[p]]) < ND
    /\ bl[p] # NoBlock <=> At(p) \in {"refill", "give"}

\* What a process in bfree has: a number of addresses left.
TruncInv ==
  \A p \in Procs : At(p) \in Truncating =>
    /\ bl[p] = NoBlock /\ n[p] <= Len(mem[fl[p]])
    /\ At(p) # "freed" => n[p] > 0

\* What the owner of m_flock knows of the list.
ListInv ==
  \A p \in Procs :
    /\ At(p) = "take" => sup.free # <<>>
    /\ pc[p] = "refill" => sup.free = <<>>
    /\ pc[p] = "chain" => Len(sup.free) \in {0, NICFREE}
    /\ pc[p] = "put" => Len(sup.free) < NICFREE /\ cpu = p

\* l is the list balloc will follow: in the super block, in the block that balloc
\* reads, or in the block that bfree has written it to.
ListIs(l) ==
  /\ \A p \in Procs : pc[p] = "refill" => l = cblk[bl[p]]
  /\ \A p \in Procs : pc[p] = "put" /\ sup.free = <<>> => l = cblk[mem[fl[p]][n[p]]]
  /\ (\A p \in Procs : pc[p] # "refill" /\ ~(pc[p] = "put" /\ sup.free = <<>>)) =>
       l = sup.free

\* The block that balloc reads is still counted.
Unread == IF \E p \in Procs : pc[p] = "refill" THEN 1 ELSE 0

StoreInv ==
  power = "up" /\ ~ron =>
    \E l, t, B :
      /\ ListIs(l) /\ Stack(t, B, l, cblk)
      /\ Partition(t, [f \in Files |-> Held(f)])
      /\ sup.tfree = Len(t) + Unread

\* A disk that check has marked clean is consistent.
RonInv == power = "up" /\ ron /\ ~disk.sup.dirty => Consistent(disk)

LocalInv == CallInv /\ WriteInv /\ TruncInv /\ ListInv

OInv == TypeOK /\ FInv /\ LocalInv /\ StoreInv /\ RonInv


\* The types that the steps of a process depend on.
CallType ==
  /\ pc \in [Procs -> {"user", "balloc", "take", "refill", "give", "bfree",
                       "chain", "put", "freed", "smod", "superwrite", "superio"}]
  /\ fl \in [Procs -> Files \union {NoFile}] /\ bl \in [Procs -> Blocks \union {NoBlock}]
  /\ n \in [Procs -> 0 .. ND] /\ cont \in [Procs -> {"take", "give", "freed"}]
  /\ ilock \in [Files -> Procs \union {Free}]
  /\ mem \in [Files -> Addrs]
  /\ \A f \in Files : Len(mem[f]) \in Nat /\ (mem[f] = <<>> <=> Len(mem[f]) = 0)

LEMMA TypeCall == TypeOK => CallType
  <1> SUFFICES ASSUME TypeOK, NEW f \in Files
               PROVE  Len(mem[f]) \in Nat /\ (mem[f] = <<>> <=> Len(mem[f]) = 0)
    BY DEF TypeOK, CallType
  <1>1. mem[f] \in Seq(Blocks)
    BY AddrIsSeq DEF TypeOK
  <1> QED
    BY <1>1, EmptySeq

\* Nobody else has m_flock.
LEMMA FlockAlone ==
  ASSUME FInv, NEW p \in Procs, flock = p \/ flock = Free
  PROVE  \A q \in Procs \ {p} : pc[q] \notin WithFlock
  BY FilsysAssumption DEF FInv, LockInv

\* What is asked of the list is asked of the owner of m_flock.
LEMMA OwnerList ==
  ASSUME NEW p \in Procs, \A q \in Procs \ {p} : pc'[q] \notin WithFlock,
         At(p)' = "take" => sup'.free # <<>>,
         pc'[p] = "refill" => sup'.free = <<>>,
         pc'[p] = "chain" => Len(sup'.free) \in {0, NICFREE},
         pc'[p] = "put" => Len(sup'.free) < NICFREE /\ cpu' = p
  PROVE  ListInv'
  <1>1. \A q \in Procs \ {p} : At(q)' # "take"
    BY DEF At, WithFlock
  <1>2. \A q \in Procs \ {p} : pc'[q] \notin {"refill", "chain", "put"}
    BY DEF WithFlock
  <1> QED
    BY <1>1, <1>2 DEF ListInv

CallsInv == CallInv /\ WriteInv /\ TruncInv

\* p goes on with what it is doing.
LEMMA GoOnCalls ==
  ASSUME CallType, CallsInv, NEW p \in Procs, pc[p] # "user", NEW x, x # "user",
         pc' = [pc EXCEPT ![p] = x], UNCHANGED <<fl, bl, n, ilock, mem>>,
         At(p)' = At(p), cont' = cont
  PROVE  CallsInv'
  <1>1. \A q \in Procs : At(q)' = At(q)
    <2> SUFFICES ASSUME NEW q \in Procs, q # p PROVE At(q)' = At(q)
      OBVIOUS
    <2>1. pc'[q] = pc[q]
      BY DEF CallType
    <2> QED
      BY <2>1 DEF At
  <1>2. pc'[p] # "user" /\ \A q \in Procs : q # p => pc'[q] = pc[q]
    BY DEF CallType
  <1>3. CallInv'
    BY <1>2 DEF CallsInv, CallInv, CallType
  <1> QED
    BY <1>1, <1>3 DEF CallsInv, WriteInv, TruncInv

\* p returns from its call.
LEMMA ReturnCalls ==
  ASSUME CallType, CallsInv, NEW p \in Procs, pc[p] # "user", Return(p),
         \A f \in Files : f # fl[p] => mem'[f] = mem[f]
  PROVE  CallsInv'
  <1>1. /\ pc'[p] = "user" /\ bl'[p] = NoBlock /\ n'[p] = 0
        /\ \A q \in Procs : q # p => /\ pc'[q] = pc[q] /\ fl'[q] = fl[q] /\ bl'[q] = bl[q]
                                     /\ n'[q] = n[q] /\ cont'[q] = cont[q]
    BY DEF Return, Yield, CallType
  <1>2. fl[p] \in Files /\ ilock[fl[p]] = p
    BY DEF CallsInv, CallInv
  <1>3. ilock'[fl[p]] = Free /\ \A f \in Files : f # fl[p] => ilock'[f] = ilock[f]
    BY <1>2 DEF Return, CallType
  <1>4. \A q \in Procs : q # p /\ pc[q] # "user" => fl[q] \in Files /\ fl[q] # fl[p]
    BY <1>2 DEF CallsInv, CallInv
  <1>5. \A f \in Files : ilock'[f] # Free => ilock'[f] = ilock[f] /\ ilock[f] # p /\ ilock[f] \in Procs
    BY <1>2, <1>3 DEF CallsInv, CallInv, CallType
  <1>6. CallInv'
    <2>1. \A q \in Procs : pc'[q] = "user" => bl'[q] = NoBlock /\ n'[q] = 0
      BY <1>1 DEF CallsInv, CallInv
    <2>2. ASSUME NEW q \in Procs, pc'[q] # "user" PROVE fl'[q] \in Files /\ ilock'[fl'[q]] = q
      <3>1. q # p /\ pc[q] # "user" /\ fl'[q] = fl[q]
        BY <1>1, <2>2
      <3>2. fl[q] \in Files /\ fl[q] # fl[p] /\ ilock[fl[q]] = q
        BY <1>4, <3>1 DEF CallsInv, CallInv
      <3> QED
        BY <1>3, <3>1, <3>2
    <2>3. ASSUME NEW f \in Files, ilock'[f] # Free
          PROVE  pc'[ilock'[f]] # "user" /\ fl'[ilock'[f]] = f
      <3>1. PICK q : q = ilock[f]
        OBVIOUS
      <3>2. ilock'[f] = q /\ q # p /\ q \in Procs /\ q # Free
        BY <1>5, <2>3, <3>1
      <3>3. pc[q] # "user" /\ fl[q] = f
        BY <3>1, <3>2 DEF CallsInv, CallInv
      <3> QED
        BY <1>1, <3>2, <3>3
    <2> QED
      BY <2>1, <2>2, <2>3 DEF CallInv
  <1>7. At(p)' = "user" /\ \A q \in Procs : q # p => At(q)' = At(q)
    BY <1>1 DEF At
  <1>8. \A q \in Procs : At(q) # "user" => pc[q] # "user"
    BY DEF At
  <1>9. \A q \in Procs : q # p /\ At(q) # "user" => mem'[fl[q]] = mem[fl[q]]
    BY <1>4, <1>8
  <1>10. WriteInv'
    BY <1>1, <1>7, <1>9 DEF CallsInv, WriteInv, Writing
  <1>11. TruncInv'
    BY <1>1, <1>7, <1>9 DEF CallsInv, TruncInv, Truncating
  <1> QED
    BY <1>6, <1>10, <1>11 DEF CallsInv

\* p begins a call.
LEMMA BeginCalls ==
  ASSUME CallType, CallsInv, NEW p \in Procs, pc[p] = "user", NEW f \in Files,
         ilock[f] = Free, NEW x \in {"balloc", "bfree"}, pc' = [pc EXCEPT ![p] = x],
         ilock' = [ilock EXCEPT ![f] = p], fl' = [fl EXCEPT ![p] = f],
         UNCHANGED <<bl, mem, cont>>,
         n' = [n EXCEPT ![p] = IF x = "bfree" THEN Len(mem[f]) ELSE 0],
         x = "bfree" => Len(mem[f]) > 0, x = "balloc" => Len(mem[f]) < ND
  PROVE  CallsInv'
  <1>1. /\ pc'[p] = x /\ fl'[p] = f /\ bl'[p] = NoBlock
        /\ n'[p] = IF x = "bfree" THEN Len(mem[f]) ELSE 0
        /\ \A q \in Procs : q # p => /\ pc'[q] = pc[q] /\ fl'[q] = fl[q] /\ bl'[q] = bl[q]
                                     /\ n'[q] = n[q]
    BY DEF CallType, CallsInv, CallInv
  <1>2. ilock'[f] = p /\ \A g \in Files : g # f => ilock'[g] = ilock[g]
    BY DEF CallType
  <1>3. \A q \in Procs : pc[q] # "user" => q # p /\ fl[q] # f
    BY FilsysAssumption DEF CallsInv, CallInv
  <1>4. \A g \in Files : ilock[g] # Free => ilock[g] # p /\ ilock[g] \in Procs
    BY DEF CallsInv, CallInv, CallType
  <1>5. CallInv'
    BY <1>1, <1>2, <1>3, <1>4 DEF CallsInv, CallInv
  <1>6. At(p)' = x /\ \A q \in Procs : q # p => At(q)' = At(q)
    BY <1>1 DEF At
  <1>7. WriteInv'
    BY <1>1, <1>6 DEF CallsInv, WriteInv, Writing
  <1>8. TruncInv'
    BY <1>1, <1>6 DEF CallsInv, TruncInv, Truncating, CallType
  <1> QED
    BY <1>5, <1>7, <1>8 DEF CallsInv



\* smod returns to where it was called.
LEMMA SmodLocalInv ==
  ASSUME TypeOK, FInv, LocalInv, NEW p \in Procs, smod(p) \/ superwrite(p) \/ superio(p)
  PROVE  LocalInv'
  <1>1. PICK x : /\ x \in {cont[p], "superwrite", "superio"}
                 /\ pc' = [pc EXCEPT ![p] = x]
    BY DEF smod, superwrite, superio, Goto, Yield
  <1>2. /\ pc[p] \in {"smod", "superwrite", "superio"} /\ flock' = flock
        /\ UNCHANGED <<fl, bl, n, ilock, mem, cont>>
    BY DEF smod, superwrite, superio, Running, callvars, invars
  <1>3. CallType /\ cont[p] \in {"take", "give", "freed"} /\ pc'[p] = x
    BY <1>1, TypeCall DEF CallType
  <1>4. At(p)' = At(p) /\ x # "user" /\ pc[p] # "user" /\ At(p) = cont[p]
    BY <1>1, <1>2, <1>3 DEF At
  <1>5. CallsInv'
    BY <1>1, <1>2, <1>3, <1>4, GoOnCalls DEF LocalInv, CallsInv
  <1>6. sup'.free = sup.free
    BY DEF smod, superwrite, superio, TypeOK, Supers
  <1>7. flock = p /\ \A q \in Procs \ {p} : pc[q] \notin WithFlock
    BY <1>2, FlockAlone DEF FInv, LockInv, WithFlock
  <1>8. \A q \in Procs \ {p} : pc'[q] \notin WithFlock
    BY <1>1, <1>3, <1>7 DEF CallType
  <1>9. /\ At(p)' = "take" => sup'.free # <<>>
        /\ pc'[p] \notin {"refill", "chain", "put"}
    BY <1>1, <1>3, <1>4, <1>6 DEF LocalInv, ListInv
  <1>10. ListInv'
    BY <1>8, <1>9, OwnerList
  <1> QED
    BY <1>5, <1>10 DEF LocalInv, CallsInv

\* A call begins, or is refused because the file system is read only.
LEMMA iwriteLocalInv ==
  ASSUME TypeOK, FInv, LocalInv, NEW p \in Procs, NEW f \in Files, iwrite(p, f)
  PROVE  LocalInv'
  <1>0. CallType /\ CallsInv /\ pc[p] = "user" /\ ilock[f] = Free /\ Len(mem[f]) < ND
    BY TypeCall DEF iwrite, Running, LocalInv, CallsInv
  <1>1. CASE ron
    <2>1. UNCHANGED <<cpu, pc, fl, bl, n, cont, ilock, mem, sup>>
      BY <1>1 DEF iwrite
    <2> QED
      BY <2>1 DEF LocalInv, CallInv, WriteInv, TruncInv, ListInv, At
  <1>2. CASE ~ron
    <2>1. /\ ilock' = [ilock EXCEPT ![f] = p] /\ fl' = [fl EXCEPT ![p] = f]
          /\ pc' = [pc EXCEPT ![p] = "balloc"] /\ n' = n
          /\ UNCHANGED <<bl, mem, cont, sup>>
      BY <1>2 DEF iwrite, GotoGate, Goto, Yield
    <2>2. n[p] = 0 /\ n \in [Procs -> 0 .. ND]
      BY <1>0 DEF CallsInv, CallInv, CallType
    <2>3. n' = [n EXCEPT ![p] = IF "balloc" = "bfree" THEN Len(mem[f]) ELSE 0]
      BY <2>1, <2>2
    <2>4. CallsInv'
      BY <1>0, <2>1, <2>3, BeginCalls
    <2>5. ListInv'
      <3>1. \A q \in Procs : q # p => pc[q] # "put"
        BY FilsysAssumption DEF iwrite, Running, LocalInv, ListInv
      <3> QED
        BY <1>0, <2>1, <3>1 DEF LocalInv, ListInv, At, CallType
    <2> QED
      BY <2>4, <2>5 DEF LocalInv, CallsInv
  <1> QED
    BY <1>1, <1>2

LEMMA ucreatLocalInv ==
  ASSUME TypeOK, FInv, LocalInv, NEW p \in Procs, NEW f \in Files, ucreat(p, f)
  PROVE  LocalInv'
  <1>0. CallType /\ CallsInv /\ pc[p] = "user" /\ ilock[f] = Free /\ Len(mem[f]) > 0
    BY TypeCall DEF ucreat, Running, LocalInv, CallsInv, CallType
  <1>1. /\ ilock' = [ilock EXCEPT ![f] = p] /\ fl' = [fl EXCEPT ![p] = f]
        /\ pc' = [pc EXCEPT ![p] = "bfree"] /\ n' = [n EXCEPT ![p] = Len(mem[f])]
        /\ UNCHANGED <<bl, mem, cont, sup>>
    BY DEF ucreat, GotoGate, Goto, Yield
  <1>2. n' = [n EXCEPT ![p] = IF "bfree" = "bfree" THEN Len(mem[f]) ELSE 0]
    BY <1>1
  <1>3. CallsInv'
    BY <1>0, <1>1, <1>2, BeginCalls
  <1>4. ListInv'
    <2>1. \A q \in Procs : q # p => pc[q] # "put"
      BY FilsysAssumption DEF ucreat, Running, LocalInv, ListInv
    <2> QED
      BY <1>0, <1>1, <2>1 DEF LocalInv, ListInv, At, CallType
  <1> QED
    BY <1>3, <1>4 DEF LocalInv, CallsInv

LEMMA ballocLocalInv ==
  ASSUME TypeOK, FInv, LocalInv, NEW p \in Procs, balloc(p)
  PROVE  LocalInv'
  <1>0. CallType /\ CallsInv /\ pc[p] = "balloc" /\ flock = Free /\ mem' = mem /\ sup' = sup
    BY TypeCall DEF balloc, Running, LocalInv, CallsInv
  <1>1. \A q \in Procs \ {p} : pc[q] \notin WithFlock
    BY <1>0, FlockAlone
  <1>2. CASE sup.free = <<>>
    <2>1. Return(p)
      BY <1>2 DEF balloc
    <2>2. CallsInv'
      BY <1>0, <2>1, ReturnCalls
    <2>3. pc'[p] = "user" /\ \A q \in Procs \ {p} : pc'[q] \notin WithFlock
      BY <1>0, <1>1, <2>1 DEF Return, Yield, CallType
    <2>4. At(p)' = "user"
      BY <2>3 DEF At
    <2>5. ListInv'
      BY <2>3, <2>4, OwnerList
    <2> QED
      BY <2>2, <2>5 DEF LocalInv, CallsInv
  <1>3. CASE sup.free # <<>>
    <2>1. /\ pc' = [pc EXCEPT ![p] = "smod"] /\ cont' = [cont EXCEPT ![p] = "take"]
          /\ UNCHANGED <<fl, bl, n, ilock>>
      BY <1>3 DEF balloc, CallSmod, Goto, callvars
    <2>2. pc'[p] = "smod" /\ \A q \in Procs : q # p => pc'[q] = pc[q] /\ cont'[q] = cont[q]
      BY <1>0, <2>1 DEF CallType
    <2>3. CallInv'
      BY <1>0, <2>1, <2>2 DEF CallsInv, CallInv, CallType
    <2>4. /\ At(p) = "balloc" /\ At(p)' = "take"
          /\ \A q \in Procs : q # p => At(q)' = At(q)
      BY <1>0, <2>1, <2>2 DEF At, CallType
    <2>5. WriteInv'
      BY <1>0, <2>1, <2>4 DEF CallsInv, WriteInv, Writing
    <2>6. TruncInv'
      BY <1>0, <2>1, <2>4 DEF CallsInv, TruncInv, Truncating
    <2>7. ListInv'
      <3>1. \A q \in Procs \ {p} : pc'[q] \notin WithFlock
        BY <1>1, <2>2
      <3> QED
        BY <1>0, <1>3, <2>2, <3>1, OwnerList
    <2> QED
      BY <2>3, <2>5, <2>6, <2>7 DEF LocalInv
  <1> QED
    BY <1>2, <1>3


\* p goes on to another part of its call.
LEMMA MoveCalls ==
  ASSUME CallType, CallsInv, NEW p \in Procs, pc[p] # "user", NEW x, x # "user",
         pc' = [pc EXCEPT ![p] = x], UNCHANGED <<fl, ilock, mem>>,
         \A q \in Procs : q # p => bl'[q] = bl[q] /\ n'[q] = n[q] /\ cont'[q] = cont[q],
         At(p)' \in Writing =>
           /\ n'[p] = 0 /\ Len(mem[fl[p]]) < ND
           /\ bl'[p] # NoBlock <=> At(p)' \in {"refill", "give"},
         At(p)' \in Truncating =>
           /\ bl'[p] = NoBlock /\ n'[p] <= Len(mem[fl[p]])
           /\ At(p)' # "freed" => n'[p] > 0
  PROVE  CallsInv'
  <1>1. pc'[p] = x /\ \A q \in Procs : q # p => pc'[q] = pc[q]
    BY DEF CallType
  <1>2. CallInv'
    BY <1>1 DEF CallsInv, CallInv, CallType
  <1>3. \A q \in Procs : q # p => At(q)' = At(q)
    BY <1>1 DEF At
  <1>4. WriteInv'
    BY <1>3 DEF CallsInv, WriteInv
  <1>5. TruncInv'
    BY <1>3 DEF CallsInv, TruncInv
  <1> QED
    BY <1>2, <1>4, <1>5 DEF CallsInv

\* The list, once p has taken a step with m_flock.
LEMMA MoveLocal ==
  ASSUME CallType, FInv, NEW p \in Procs, flock = p \/ flock = Free, NEW x,
         pc' = [pc EXCEPT ![p] = x], CallsInv',
         At(p)' = "take" => sup'.free # <<>>,
         x = "refill" => sup'.free = <<>>,
         x = "chain" => Len(sup'.free) \in {0, NICFREE},
         x = "put" => Len(sup'.free) < NICFREE /\ cpu' = p
  PROVE  LocalInv'
  <1>1. pc'[p] = x /\ \A q \in Procs \ {p} : pc'[q] \notin WithFlock
    BY FlockAlone DEF CallType
  <1>2. ListInv'
    BY <1>1, OwnerList
  <1> QED
    BY <1>2 DEF LocalInv, CallsInv

LEMMA takeLocalInv ==
  ASSUME TypeOK, FInv, LocalInv, NEW p \in Procs, take(p)
  PROVE  LocalInv'
  <1>0. CallType /\ CallsInv /\ pc[p] = "take" /\ flock = p /\ UNCHANGED <<fl, ilock, mem, n>>
    BY TypeCall DEF take, Running, LocalInv, CallsInv, invars, FInv, LockInv,
       WithFlock
  <1>1. PICK s : s = Front(sup.free)
    OBVIOUS
  <1>2. PICK x : /\ pc' = [pc EXCEPT ![p] = x] /\ sup'.free = s
                 /\ x = IF s = <<>> THEN "refill" ELSE "smod"
                 /\ x = "refill" => cont' = cont
                 /\ x = "smod" => cont' = [cont EXCEPT ![p] = "give"]
    <2>1. PICK r : r = [sup EXCEPT !.free = Front(@)]
      OBVIOUS
    <2>2. r.free = s
      BY <1>1, <2>1 DEF TypeOK, Supers
    <2>3. CASE s = <<>>
      <3>1. sup' = r /\ pc' = [pc EXCEPT ![p] = "refill"] /\ cont' = cont
        BY <2>1, <2>2, <2>3 DEF take, Yield
      <3>2. sup'.free = s
        BY <2>2, <3>1
      <3>3. "refill" # "smod" /\ "refill" = IF s = <<>> THEN "refill" ELSE "smod"
        BY <2>3
      <3> QED
        BY <3>1, <3>2, <3>3, Zenon
    <2>4. CASE s # <<>>
      <3>1. /\ sup' = [r EXCEPT !.tfree = @ - 1] /\ pc' = [pc EXCEPT ![p] = "smod"]
            /\ cont' = [cont EXCEPT ![p] = "give"]
        BY <2>1, <2>2, <2>4 DEF take, CallSmod, Goto
      <3>2. sup'.free = s
        BY <2>1, <2>2, <3>1 DEF TypeOK, Supers
      <3> QED
        BY <2>4, <3>1, <3>2
    <2> QED
      BY <2>3, <2>4
  <1>3. pc'[p] = x /\ bl' = [bl EXCEPT ![p] = Last(sup.free)]
    BY <1>0, <1>2 DEF take, CallType
  <1>4. Last(sup.free) \in Blocks
    <2>1. sup.free # <<>>
      BY <1>0 DEF LocalInv, ListInv, At
    <2>2. sup.free \in Seq(Blocks)
      BY ListIsSeq DEF TypeOK, Supers
    <2> QED
      BY <2>1, <2>2, FrontSeq
  <1>5. At(p) = "take" /\ At(p)' \in {"refill", "give"}
    BY <1>0, <1>2, <1>3 DEF At, CallType
  <1>6. n[p] = 0 /\ Len(mem[fl[p]]) < ND
    BY <1>0, <1>5 DEF CallsInv, WriteInv, Writing
  <1>7. bl'[p] # NoBlock
    BY <1>0, <1>3, <1>4 DEF CallType, Blocks, NoBlock
  <1>8. \A q \in Procs : q # p => bl'[q] = bl[q] /\ n'[q] = n[q] /\ cont'[q] = cont[q]
    BY <1>0, <1>2, <1>3 DEF CallType
  <1>9. CallsInv'
    BY <1>0, <1>2, <1>5, <1>6, <1>7, <1>8, MoveCalls DEF Truncating
  <1> QED
    BY <1>0, <1>2, <1>5, <1>9, MoveLocal

LEMMA refillLocalInv ==
  ASSUME TypeOK, FInv, LocalInv, NEW p \in Procs, refill(p)
  PROVE  LocalInv'
  <1>0. /\ CallType /\ CallsInv /\ pc[p] = "refill" /\ flock = p
        /\ UNCHANGED <<fl, ilock, mem, n, bl>>
    BY TypeCall DEF refill, Running, LocalInv, CallsInv, invars, callvars,
       FInv, LockInv,
       WithFlock
  <1>1. pc' = [pc EXCEPT ![p] = "smod"] /\ cont' = [cont EXCEPT ![p] = "give"]
    BY DEF refill, CallSmod, Goto
  <1>2. At(p) = "refill" /\ At(p)' = "give"
    BY <1>0, <1>1 DEF At, CallType
  <1>3. n[p] = 0 /\ Len(mem[fl[p]]) < ND /\ bl[p] # NoBlock
    BY <1>0, <1>2 DEF CallsInv, WriteInv, Writing
  <1>4. \A q \in Procs : q # p => bl'[q] = bl[q] /\ n'[q] = n[q] /\ cont'[q] = cont[q]
    BY <1>0, <1>1 DEF CallType
  <1>5. CallsInv'
    BY <1>0, <1>1, <1>2, <1>3, <1>4, MoveCalls DEF Truncating
  <1> QED
    BY <1>0, <1>1, <1>2, <1>5, MoveLocal

LEMMA giveLocalInv ==
  ASSUME TypeOK, FInv, LocalInv, NEW p \in Procs, give(p)
  PROVE  LocalInv'
  <1>0. CallType /\ CallsInv /\ pc[p] = "give" /\ flock = p
    BY TypeCall DEF give, Running, LocalInv, CallsInv, FInv, LockInv, WithFlock
  <1>1. Return(p) /\ pc' = [pc EXCEPT ![p] = "user"]
    BY DEF give, Return, Yield
  <1>2. \A f \in Files : f # fl[p] => mem'[f] = mem[f]
    BY <1>0 DEF give, CallType
  <1>3. CallsInv'
    BY <1>0, <1>1, <1>2, ReturnCalls
  <1>4. At(p)' = "user"
    BY <1>0, <1>1 DEF At, CallType
  <1> QED
    BY <1>0, <1>1, <1>3, <1>4, MoveLocal

LEMMA bfreeLocalInv ==
  ASSUME TypeOK, FInv, LocalInv, NEW p \in Procs, bfree(p)
  PROVE  LocalInv'
  <1>0. /\ CallType /\ CallsInv /\ pc[p] = "bfree" /\ flock = Free
        /\ UNCHANGED <<fl, ilock, mem, n, bl, cont, sup>>
    BY TypeCall DEF bfree, Running, LocalInv, CallsInv, invars, callvars
  <1>1. PICK x : /\ pc' = [pc EXCEPT ![p] = x]
                 /\ x = IF Len(sup.free) \in {0, NICFREE} THEN "chain" ELSE "put"
                 /\ x = "put" => cpu' = p
    BY DEF bfree, Goto, Yield
  <1>2. Len(sup.free) \in Nat /\ Len(sup.free) <= NICFREE
    <2>1. sup.free \in Seq(Blocks) /\ Len(sup.free) <= NICFREE
      BY ListIsSeq DEF TypeOK, Supers
    <2> QED
      BY <2>1
  <1>3. x = "put" => Len(sup.free) < NICFREE
    BY <1>1, <1>2, FilsysAssumption
  <1>4. At(p) = "bfree" /\ At(p)' = x
    BY <1>0, <1>1 DEF At, CallType
  <1>5. bl[p] = NoBlock /\ n[p] <= Len(mem[fl[p]]) /\ n[p] > 0
    BY <1>0, <1>4 DEF CallsInv, TruncInv, Truncating
  <1>6. CallsInv'
    BY <1>0, <1>1, <1>4, <1>5, MoveCalls DEF Writing
  <1> QED
    BY <1>0, <1>1, <1>3, <1>4, <1>6, MoveLocal

LEMMA chainLocalInv ==
  ASSUME TypeOK, FInv, LocalInv, NEW p \in Procs, chain(p)
  PROVE  LocalInv'
  <1>0. /\ CallType /\ CallsInv /\ pc[p] = "chain" /\ flock = p
        /\ UNCHANGED <<fl, ilock, mem, n, bl, cont>>
    BY TypeCall DEF chain, Running, LocalInv, CallsInv, invars, callvars,
       FInv, LockInv,
       WithFlock
  <1>1. pc' = [pc EXCEPT ![p] = "put"] /\ cpu' = p /\ sup'.free = <<>>
    BY DEF chain, Goto, TypeOK, Supers
  <1>2. Len(sup'.free) < NICFREE
    <2>1. Len(<<>>) = 0
      OBVIOUS
    <2>2. 0 < NICFREE
      BY FilsysAssumption
    <2> QED
      BY <1>1, <2>1, <2>2
  <1>3. At(p) = "chain" /\ At(p)' = "put"
    BY <1>0, <1>1 DEF At, CallType
  <1>4. bl[p] = NoBlock /\ n[p] <= Len(mem[fl[p]]) /\ n[p] > 0
    BY <1>0, <1>3 DEF CallsInv, TruncInv, Truncating
  <1>5. CallsInv'
    BY <1>0, <1>1, <1>3, <1>4, MoveCalls DEF Writing
  <1> QED
    BY <1>0, <1>1, <1>2, <1>3, <1>5, MoveLocal

LEMMA putLocalInv ==
  ASSUME TypeOK, FInv, LocalInv, NEW p \in Procs, put(p)
  PROVE  LocalInv'
  <1>0. /\ CallType /\ CallsInv /\ pc[p] = "put" /\ flock = p
        /\ UNCHANGED <<fl, ilock, mem, bl>>
    BY TypeCall DEF put, Running, LocalInv, CallsInv, invars, FInv, LockInv,
       WithFlock
  <1>1. /\ pc' = [pc EXCEPT ![p] = "smod"] /\ cont' = [cont EXCEPT ![p] = "freed"]
        /\ n' = [n EXCEPT ![p] = @ - 1]
    BY DEF put, CallSmod, Goto
  <1>2. At(p) = "put" /\ At(p)' = "freed"
    BY <1>0, <1>1 DEF At, CallType
  <1>3. bl[p] = NoBlock /\ n[p] <= Len(mem[fl[p]]) /\ n[p] > 0
    BY <1>0, <1>2 DEF CallsInv, TruncInv, Truncating
  <1>4. n'[p] = n[p] - 1 /\ n[p] \in Nat /\ Len(mem[fl[p]]) \in Nat
    BY <1>0, <1>1, FilsysAssumption DEF CallType, CallsInv, CallInv
  <1>5. n'[p] <= Len(mem[fl[p]])
    BY <1>3, <1>4
  <1>6. \A q \in Procs : q # p => bl'[q] = bl[q] /\ n'[q] = n[q] /\ cont'[q] = cont[q]
    BY <1>0, <1>1 DEF CallType
  <1>7. CallsInv'
    BY <1>0, <1>1, <1>2, <1>3, <1>5, <1>6, MoveCalls DEF Writing
  <1> QED
    BY <1>0, <1>1, <1>2, <1>7, MoveLocal

LEMMA freedLocalInv ==
  ASSUME TypeOK, FInv, LocalInv, NEW p \in Procs, freed(p)
  PROVE  LocalInv'
  <1>0. CallType /\ CallsInv /\ pc[p] = "freed" /\ flock = p
    BY TypeCall DEF freed, Running, LocalInv, CallsInv, FInv, LockInv,
       WithFlock
  <1>1. CASE n[p] > 0
    <2>1. pc' = [pc EXCEPT ![p] = "bfree"] /\ UNCHANGED <<fl, ilock, mem, n, bl, cont>>
      BY <1>1 DEF freed, Goto, invars, callvars
    <2>2. At(p) = "freed" /\ At(p)' = "bfree"
      BY <1>0, <2>1 DEF At, CallType
    <2>3. bl[p] = NoBlock /\ n[p] <= Len(mem[fl[p]])
      BY <1>0, <2>2 DEF CallsInv, TruncInv, Truncating
    <2>4. CallsInv'
      BY <1>0, <1>1, <2>1, <2>2, <2>3, MoveCalls DEF Writing
    <2> QED
      BY <1>0, <2>1, <2>2, <2>4, MoveLocal
  <1>2. CASE ~(n[p] > 0)
    <2>1. Return(p) /\ pc' = [pc EXCEPT ![p] = "user"]
      BY <1>2 DEF freed, Return, Yield
    <2>2. \A f \in Files : f # fl[p] => mem'[f] = mem[f]
      BY <1>0, <1>2 DEF freed, CallType
    <2>3. CallsInv'
      BY <1>0, <2>1, <2>2, ReturnCalls
    <2>4. At(p)' = "user"
      BY <1>0, <2>1 DEF At, CallType
    <2> QED
      BY <1>0, <2>1, <2>3, <2>4, MoveLocal
  <1> QED
    BY <1>1, <1>2


-----------------------------------------------------------------------------
(* What a step moves.                                                      *)

LEMMA SubSeqTail ==
  ASSUME NEW s \in Seq(Blocks), NEW k \in 1 .. Len(s)
  PROVE  /\ SubSeq(s, 1, k) \in Seq(Blocks) /\ SubSeq(s, 1, k) # <<>>
         /\ Len(SubSeq(s, 1, k)) = k /\ SubSeq(s, 1, k)[k] = s[k] /\ s[k] \in Blocks
         /\ Front(SubSeq(s, 1, k)) = SubSeq(s, 1, k - 1)
  <1>0. Len(s) \in Nat /\ k \in Nat /\ k >= 1 /\ k <= Len(s)
    OBVIOUS
  <1>1. PICK u : u = SubSeq(s, 1, k)
    OBVIOUS
  <1>2. u \in Seq(Blocks) /\ Len(u) = k /\ \A i \in 1 .. k : u[i] = s[i]
    BY <1>0, <1>1
  <1>3. u # <<>>
    BY <1>0, <1>2, EmptySeq
  <1>4. PICK v, w : v = Front(u) /\ w = SubSeq(s, 1, k - 1)
    OBVIOUS
  <1>5. v \in Seq(Blocks) /\ Len(v) = k - 1 /\ \A i \in 1 .. k - 1 : v[i] = u[i]
    BY <1>2, <1>3, <1>4, FrontSeq
  <1>6. w \in Seq(Blocks) /\ Len(w) = k - 1 /\ \A i \in 1 .. k - 1 : w[i] = s[i]
    BY <1>0, <1>4
  <1>7. \A i \in 1 .. k - 1 : v[i] = w[i]
    BY <1>0, <1>2, <1>5, <1>6
  <1>8. v = w
    BY <1>5, <1>6, <1>7, SeqEqual
  <1>9. u[k] = s[k] /\ s[k] \in Blocks
    BY <1>0, <1>2, ElementOfSeq
  <1> QED
    BY <1>1, <1>2, <1>3, <1>4, <1>8, <1>9

LEMMA SubSeqEnds ==
  ASSUME NEW s \in Seq(Blocks)
  PROVE  SubSeq(s, 1, Len(s)) = s /\ SubSeq(s, 1, 0) = <<>>
  <1>0. Len(s) \in Nat
    OBVIOUS
  <1>1. PICK u, w : u = SubSeq(s, 1, Len(s)) /\ w = SubSeq(s, 1, 0)
    OBVIOUS
  <1>2. u \in Seq(Blocks) /\ Len(u) = Len(s) /\ \A i \in 1 .. Len(s) : u[i] = s[i]
    BY <1>0, <1>1
  <1>3. u = s
    BY <1>2, SeqEqual
  <1>4. w \in Seq(Blocks) /\ Len(w) = 0
    BY <1>0, <1>1
  <1>5. w = <<>>
    BY <1>4, EmptySeq
  <1> QED
    BY <1>1, <1>3, <1>5

\* Held, where the process with the inode is.
HeldAt(f) ==
  IF ilock[f] = Free THEN mem[f]
  ELSE IF At(ilock[f]) \in Truncating THEN SubSeq(mem[f], 1, n[ilock[f]])
  ELSE IF bl[ilock[f]] # NoBlock THEN Append(mem[f], bl[ilock[f]]) ELSE mem[f]

LEMMA HeldNow ==
  ASSUME CallType, CallsInv, NEW f \in Files
  PROVE  Held(f) = HeldAt(f)
  <1>1. CASE ilock[f] = Free
    BY <1>1 DEF Held, HeldAt
  <1>2. CASE ilock[f] # Free
    <2>1. PICK p : p = ilock[f]
      OBVIOUS
    <2>2. p \in Procs /\ pc[p] # "user" /\ At(p) \in Writing \union Truncating
      BY <1>2, <2>1 DEF CallsInv, CallInv, CallType, At, Writing, Truncating
    <2>3. At(p) \in Truncating <=>
            \/ n[p] > 0 \/ pc[p] \in {"chain", "put", "freed"}
            \/ (pc[p] \in {"smod", "superwrite", "superio"} /\ cont[p] = "freed")
      BY <2>2 DEF CallsInv, WriteInv, TruncInv, At, Writing, Truncating,
         CallType
    <2> QED
      BY <1>2, <2>1, <2>3 DEF Held, HeldAt
  <1> QED
    BY <1>1, <1>2

LEMMA HeldNext ==
  ASSUME CallType', CallsInv', NEW f \in Files
  PROVE  Held(f)' = HeldAt(f)'
  <1>1. CASE ilock'[f] = Free
    BY <1>1 DEF Held, HeldAt
  <1>2. CASE ilock'[f] # Free
    <2>1. PICK p : p = ilock'[f]
      OBVIOUS
    <2>2. p \in Procs /\ pc'[p] # "user" /\ At(p)' \in Writing \union Truncating
      BY <1>2, <2>1 DEF CallsInv, CallInv, CallType, At, Writing, Truncating
    <2>3. At(p)' \in Truncating <=>
            \/ n'[p] > 0 \/ pc'[p] \in {"chain", "put", "freed"}
            \/ (pc'[p] \in {"smod", "superwrite", "superio"} /\ cont'[p] = "freed")
      BY <2>2 DEF CallsInv, WriteInv, TruncInv, At, Writing, Truncating,
         CallType
    <2> QED
      BY <1>2, <2>1, <2>3 DEF Held, HeldAt
  <1> QED
    BY <1>1, <1>2

\* p's step leaves alone what the other inodes hold.
LEMMA OthersHeld ==
  ASSUME CallType, CallsInv, CallType', CallsInv', NEW p \in Procs, NEW g,
         \A f \in Files : f # g => ilock'[f] = ilock[f] /\ ilock[f] # p /\ mem'[f] = mem[f],
         \A q \in Procs : q # p => /\ pc'[q] = pc[q] /\ cont'[q] = cont[q]
                                   /\ n'[q] = n[q] /\ bl'[q] = bl[q]
  PROVE  \A f \in Files : f # g => Held(f)' = Held(f)
  <1> SUFFICES ASSUME NEW f \in Files, f # g PROVE Held(f)' = Held(f)
    OBVIOUS
  <1>1. ilock'[f] = ilock[f] /\ ilock[f] # p /\ mem'[f] = mem[f]
    OBVIOUS
  <1>2. HeldAt(f)' = HeldAt(f)
    <2>1. CASE ilock[f] = Free
      BY <1>1, <2>1 DEF HeldAt
    <2>2. CASE ilock[f] # Free
      <3>1. PICK q : q = ilock[f]
        OBVIOUS
      <3>2. q \in Procs /\ q # p /\ ilock'[f] = q
        BY <1>1, <2>2, <3>1 DEF CallType
      <3>3. At(q)' = At(q) /\ n'[q] = n[q] /\ bl'[q] = bl[q]
        BY <3>2 DEF At
      <3> QED
        BY <1>1, <3>1, <3>2, <3>3 DEF HeldAt
    <2> QED
      BY <2>1, <2>2
  <1> QED
    BY <1>2, HeldNow, HeldNext

\* What an inode holds is a sequence of blocks.
LEMMA HeldSeq ==
  ASSUME CallType, CallsInv, NEW f \in Files
  PROVE  Held(f) \in Seq(Blocks)
  <1>1. mem[f] \in Seq(Blocks)
    BY AddrIsSeq DEF CallType
  <1>2. CASE ilock[f] = Free
    BY <1>1, <1>2, HeldNow DEF HeldAt
  <1>3. CASE ilock[f] # Free
    <2>1. PICK p : p = ilock[f]
      OBVIOUS
    <2>2. p \in Procs /\ pc[p] # "user" /\ fl[p] = f
      BY <1>3, <2>1 DEF CallsInv, CallInv, CallType
    <2>3. CASE At(p) \in Truncating
      <3>1. n[p] \in Nat /\ n[p] <= Len(mem[f])
        BY <2>2, <2>3, FilsysAssumption DEF CallsInv, TruncInv, CallType
      <3>2. SubSeq(mem[f], 1, n[p]) \in Seq(Blocks)
        BY <1>1, <3>1
      <3> QED
        BY <1>3, <2>1, <2>3, <3>2, HeldNow DEF HeldAt
    <2>4. CASE At(p) \notin Truncating
      <3>1. bl[p] # NoBlock => Append(mem[f], bl[p]) \in Seq(Blocks)
        BY <1>1, <2>2 DEF CallType
      <3> QED
        BY <1>1, <1>3, <2>1, <2>4, <3>1, HeldNow DEF HeldAt
    <2> QED
      BY <2>3, <2>4
  <1> QED
    BY <1>2, <1>3

\* Two ways to say who holds what.
LEMMA PartitionSame ==
  ASSUME NEW t, NEW h, NEW g, Partition(t, h), \A f \in Files : g[f] = h[f]
  PROVE  Partition(t, g)
  <1>1. {Range(g[f]) : f \in Files} = {Range(h[f]) : f \in Files}
    OBVIOUS
  <1> QED
    BY <1>1 DEF Partition


\* The blocks t of the list l.
Stored(l, t, B) ==
  /\ ListIs(l) /\ Stack(t, B, l, cblk)
  /\ Partition(t, [f \in Files |-> Held(f)])
  /\ sup.tfree = Len(t) + Unread

LEMMA StoreNow ==
  ASSUME StoreInv, power = "up", ~ron
  PROVE  \E l, t, B : Stored(l, t, B)
  BY DEF StoreInv, Stored

LEMMA StoreNext ==
  ASSUME NEW l, NEW t, NEW B, NEW h, ListIs(l)', Stack(t, B, l, cblk'), Partition(t, h),
         \A f \in Files : Held(f)' = h[f], sup'.tfree = Len(t) + Unread'
  PROVE  StoreInv'
  <1>1. PICK g : g = [f \in Files |-> Held(f)']
    OBVIOUS
  <1>2. Partition(t, g)
    BY <1>1, PartitionSame
  <1> QED
    BY <1>1, <1>2 DEF StoreInv

\* Who has m_flock decides what the list is.
LEMMA OwnerNow ==
  ASSUME NEW p \in Procs, \A q \in Procs \ {p} : pc[q] \notin WithFlock, NEW l
  PROVE  /\ ListIs(l) <=>
              /\ pc[p] = "refill" => l = cblk[bl[p]]
              /\ pc[p] = "put" /\ sup.free = <<>> => l = cblk[mem[fl[p]][n[p]]]
              /\ pc[p] # "refill" /\ ~(pc[p] = "put" /\ sup.free = <<>>) => l = sup.free
         /\ Unread = IF pc[p] = "refill" THEN 1 ELSE 0
  <1>1. \A q \in Procs \ {p} : pc[q] # "refill" /\ pc[q] # "put"
    BY DEF WithFlock
  <1> QED
    BY <1>1 DEF ListIs, Unread

LEMMA OwnerNext ==
  ASSUME NEW p \in Procs, \A q \in Procs \ {p} : pc'[q] \notin WithFlock, NEW l
  PROVE  /\ ListIs(l)' <=>
              /\ pc'[p] = "refill" => l = cblk'[bl'[p]]
              /\ pc'[p] = "put" /\ sup'.free = <<>> => l = cblk'[mem'[fl'[p]][n'[p]]]
              /\ pc'[p] # "refill" /\ ~(pc'[p] = "put" /\ sup'.free = <<>>) => l = sup'.free
         /\ Unread' = IF pc'[p] = "refill" THEN 1 ELSE 0
  <1>1. \A q \in Procs \ {p} : pc'[q] # "refill" /\ pc'[q] # "put"
    BY DEF WithFlock
  <1> QED
    BY <1>1 DEF ListIs, Unread

LEMMA KeepStore ==
  ASSUME StoreInv, power' = "up" /\ ~ron' => power = "up" /\ ~ron, cblk' = cblk,
         sup'.tfree = sup.tfree, \A f \in Files : Held(f)' = Held(f),
         \A l : ListIs(l) => ListIs(l)', Unread' = Unread
  PROVE  StoreInv'
  <1> SUFFICES ASSUME power' = "up", ~ron' PROVE StoreInv'
    BY DEF StoreInv
  <1>1. PICK l, t, B : Stored(l, t, B)
    BY StoreNow
  <1>2. PICK h : h = [f \in Files |-> Held(f)]
    OBVIOUS
  <1>3. Partition(t, h) /\ Stack(t, B, l, cblk') /\ ListIs(l)' /\ sup'.tfree = Len(t) + Unread'
    BY <1>1, <1>2 DEF Stored
  <1>4. \A f \in Files : Held(f)' = h[f]
    BY <1>2
  <1> QED
    BY <1>3, <1>4, StoreNext

\* The owner of m_flock goes to x, and does nothing to the list nor to its inode g.
OwnerQuiet(p, g, x) ==
  /\ flock = p \/ flock = Free
  /\ pc[p] \notin {"user", "refill", "put"} /\ g = fl[p]
  /\ pc' = [pc EXCEPT ![p] = x] /\ x # "refill" /\ (x = "put" => sup.free # <<>>)
  /\ UNCHANGED <<cblk, power, ron>> /\ sup'.tfree = sup.tfree /\ sup'.free = sup.free
  /\ \A q \in Procs : q # p => cont'[q] = cont[q] /\ n'[q] = n[q] /\ bl'[q] = bl[q]
  /\ \A f \in Files : f # g => ilock'[f] = ilock[f] /\ mem'[f] = mem[f]
  /\ Held(g)' = Held(g)

LEMMA OwnerKeeps ==
  ASSUME TypeOK, FInv, LocalInv, StoreInv, CallType', LocalInv', NEW p \in Procs,
         NEW g, NEW x, OwnerQuiet(p, g, x)
  PROVE  StoreInv'
  <1> USE DEF OwnerQuiet
  <1>0. CallType /\ CallsInv /\ CallsInv'
    BY TypeCall DEF LocalInv, CallsInv
  <1>1. pc'[p] = x /\ \A q \in Procs : q # p => pc'[q] = pc[q]
    BY <1>0 DEF CallType
  <1>2. \A q \in Procs \ {p} : pc[q] \notin WithFlock
    BY FlockAlone
  <1>3. \A q \in Procs \ {p} : pc'[q] \notin WithFlock
    BY <1>1, <1>2
  <1>4. \A f \in Files : f # g => ilock[f] # p
    BY <1>0, FilsysAssumption DEF CallsInv, CallInv
  <1>5. \A f \in Files : f # g => Held(f)' = Held(f)
    BY <1>0, <1>1, <1>4, OthersHeld
  <1>6. \A f \in Files : Held(f)' = Held(f)
    BY <1>5
  <1>7. ASSUME NEW l, ListIs(l) PROVE ListIs(l)'
    <2>1. l = sup.free
      BY <1>2, <1>7, OwnerNow
    <2>2. pc'[p] # "refill" /\ ~(pc'[p] = "put" /\ sup'.free = <<>>)
      BY <1>1
    <2> QED
      BY <1>3, <2>1, <2>2, OwnerNext
  <1>8. Unread' = Unread
    <2>1. Unread = 0
      BY <1>2, OwnerNow
    <2>2. Unread' = 0
      BY <1>1, <1>3, OwnerNext
    <2> QED
      BY <2>1, <2>2
  <1> QED
    BY <1>6, <1>7, <1>8, KeepStore

\* A call that begins.
LEMMA BeginStore ==
  ASSUME TypeOK, FInv, LocalInv, StoreInv, CallType', LocalInv', NEW p \in Procs,
         pc[p] = "user", NEW g \in Files, ilock[g] = Free,
         NEW x, x \notin WithFlock, pc' = [pc EXCEPT ![p] = x],
         UNCHANGED <<cblk, power, ron, sup, mem, bl, cont>>,
         \A q \in Procs : q # p => n'[q] = n[q] /\ fl'[q] = fl[q],
         \A f \in Files : f # g => ilock'[f] = ilock[f],
         Held(g)' = Held(g)
  PROVE  StoreInv'
  <1>0. CallType /\ CallsInv /\ CallsInv'
    BY TypeCall DEF LocalInv, CallsInv
  <1>1. pc'[p] = x /\ \A q \in Procs : q # p => pc'[q] = pc[q]
    BY <1>0 DEF CallType
  <1>2. \A f \in Files : ilock[f] # p
    BY <1>0, FilsysAssumption DEF CallsInv, CallInv
  <1>3. \A f \in Files : f # g => Held(f)' = Held(f)
    BY <1>0, <1>1, <1>2, OthersHeld
  <1>4. \A f \in Files : Held(f)' = Held(f)
    BY <1>3
  <1>5. \A q \in Procs : (pc'[q] = "refill" <=> pc[q] = "refill") /\ (pc'[q] = "put" <=> pc[q] = "put")
    BY <1>1 DEF WithFlock
  <1>6. ASSUME NEW l, ListIs(l) PROVE ListIs(l)'
    BY <1>1, <1>5, <1>6 DEF ListIs
  <1>7. Unread' = Unread
    BY <1>5 DEF Unread
  <1> QED
    BY <1>4, <1>6, <1>7, KeepStore


-----------------------------------------------------------------------------
(* The types, apart from the super block's.                                *)

RestType ==
  /\ fmod \in BOOLEAN /\ ron \in BOOLEAN /\ root \in BOOLEAN
  /\ flock \in Procs \union {Free}
  /\ sgate \in Procs \union {Free, Syncer}
  /\ scopy \in Supers /\ imod \in SUBSET Files
  /\ cino \in [Files -> Addrs] /\ cblk \in [Blocks -> Contents]
  /\ disk \in Disks
  /\ cpu \in Procs \union {NoProc, Syncer}
  /\ spc \in {"user", "isync", "icopymd", "bsync", "mssync", "mssyncgate",
             "mssyncio"}
  /\ stodo \in SUBSET (Files \union Blocks)
  /\ scur \in (Files \union {NoFile}) \X Addrs
  /\ power \in {"up", "down", "damaged"}
  /\ calls \in 0 .. MaxCalls /\ syncs \in 0 .. MaxSyncs /\ crashes \in 0 .. MaxCrash
  /\ raced \in BOOLEAN

LEMMA TypeNow == TypeOK => sup \in Supers /\ CallType /\ RestType
  BY TypeCall DEF TypeOK, RestType, Disks

LEMMA TypeNext ==
  ASSUME sup' \in Supers, CallType', RestType'
  PROVE  TypeOK'
  BY DEF TypeOK, CallType, RestType, Disks

LEMMA CallTypeNext ==
  ASSUME pc' \in [Procs -> {"user", "balloc", "take", "refill", "give", "bfree",
                            "chain", "put", "freed", "smod", "superwrite", "superio"}],
         fl' \in [Procs -> Files \union {NoFile}], bl' \in [Procs -> Blocks \union {NoBlock}],
         n' \in [Procs -> 0 .. ND], cont' \in [Procs -> {"take", "give", "freed"}],
         ilock' \in [Files -> Procs \union {Free}], mem' \in [Files -> Addrs]
  PROVE  CallType'
  <1> SUFFICES ASSUME NEW f \in Files
               PROVE  Len(mem'[f]) \in Nat /\ (mem'[f] = <<>> <=> Len(mem'[f]) = 0)
    BY DEF CallType
  <1>1. mem'[f] \in Seq(Blocks)
    BY AddrIsSeq
  <1> QED
    BY <1>1, EmptySeq

LEMMA ReturnType ==
  ASSUME CallType, NEW p \in Procs, Return(p), mem' \in [Files -> Addrs]
  PROVE  CallType'
  <1>1. 0 \in 0 .. ND
    BY FilsysAssumption
  <1>2. n' \in [Procs -> 0 .. ND] /\ bl' \in [Procs -> Blocks \union {NoBlock}]
    BY <1>1 DEF CallType, Return
  <1>3. fl' \in [Procs -> Files \union {NoFile}] /\ ilock' \in [Files -> Procs \union {Free}]
    BY DEF CallType, Return
  <1>4. /\ pc' \in [Procs -> {"user", "balloc", "take", "refill", "give", "bfree",
                              "chain", "put", "freed", "smod", "superwrite", "superio"}]
        /\ cont' \in [Procs -> {"take", "give", "freed"}]
    BY DEF CallType, Return, Yield
  <1> QED
    BY <1>2, <1>3, <1>4, CallTypeNext

LEMMA smodType ==
  ASSUME TypeOK, LocalInv, NEW p \in Procs, smod(p)
  PROVE  CallType' /\ RestType'
  <1>0. CallType /\ RestType /\ sup \in Supers
    BY TypeNow
  <1>2. CallType'
    BY <1>0, CallTypeNext DEF CallType, smod, Goto, Yield, invars, callvars
  <1>3. RestType'
    BY <1>0, FilsysAssumption DEF RestType, smod, Running, Goto, Yield, mount,
       superbuf, invars, cache, syncvars, history
  <1> QED
    BY <1>2, <1>3

LEMMA superwriteType ==
  ASSUME TypeOK, LocalInv, NEW p \in Procs, superwrite(p)
  PROVE  CallType' /\ RestType'
  <1>0. CallType /\ RestType /\ sup \in Supers
    BY TypeNow
  <1>2. CallType'
    BY <1>0, CallTypeNext DEF CallType, superwrite, Yield, invars, callvars
  <1>3. RestType'
    BY <1>0, FilsysAssumption DEF RestType, superwrite, Running, Yield, mount,
       superbuf, invars, cache, syncvars, history
  <1> QED
    BY <1>2, <1>3

LEMMA superioType ==
  ASSUME TypeOK, LocalInv, NEW p \in Procs, superio(p)
  PROVE  CallType' /\ RestType'
  <1>0. CallType /\ RestType /\ sup \in Supers
    BY TypeNow
  <1>1. disk' \in Disks
    BY <1>0 DEF RestType, Disks, superio
  <1>2. CallType'
    BY <1>0, CallTypeNext DEF CallType, superio, Goto, invars, callvars
  <1>3. RestType'
    BY <1>0, <1>1, FilsysAssumption DEF RestType, superio, Goto, mount,
       invars, cache,
       syncvars, history
  <1> QED
    BY <1>2, <1>3

LEMMA iwriteType ==
  ASSUME TypeOK, LocalInv, NEW p \in Procs, NEW f \in Files, iwrite(p, f)
  PROVE  CallType' /\ RestType'
  <1>0. CallType /\ RestType /\ sup \in Supers
    BY TypeNow
  <1>1. calls' \in 0 .. MaxCalls /\ imod' \in SUBSET Files /\ cpu' \in Procs \union {NoProc, Syncer}
    BY <1>0, FilsysAssumption DEF RestType, iwrite, GotoGate, Goto, Yield
  <1>2. raced' \in BOOLEAN
    BY <1>0, Zenon DEF RestType, iwrite
  <1>3. CallType'
    BY <1>0, CallTypeNext DEF CallType, iwrite, GotoGate, Goto, Yield
  <1>4. RestType'
    BY <1>0, <1>1, <1>2 DEF RestType, iwrite, mount, superbuf, cache, syncvars
  <1> QED
    BY <1>3, <1>4

LEMMA ballocType ==
  ASSUME TypeOK, LocalInv, NEW p \in Procs, balloc(p)
  PROVE  CallType' /\ RestType'
  <1>0. CallType /\ RestType /\ sup \in Supers
    BY TypeNow
  <1>1. CallType'
    <2>1. CASE sup.free = <<>>
      BY <1>0, <2>1, ReturnType DEF CallType, balloc
    <2>2. CASE sup.free # <<>>
      BY <1>0, <2>2, CallTypeNext DEF CallType, balloc, CallSmod, Goto,
         callvars
    <2> QED
      BY <2>1, <2>2
  <1>2. RestType'
    BY <1>0 DEF RestType, balloc, CallSmod, Goto, Return, Yield, mount,
       superbuf, cache,
       syncvars, history
  <1> QED
    BY <1>1, <1>2

LEMMA takeType ==
  ASSUME TypeOK, LocalInv, NEW p \in Procs, take(p)
  PROVE  CallType' /\ RestType'
  <1>0. CallType /\ RestType /\ sup \in Supers
    BY TypeNow
  <1>1. Last(sup.free) \in Blocks
    <2>1. sup.free # <<>>
      BY DEF LocalInv, ListInv, At, take, Running
    <2>2. sup.free \in Seq(Blocks)
      BY <1>0, ListIsSeq DEF Supers
    <2> QED
      BY <2>1, <2>2, FrontSeq
  <1>2. /\ pc' \in [Procs -> {"user", "balloc", "take", "refill", "give", "bfree",
                              "chain", "put", "freed", "smod", "superwrite", "superio"}]
        /\ cont' \in [Procs -> {"take", "give", "freed"}]
    BY <1>0 DEF CallType, take, CallSmod, Goto, Yield
  <1>3. CallType'
    BY <1>0, <1>1, <1>2, CallTypeNext DEF CallType, take, invars
  <1>4. RestType'
    BY <1>0 DEF RestType, take, CallSmod, Goto, Yield, mount, superbuf,
       invars, cache,
       syncvars, history
  <1> QED
    BY <1>3, <1>4

LEMMA refillType ==
  ASSUME TypeOK, LocalInv, NEW p \in Procs, refill(p)
  PROVE  CallType' /\ RestType'
  <1>0. CallType /\ RestType /\ sup \in Supers
    BY TypeNow
  <1>2. CallType'
    BY <1>0, CallTypeNext DEF CallType, refill, CallSmod, Goto, invars,
       callvars
  <1>3. RestType'
    BY <1>0, FilsysAssumption DEF RestType, refill, Running, CallSmod, Goto,
       mount, superbuf, invars, cache, syncvars, history
  <1> QED
    BY <1>2, <1>3

LEMMA giveType ==
  ASSUME TypeOK, LocalInv, NEW p \in Procs, give(p)
  PROVE  CallType' /\ RestType'
  <1>0. CallType /\ RestType /\ sup \in Supers
    BY TypeNow
  <1>1. pc[p] = "give" /\ At(p) = "give" /\ bl[p] \in Blocks /\ fl[p] \in Files
    <2>1. pc[p] = "give" /\ At(p) = "give"
      BY DEF give, Running, At
    <2>2. bl[p] # NoBlock /\ fl[p] \in Files
      BY <2>1 DEF LocalInv, CallInv, WriteInv, Writing
    <2> QED
      BY <1>0, <2>1, <2>2 DEF CallType
  <1>2. Append(mem[fl[p]], bl[p]) \in Addrs
    <2>1. mem[fl[p]] \in Seq(Blocks) /\ Len(mem[fl[p]]) < ND
      BY <1>0, <1>1, AddrIsSeq DEF LocalInv, WriteInv, Writing, CallType
    <2>2. Append(mem[fl[p]], bl[p]) \in Seq(Blocks)
      BY <1>1, <2>1, AppendSeq
    <2>3. Len(Append(mem[fl[p]], bl[p])) <= ND
      BY <1>1, <2>1, AppendSeq, FilsysAssumption
    <2> QED
      BY <2>2, <2>3, AddrIsSeq
  <1>3. mem' \in [Files -> Addrs] /\ cblk' \in [Blocks -> Contents]
    BY <1>0, <1>1, <1>2 DEF give, CallType, RestType, Contents
  <1>4. CallType'
    BY <1>0, <1>3, ReturnType DEF give
  <1>5. RestType'
    BY <1>0, <1>3 DEF RestType, give, Return, Yield, mount, superbuf,
       syncvars, history
  <1> QED
    BY <1>4, <1>5

LEMMA ucreatType ==
  ASSUME TypeOK, LocalInv, NEW p \in Procs, NEW f \in Files, ucreat(p, f)
  PROVE  CallType' /\ RestType'
  <1>0. CallType /\ RestType /\ sup \in Supers
    BY TypeNow
  <1>1. Len(mem[f]) \in 0 .. ND
    <2>1. mem[f] \in Seq(Blocks) /\ Len(mem[f]) <= ND
      BY <1>0, AddrIsSeq DEF CallType
    <2> QED
      BY <2>1, FilsysAssumption
  <1>2. raced' \in BOOLEAN
    BY <1>0, Zenon DEF RestType, ucreat
  <1>3. CallType'
    BY <1>0, <1>1, CallTypeNext DEF CallType, ucreat, GotoGate, Goto, Yield
  <1>4. RestType'
    BY <1>0, <1>2, FilsysAssumption DEF RestType, ucreat, GotoGate, Goto,
       Yield, mount,
       superbuf, cache, syncvars
  <1> QED
    BY <1>3, <1>4

LEMMA bfreeType ==
  ASSUME TypeOK, LocalInv, NEW p \in Procs, bfree(p)
  PROVE  CallType' /\ RestType'
  <1>0. CallType /\ RestType /\ sup \in Supers
    BY TypeNow
  <1>2. CallType'
    BY <1>0, CallTypeNext DEF CallType, bfree, Goto, Yield, invars, callvars
  <1>3. RestType'
    BY <1>0, FilsysAssumption DEF RestType, bfree, Running, Goto, Yield,
       mount, superbuf, invars, cache, syncvars, history
  <1> QED
    BY <1>2, <1>3

LEMMA chainType ==
  ASSUME TypeOK, LocalInv, NEW p \in Procs, chain(p)
  PROVE  CallType' /\ RestType'
  <1>0. CallType /\ RestType /\ sup \in Supers
    BY TypeNow
  <1>1. cblk' \in [Blocks -> Contents]
    BY <1>0 DEF chain, RestType, Supers, Contents
  <1>2. CallType'
    BY <1>0, CallTypeNext DEF CallType, chain, Goto, invars, callvars
  <1>3. RestType'
    BY <1>0, <1>1 DEF RestType, chain, Goto, mount, superbuf, invars,
       syncvars, history
  <1> QED
    BY <1>2, <1>3

LEMMA putType ==
  ASSUME TypeOK, LocalInv, NEW p \in Procs, put(p)
  PROVE  CallType' /\ RestType'
  <1>0. CallType /\ RestType /\ sup \in Supers
    BY TypeNow
  <1>1. n[p] - 1 \in 0 .. ND
    <2>1. At(p) = "put" /\ n[p] > 0 /\ n[p] \in 0 .. ND
      BY <1>0 DEF put, Running, LocalInv, TruncInv, Truncating, CallType, At
    <2> QED
      BY <2>1, FilsysAssumption
  <1>2. n' \in [Procs -> 0 .. ND]
    BY <1>0, <1>1 DEF CallType, put
  <1>3. CallType'
    BY <1>0, <1>2, CallTypeNext DEF CallType, put, CallSmod, Goto, invars
  <1>4. RestType'
    BY <1>0 DEF RestType, put, CallSmod, Goto, mount, superbuf, invars, cache,
       syncvars,
       history
  <1> QED
    BY <1>3, <1>4

LEMMA freedType ==
  ASSUME TypeOK, LocalInv, NEW p \in Procs, freed(p)
  PROVE  CallType' /\ RestType'
  <1>0. CallType /\ RestType /\ sup \in Supers
    BY TypeNow
  <1>1. CASE n[p] > 0
    <2>1. CallType'
      BY <1>0, <1>1, CallTypeNext DEF CallType, freed, Goto, invars, callvars
    <2>2. RestType'
      BY <1>0, <1>1 DEF RestType, freed, Goto, mount, superbuf, invars, cache,
         syncvars,
         history
    <2> QED
      BY <2>1, <2>2
  <1>2. CASE ~(n[p] > 0)
    <2>1. fl[p] \in Files /\ <<>> \in Addrs
      <3>1. <<>> \in Seq(Blocks) /\ Len(<<>>) = 0 /\ 0 <= ND
        BY EmptySeq, FilsysAssumption
      <3>2. <<>> \in Addrs
        BY <3>1, AddrIsSeq
      <3>3. fl[p] \in Files
        BY <1>0 DEF freed, Running, LocalInv, CallInv
      <3> QED
        BY <3>2, <3>3
    <2>2. mem' \in [Files -> Addrs] /\ imod' \in SUBSET Files
      <3>1. mem' = [mem EXCEPT ![fl[p]] = <<>>] /\ imod' = imod \union {fl[p]}
        BY <1>2 DEF freed
      <3>2. mem \in [Files -> Addrs] /\ imod \in SUBSET Files
        BY <1>0 DEF CallType, RestType
      <3>3. imod' \in SUBSET Files
        BY <2>1, <3>1, <3>2
      <3>4. PICK e : e = <<>>
        OBVIOUS
      <3>5. mem' = [mem EXCEPT ![fl[p]] = e] /\ e \in Addrs
        BY <2>1, <3>1, <3>4
      <3>6. mem' \in [Files -> Addrs]
        BY <3>2, <3>5
      <3> QED
        BY <3>3, <3>6
    <2>3. CallType'
      BY <1>0, <1>2, <2>2, ReturnType DEF freed
    <2>4. RestType'
      BY <1>0, <1>2, <2>2 DEF RestType, freed, Return, Yield, mount, superbuf,
         cache,
         syncvars, history
    <2> QED
      BY <2>3, <2>4
  <1> QED
    BY <1>1, <1>2


-----------------------------------------------------------------------------
(* What the steps of a process do to the free list.                        *)

LEMMA MineNow ==
  ASSUME CallType, CallsInv, NEW p \in Procs, pc[p] # "user", NEW g, g = fl[p]
  PROVE  /\ g \in Files /\ ilock[g] = p
         /\ Held(g) = IF At(p) \in Truncating THEN SubSeq(mem[g], 1, n[p])
                      ELSE IF bl[p] # NoBlock THEN Append(mem[g], bl[p]) ELSE mem[g]
  <1>1. g \in Files /\ ilock[g] = p /\ p # Free
    BY FilsysAssumption DEF CallsInv, CallInv
  <1> QED
    BY <1>1, HeldNow DEF HeldAt

LEMMA MineNext ==
  ASSUME CallType', CallsInv', NEW p \in Procs, NEW g \in Files, ilock'[g] = p
  PROVE  Held(g)' = IF At(p)' \in Truncating THEN SubSeq(mem'[g], 1, n'[p])
                    ELSE IF bl'[p] # NoBlock THEN Append(mem'[g], bl'[p]) ELSE mem'[g]
  <1>1. p # Free
    BY FilsysAssumption
  <1> QED
    BY <1>1, HeldNext DEF HeldAt

LEMMA ReturnHeld ==
  ASSUME CallType, NEW p \in Procs, Return(p), NEW g \in Files, g = fl[p]
  PROVE  /\ Held(g)' = mem'[g] /\ pc' = [pc EXCEPT ![p] = "user"]
         /\ \A f \in Files : f # g => ilock'[f] = ilock[f]
         /\ \A q \in Procs : q # p => cont'[q] = cont[q] /\ n'[q] = n[q] /\ bl'[q] = bl[q]
  BY DEF CallType, Return, Yield, Held

LEMMA SmodStore ==
  ASSUME TypeOK, FInv, LocalInv, StoreInv, NEW p \in Procs,
         smod(p) \/ superwrite(p) \/ superio(p)
  PROVE  StoreInv'
  <1>0. CallType /\ CallsInv /\ CallType' /\ CallsInv' /\ LocalInv'
    BY TypeCall, smodType, superwriteType, superioType, SmodLocalInv
       DEF LocalInv, CallsInv
  <1>1. PICK x : /\ x \in {cont[p], "superwrite", "superio"}
                 /\ pc' = [pc EXCEPT ![p] = x]
    BY DEF smod, superwrite, superio, Goto, Yield
  <1>2. /\ pc[p] \in {"smod", "superwrite", "superio"} /\ flock = p
        /\ UNCHANGED <<fl, bl, n, ilock, mem, cont, cblk, power, ron>>
    BY DEF smod, superwrite, superio, Running, callvars, invars, cache,
       history, mount, FInv,
       LockInv, WithFlock
  <1>3. cont[p] \in {"take", "give", "freed"} /\ pc'[p] = x
    BY <1>0, <1>1 DEF CallType
  <1>4. At(p)' = At(p) /\ x \notin {"refill", "put"}
    BY <1>1, <1>2, <1>3 DEF At
  <1>5. sup'.free = sup.free /\ sup'.tfree = sup.tfree
    BY DEF smod, superwrite, superio, TypeOK, Supers
  <1>6. PICK g : g = fl[p]
    OBVIOUS
  <1>7. g \in Files /\ Held(g)' = Held(g)
    <2>1. /\ g \in Files /\ ilock[g] = p
          /\ Held(g) = IF At(p) \in Truncating THEN SubSeq(mem[g], 1, n[p])
                       ELSE IF bl[p] # NoBlock THEN Append(mem[g], bl[p]) ELSE mem[g]
      BY <1>0, <1>2, <1>6, MineNow
    <2>2. ilock'[g] = p
      BY <1>2, <2>1
    <2>3. Held(g)' = IF At(p)' \in Truncating THEN SubSeq(mem'[g], 1, n'[p])
                     ELSE IF bl'[p] # NoBlock THEN Append(mem'[g], bl'[p]) ELSE mem'[g]
      BY <1>0, <2>1, <2>2, MineNext
    <2> QED
      BY <1>2, <1>4, <2>1, <2>3
  <1>8. OwnerQuiet(p, g, x)
    BY <1>1, <1>2, <1>4, <1>5, <1>6, <1>7 DEF OwnerQuiet
  <1> QED
    BY <1>0, <1>8, OwnerKeeps

LEMMA iwriteStore ==
  ASSUME TypeOK, FInv, LocalInv, StoreInv, NEW p \in Procs, NEW f \in Files, iwrite(p, f)
  PROVE  StoreInv'
  <1>0. CallType /\ CallsInv /\ CallType' /\ CallsInv' /\ LocalInv'
    BY TypeCall, iwriteType, iwriteLocalInv DEF LocalInv, CallsInv
  <1>1. CASE ron
    <2>1. ron'
      BY <1>1 DEF iwrite, mount
    <2> QED
      BY <2>1 DEF StoreInv
  <1>2. CASE ~ron
    <2>1. /\ ilock' = [ilock EXCEPT ![f] = p] /\ fl' = [fl EXCEPT ![p] = f]
          /\ pc' = [pc EXCEPT ![p] = "balloc"] /\ n' = n /\ pc[p] = "user" /\ ilock[f] = Free
          /\ UNCHANGED <<bl, mem, cont, sup, cblk, power, ron>>
      BY <1>2 DEF iwrite, Running, GotoGate, Goto, Yield, mount, cache
    <2>2. ilock'[f] = p /\ pc'[p] = "balloc" /\ bl[p] = NoBlock
      BY <1>0, <2>1 DEF CallType, CallsInv, CallInv
    <2>3. At(p)' = "balloc"
      BY <2>2 DEF At
    <2>4. Held(f)' = mem[f]
      BY <1>0, <2>1, <2>2, <2>3, MineNext DEF Truncating
    <2>5. Held(f) = mem[f]
      BY <2>1 DEF Held
    <2>6. /\ \A q \in Procs : q # p => n'[q] = n[q] /\ fl'[q] = fl[q]
          /\ \A g \in Files : g # f => ilock'[g] = ilock[g]
      BY <1>0, <2>1 DEF CallType
    <2>7. "balloc" \notin WithFlock
      BY DEF WithFlock
    <2> QED
      BY <1>0, <2>1, <2>4, <2>5, <2>6, <2>7, BeginStore
  <1> QED
    BY <1>1, <1>2

LEMMA ucreatStore ==
  ASSUME TypeOK, FInv, LocalInv, StoreInv, NEW p \in Procs, NEW f \in Files, ucreat(p, f)
  PROVE  StoreInv'
  <1>0. CallType /\ CallsInv /\ CallType' /\ CallsInv' /\ LocalInv'
    BY TypeCall, ucreatType, ucreatLocalInv DEF LocalInv, CallsInv
  <1>1. /\ ilock' = [ilock EXCEPT ![f] = p] /\ fl' = [fl EXCEPT ![p] = f]
        /\ pc' = [pc EXCEPT ![p] = "bfree"] /\ pc[p] = "user" /\ ilock[f] = Free
        /\ n' = [n EXCEPT ![p] = Len(mem[f])]
        /\ UNCHANGED <<bl, mem, cont, sup, cblk, power, ron>>
    BY DEF ucreat, Running, GotoGate, Goto, Yield, mount, cache
  <1>2. ilock'[f] = p /\ pc'[p] = "bfree" /\ n'[p] = Len(mem[f])
    BY <1>0, <1>1 DEF CallType
  <1>3. At(p)' = "bfree"
    BY <1>2 DEF At
  <1>4. mem[f] \in Seq(Blocks)
    BY <1>0, AddrIsSeq DEF CallType
  <1>5. Held(f)' = SubSeq(mem[f], 1, Len(mem[f]))
    BY <1>0, <1>1, <1>2, <1>3, MineNext DEF Truncating
  <1>6. Held(f)' = mem[f]
    BY <1>4, <1>5, SubSeqEnds
  <1>7. Held(f) = mem[f]
    BY <1>1 DEF Held
  <1>8. /\ \A q \in Procs : q # p => n'[q] = n[q] /\ fl'[q] = fl[q]
        /\ \A g \in Files : g # f => ilock'[g] = ilock[g]
    BY <1>0, <1>1 DEF CallType
  <1>9. "bfree" \notin WithFlock
    BY DEF WithFlock
  <1> QED
    BY <1>0, <1>1, <1>6, <1>7, <1>8, <1>9, BeginStore

LEMMA ballocStore ==
  ASSUME TypeOK, FInv, LocalInv, StoreInv, NEW p \in Procs, balloc(p)
  PROVE  StoreInv'
  <1>0. CallType /\ CallsInv /\ CallType' /\ CallsInv' /\ LocalInv'
    BY TypeCall, ballocType, ballocLocalInv DEF LocalInv, CallsInv
  <1>1. /\ pc[p] = "balloc" /\ flock = Free /\ UNCHANGED <<sup, mem, cblk, power, ron>>
    BY DEF balloc, Running, mount, cache, history
  <1>2. PICK g : g = fl[p]
    OBVIOUS
  <1>3. At(p) = "balloc" /\ bl[p] = NoBlock
    BY <1>1 DEF At, LocalInv, WriteInv, Writing
  <1>4. g \in Files /\ ilock[g] = p /\ Held(g) = mem[g]
    BY <1>0, <1>1, <1>2, <1>3, MineNow DEF Truncating
  <1>5. CASE sup.free = <<>>
    <2>1. Return(p)
      BY <1>5 DEF balloc
    <2>2. /\ Held(g)' = mem[g] /\ pc' = [pc EXCEPT ![p] = "user"]
          /\ \A f \in Files : f # g => ilock'[f] = ilock[f]
          /\ \A q \in Procs : q # p => cont'[q] = cont[q] /\ n'[q] = n[q] /\ bl'[q] = bl[q]
      BY <1>0, <1>1, <1>2, <1>4, <2>1, ReturnHeld
    <2>3. OwnerQuiet(p, g, "user")
      BY <1>1, <1>2, <1>4, <2>2 DEF OwnerQuiet
    <2> QED
      BY <1>0, <2>3, OwnerKeeps
  <1>6. CASE sup.free # <<>>
    <2>1. /\ pc' = [pc EXCEPT ![p] = "smod"] /\ cont' = [cont EXCEPT ![p] = "take"]
          /\ UNCHANGED <<fl, bl, n, ilock>>
      BY <1>6 DEF balloc, CallSmod, Goto, callvars
    <2>2. At(p)' = "take" /\ \A q \in Procs : q # p => cont'[q] = cont[q]
      BY <1>0, <2>1 DEF At, CallType
    <2>3. Held(g)' = mem[g]
      BY <1>0, <1>1, <1>3, <1>4, <2>1, <2>2, MineNext DEF Truncating
    <2>4. OwnerQuiet(p, g, "smod")
      BY <1>1, <1>2, <1>4, <2>1, <2>2, <2>3 DEF OwnerQuiet
    <2> QED
      BY <1>0, <2>4, OwnerKeeps
  <1> QED
    BY <1>5, <1>6

LEMMA bfreeStore ==
  ASSUME TypeOK, FInv, LocalInv, StoreInv, NEW p \in Procs, bfree(p)
  PROVE  StoreInv'
  <1>0. CallType /\ CallsInv /\ CallType' /\ CallsInv' /\ LocalInv'
    BY TypeCall, bfreeType, bfreeLocalInv DEF LocalInv, CallsInv
  <1>1. /\ pc[p] = "bfree" /\ flock = Free
        /\ UNCHANGED <<sup, mem, cblk, power, ron, fl, bl, n, ilock, cont>>
    BY DEF bfree, Running, mount, cache, history, invars, callvars
  <1>2. PICK x : /\ pc' = [pc EXCEPT ![p] = x]
                 /\ x = IF Len(sup.free) \in {0, NICFREE} THEN "chain" ELSE "put"
    BY DEF bfree, Goto, Yield
  <1>3. x = "put" => sup.free # <<>>
    BY <1>2
  <1>4. PICK g : g = fl[p]
    OBVIOUS
  <1>5. At(p) = "bfree" /\ At(p)' = x
    BY <1>0, <1>1, <1>2 DEF At, CallType
  <1>6. g \in Files /\ Held(g)' = Held(g)
    <2>1. g \in Files /\ ilock[g] = p /\ Held(g) = SubSeq(mem[g], 1, n[p])
      BY <1>0, <1>1, <1>4, <1>5, MineNow DEF Truncating
    <2>2. ilock'[g] = p /\ At(p)' \in Truncating
      BY <1>1, <1>2, <1>5, <2>1 DEF Truncating
    <2>3. Held(g)' = SubSeq(mem'[g], 1, n'[p])
      BY <1>0, <2>1, <2>2, MineNext
    <2> QED
      BY <1>1, <2>1, <2>3
  <1>7. OwnerQuiet(p, g, x)
    BY <1>1, <1>2, <1>3, <1>4, <1>6 DEF OwnerQuiet
  <1> QED
    BY <1>0, <1>7, OwnerKeeps

LEMMA freedStore ==
  ASSUME TypeOK, FInv, LocalInv, StoreInv, NEW p \in Procs, freed(p)
  PROVE  StoreInv'
  <1>0. CallType /\ CallsInv /\ CallType' /\ CallsInv' /\ LocalInv'
    BY TypeCall, freedType, freedLocalInv DEF LocalInv, CallsInv
  <1>1. /\ pc[p] = "freed" /\ flock = p /\ UNCHANGED <<sup, cblk, power, ron>>
    BY DEF freed, Running, mount, cache, history, FInv, LockInv, WithFlock
  <1>2. PICK g : g = fl[p]
    OBVIOUS
  <1>3. At(p) = "freed"
    BY <1>1 DEF At
  <1>4. g \in Files /\ ilock[g] = p /\ Held(g) = SubSeq(mem[g], 1, n[p])
    BY <1>0, <1>1, <1>2, <1>3, MineNow DEF Truncating
  <1>5. CASE n[p] > 0
    <2>1. /\ pc' = [pc EXCEPT ![p] = "bfree"]
          /\ UNCHANGED <<fl, bl, n, ilock, cont, mem>>
      BY <1>5 DEF freed, Goto, invars, callvars
    <2>2. At(p)' = "bfree"
      BY <1>0, <2>1 DEF At, CallType
    <2>3. Held(g)' = Held(g)
      BY <1>0, <1>4, <2>1, <2>2, MineNext DEF Truncating
    <2>4. OwnerQuiet(p, g, "bfree")
      BY <1>1, <1>2, <1>4, <2>1, <2>3 DEF OwnerQuiet
    <2> QED
      BY <1>0, <2>4, OwnerKeeps
  <1>6. CASE ~(n[p] > 0)
    <2>1. Return(p) /\ mem' = [mem EXCEPT ![g] = <<>>]
      BY <1>2, <1>6 DEF freed
    <2>2. mem'[g] = <<>> /\ \A f \in Files : f # g => mem'[f] = mem[f]
      BY <1>0, <1>4, <2>1 DEF CallType
    <2>3. n[p] = 0 /\ mem[g] \in Seq(Blocks)
      BY <1>0, <1>4, <1>6, AddrIsSeq, FilsysAssumption DEF CallType
    <2>4. Held(g) = <<>>
      BY <1>4, <2>3, SubSeqEnds
    <2>5. /\ Held(g)' = Held(g) /\ pc' = [pc EXCEPT ![p] = "user"]
          /\ \A f \in Files : f # g => ilock'[f] = ilock[f]
          /\ \A q \in Procs : q # p => cont'[q] = cont[q] /\ n'[q] = n[q] /\ bl'[q] = bl[q]
      BY <1>0, <1>2, <1>4, <2>1, <2>2, <2>4, ReturnHeld
    <2>6. OwnerQuiet(p, g, "user")
      BY <1>1, <1>2, <2>2, <2>5 DEF OwnerQuiet
    <2> QED
      BY <1>0, <2>6, OwnerKeeps
  <1> QED
    BY <1>5, <1>6


\* While a process is in balloc or bfree the file system can be written.
LEMMA BusyUp ==
  ASSUME FInv, NEW p \in Procs, pc[p] # "user"
  PROVE  power = "up" /\ ~ron
  BY DEF FInv, IdleInv

\* A block that an inode holds is not in the list.
LEMMA HeldApart ==
  ASSUME NEW t \in Seq(Blocks), NEW h, NEW g \in Files, Partition(t, h),
         NEW b, b \in Range(h[g])
  PROVE  \A i \in 1 .. Len(t) : t[i] # b
  <1>1. DOMAIN t = 1 .. Len(t)
    OBVIOUS
  <1> QED
    BY <1>1 DEF Partition, Range

\* balloc takes a block from the list.
LEMMA takeStore ==
  ASSUME TypeOK, FInv, LocalInv, StoreInv, NEW p \in Procs, take(p)
  PROVE  StoreInv'
  <1>0. CallType /\ CallsInv /\ CallType' /\ CallsInv' /\ sup \in Supers
    BY TypeNow, takeType, takeLocalInv DEF LocalInv, CallsInv
  <1>1. /\ pc[p] = "take" /\ flock = p /\ sup.free # <<>> /\ bl[p] = NoBlock
        /\ UNCHANGED <<fl, n, ilock, mem, cblk>>
    <2>1. pc[p] = "take" /\ UNCHANGED <<fl, n, ilock, mem, cblk>>
      BY DEF take, Running, invars, cache
    <2>2. At(p) = "take"
      BY <2>1 DEF At
    <2> QED
      BY <2>1, <2>2 DEF LocalInv, ListInv, WriteInv, Writing, FInv, LockInv,
         WithFlock
  <1>2. PICK l, t, B : Stored(l, t, B)
    BY <1>1, BusyUp, StoreNow
  <1>3. PICK h : h = [f \in Files |-> Held(f)]
    OBVIOUS
  <1>4. \A q \in Procs \ {p} : pc[q] \notin WithFlock
    BY <1>1, FlockAlone
  <1>5. l = sup.free /\ Unread = 0
    BY <1>1, <1>2, <1>4, OwnerNow DEF Stored
  <1>6. Stack(t, B, l, cblk) /\ Partition(t, h) /\ sup.tfree = Len(t)
    <2>1. sup.tfree = Len(t) + 0 /\ Stack(t, B, l, cblk) /\ Partition(t, h)
      BY <1>2, <1>3, <1>5 DEF Stored
    <2>2. Len(t) \in Nat
      BY <2>1, StackTyped
    <2> QED
      BY <2>1, <2>2
  <1>7. /\ t \in Seq(Blocks) /\ l \in Seq(Blocks) /\ t # <<>>
        /\ Last(l) = t[Len(t)] /\ t[Len(t)] \in Blocks
    BY <1>1, <1>5, <1>6, StackTyped, StackTop
  <1>8. PICK b, g : b = t[Len(t)] /\ g = fl[p]
    OBVIOUS
  <1>9. bl' = [bl EXCEPT ![p] = b] /\ b \in Blocks /\ b # NoBlock
    BY <1>5, <1>7, <1>8 DEF take, Blocks, NoBlock
  <1>10. PICK s : s = Front(l)
    OBVIOUS
  <1>11. PICK r : r = [sup EXCEPT !.free = s]
    OBVIOUS
  <1>12. r \in [free : {s}, tfree : 0 .. NBLOCK, dirty : BOOLEAN] /\ r.free = s /\ r.tfree = sup.tfree
    BY <1>0, <1>11 DEF Supers
  <1>13. IF s = <<>>
         THEN sup' = r /\ pc' = [pc EXCEPT ![p] = "refill"] /\ cont' = cont
         ELSE /\ sup' = [r EXCEPT !.tfree = @ - 1] /\ pc' = [pc EXCEPT ![p] = "smod"]
              /\ cont' = [cont EXCEPT ![p] = "give"]
    BY <1>5, <1>10, <1>11, <1>12 DEF take, CallSmod, Goto, Yield
  <1>14. /\ s = <<>> => pc'[p] = "refill" /\ At(p)' = "refill"
         /\ s # <<>> => pc'[p] = "smod" /\ At(p)' = "give"
         /\ \A q \in Procs : q # p => pc'[q] = pc[q] /\ cont'[q] = cont[q] /\ bl'[q] = bl[q]
         /\ bl'[p] = b
    BY <1>0, <1>9, <1>13 DEF CallType, At
  <1>15. g \in Files /\ ilock[g] = p /\ Held(g) = mem[g]
    <2>1. At(p) = "take"
      BY <1>1 DEF At
    <2> QED
      BY <1>0, <1>1, <1>8, <2>1, MineNow DEF Truncating
  <1>16. Held(g)' = Append(mem[g], b)
    <2>1. At(p)' \notin Truncating /\ ilock'[g] = p
      BY <1>1, <1>14, <1>15 DEF Truncating
    <2> QED
      BY <1>0, <1>1, <1>9, <1>14, <1>15, <2>1, MineNext
  <1>17. \A f \in Files : f # g => Held(f)' = Held(f)
    <2>1. \A f \in Files : f # g => ilock'[f] = ilock[f] /\ ilock[f] # p /\ mem'[f] = mem[f]
      BY <1>0, <1>1, <1>8, FilsysAssumption DEF CallsInv, CallInv
    <2>2. \A q \in Procs : q # p => /\ pc'[q] = pc[q] /\ cont'[q] = cont[q]
                                    /\ n'[q] = n[q] /\ bl'[q] = bl[q]
      BY <1>1, <1>14
    <2> QED
      BY <1>0, <2>1, <2>2, OthersHeld
  <1>18. PICK k : k = [f \in Files |-> Held(f)']
    OBVIOUS
  <1>19. Partition(Front(t), k)
    <2>1. h[g] = mem[g] /\ k[g] = Append(h[g], t[Len(t)]) /\ \A f \in Files \ {g} : k[f] = h[f]
      BY <1>3, <1>8, <1>15, <1>16, <1>17, <1>18
    <2>2. h[g] \in Seq(Blocks)
      BY <1>0, <1>15, <2>1, AddrIsSeq DEF CallType
    <2>3. t \in Seq(Blocks) /\ t # <<>> /\ Partition(t, h) /\ g \in Files
      BY <1>6, <1>7, <1>15
    <2>4. k[g] = Append(h[g], t[Len(t)])
      BY <2>1
    <2>5. \A f \in Files \ {g} : k[f] = h[f]
      BY <2>1
    <2> QED
      BY <2>2, <2>3, <2>4, <2>5, MoveOut
  <1>20. Len(Front(t)) = Len(t) - 1 /\ Len(t) \in Nat \ {0} /\ Len(s) = Len(l) - 1
         /\ Len(l) \in Nat \ {0} /\ s \in Seq(Blocks)
    BY <1>1, <1>5, <1>7, <1>10, FrontSeq
  <1>21. \A q \in Procs \ {p} : pc'[q] \notin WithFlock
    BY <1>4, <1>14
  <1>22. CASE s = <<>>
    <2>1. Len(l) = 1
      BY <1>20, <1>22
    <2>2. Stack(Front(t), B \ {Len(t)}, cblk[b], cblk)
      BY <1>6, <1>8, <2>1, PopChain
    <2>3. ListIs(cblk[b])' /\ Unread' = 1
      BY <1>1, <1>14, <1>21, <1>22, OwnerNext
    <2>4. sup'.tfree = Len(Front(t)) + 1
      BY <1>6, <1>12, <1>13, <1>20, <1>22
    <2> QED
      BY <1>1, <1>18, <1>19, <2>2, <2>3, <2>4, StoreNext
  <1>23. CASE s # <<>>
    <2>1. Len(l) > 1
      BY <1>20, <1>23, EmptySeq
    <2>2. Stack(Front(t), B \ {Len(t)}, s, cblk)
      BY <1>6, <1>10, <2>1, PopList
    <2>3. sup'.free = s /\ sup'.tfree = sup.tfree - 1
      BY <1>12, <1>13, <1>23
    <2>4. ListIs(s)' /\ Unread' = 0
      BY <1>14, <1>21, <1>23, <2>3, OwnerNext
    <2>5. sup'.tfree = Len(Front(t)) + 0
      BY <1>6, <1>20, <2>3
    <2> QED
      BY <1>1, <1>18, <1>19, <2>2, <2>4, <2>5, StoreNext
  <1> QED
    BY <1>22, <1>23

\* The list that balloc has read is in core.
LEMMA refillStore ==
  ASSUME TypeOK, FInv, LocalInv, StoreInv, NEW p \in Procs, refill(p)
  PROVE  StoreInv' /\ sup'.free \in Lists
  <1>0. CallType /\ CallsInv /\ CallType' /\ CallsInv' /\ sup \in Supers /\ RestType
    BY TypeNow, refillType, refillLocalInv DEF LocalInv, CallsInv
  <1>1. /\ pc[p] = "refill" /\ flock = p
        /\ UNCHANGED <<fl, bl, n, ilock, mem, cblk>>
    BY DEF refill, Running, invars, cache, callvars, FInv, LockInv, WithFlock
  <1>2. PICK l, t, B : Stored(l, t, B)
    BY <1>1, BusyUp, StoreNow
  <1>3. PICK h : h = [f \in Files |-> Held(f)]
    OBVIOUS
  <1>4. \A q \in Procs \ {p} : pc[q] \notin WithFlock
    BY <1>1, FlockAlone
  <1>5. l = cblk[bl[p]] /\ Unread = 1
    BY <1>1, <1>2, <1>4, OwnerNow DEF Stored
  <1>6. Stack(t, B, l, cblk) /\ Partition(t, h) /\ sup.tfree = Len(t) + 1
    BY <1>2, <1>3, <1>5 DEF Stored
  <1>7. Len(t) \in Nat /\ l \in Seq(Blocks)
    BY <1>6, StackTyped
  <1>8. sup'.free = l /\ sup'.tfree = Len(t) + 0
    <2>1. sup'.free = l /\ sup'.tfree = sup.tfree - 1
      BY <1>0, <1>5 DEF refill, Supers
    <2> QED
      BY <1>6, <1>7, <2>1
  <1>9. /\ pc' = [pc EXCEPT ![p] = "smod"] /\ cont' = [cont EXCEPT ![p] = "give"]
    BY DEF refill, CallSmod, Goto
  <1>10. /\ pc'[p] = "smod" /\ At(p)' = "give" /\ At(p) = "refill"
         /\ \A q \in Procs : q # p => pc'[q] = pc[q] /\ cont'[q] = cont[q]
    BY <1>0, <1>1, <1>9 DEF CallType, At
  <1>11. ListIs(l)' /\ Unread' = 0
    <2>1. \A q \in Procs \ {p} : pc'[q] \notin WithFlock
      BY <1>4, <1>10
    <2> QED
      BY <1>8, <1>10, <2>1, OwnerNext
  <1>12. PICK g : g = fl[p]
    OBVIOUS
  <1>13. g \in Files /\ Held(g)' = Held(g)
    <2>1. /\ g \in Files /\ ilock[g] = p
          /\ Held(g) = IF bl[p] # NoBlock THEN Append(mem[g], bl[p]) ELSE mem[g]
      BY <1>0, <1>1, <1>10, <1>12, MineNow DEF Truncating
    <2>2. Held(g)' = IF bl'[p] # NoBlock THEN Append(mem'[g], bl'[p]) ELSE mem'[g]
      BY <1>0, <1>1, <1>10, <2>1, MineNext DEF Truncating
    <2> QED
      BY <1>1, <2>1, <2>2
  <1>14. \A f \in Files : f # g => Held(f)' = Held(f)
    <2>1. \A f \in Files : f # g => ilock'[f] = ilock[f] /\ ilock[f] # p /\ mem'[f] = mem[f]
      BY <1>0, <1>1, <1>12, FilsysAssumption DEF CallsInv, CallInv
    <2> QED
      BY <1>0, <1>1, <1>10, <2>1, OthersHeld
  <1>15. \A f \in Files : Held(f)' = h[f]
    BY <1>3, <1>13, <1>14
  <1>16. StoreInv'
    BY <1>1, <1>6, <1>8, <1>11, <1>15, StoreNext
  <1>17. bl[p] \in Blocks
    BY <1>0, <1>10 DEF CallsInv, WriteInv, Writing, CallType
  <1>18. l \in Contents
    BY <1>0, <1>5, <1>17 DEF RestType
  <1> QED
    BY <1>7, <1>8, <1>16, <1>18, ContentsIsSeq


\* The block that balloc gives to the inode is not in the list.
LEMMA giveStore ==
  ASSUME TypeOK, FInv, LocalInv, StoreInv, NEW p \in Procs, give(p)
  PROVE  StoreInv'
  <1>0. CallType /\ CallsInv /\ CallType' /\ CallsInv' /\ RestType
    BY TypeNow, giveType, giveLocalInv DEF LocalInv, CallsInv
  <1>1. pc[p] = "give" /\ flock = p /\ Return(p) /\ sup' = sup
    BY DEF give, Running, FInv, LockInv, WithFlock
  <1>2. PICK l, t, B : Stored(l, t, B)
    BY <1>1, BusyUp, StoreNow
  <1>3. PICK h : h = [f \in Files |-> Held(f)]
    OBVIOUS
  <1>4. \A q \in Procs \ {p} : pc[q] \notin WithFlock
    BY <1>1, FlockAlone
  <1>5. l = sup.free /\ Unread = 0
    BY <1>1, <1>2, <1>4, OwnerNow DEF Stored
  <1>6. Stack(t, B, l, cblk) /\ Partition(t, h) /\ sup.tfree = Len(t) + 0
    BY <1>2, <1>3, <1>5 DEF Stored
  <1>7. t \in Seq(Blocks) /\ Len(t) \in Nat /\ \A i \in 1 .. Len(t) : t[i] \in Blocks
    BY <1>6, StackTyped
  <1>8. PICK b, g : b = bl[p] /\ g = fl[p]
    OBVIOUS
  <1>9. At(p) = "give" /\ b # NoBlock /\ b \in Blocks
    <2>1. At(p) = "give"
      BY <1>1 DEF At
    <2> QED
      BY <1>0, <1>8, <2>1 DEF CallsInv, WriteInv, Writing, CallType
  <1>10. g \in Files /\ ilock[g] = p /\ Held(g) = Append(mem[g], b)
    BY <1>0, <1>1, <1>8, <1>9, MineNow DEF Truncating
  <1>11. /\ mem' = [mem EXCEPT ![g] = Append(mem[g], b)]
         /\ cblk' = [cblk EXCEPT ![b] = <<DATA>>]
    BY <1>8 DEF give
  <1>12. mem'[g] = Append(mem[g], b) /\ \A f \in Files : f # g => mem'[f] = mem[f]
    BY <1>0, <1>10, <1>11 DEF CallType
  <1>13. /\ Held(g)' = mem'[g] /\ pc' = [pc EXCEPT ![p] = "user"]
         /\ \A f \in Files : f # g => ilock'[f] = ilock[f]
         /\ \A q \in Procs : q # p => cont'[q] = cont[q] /\ n'[q] = n[q] /\ bl'[q] = bl[q]
    BY <1>0, <1>1, <1>8, <1>10, ReturnHeld
  <1>14. pc'[p] = "user" /\ \A q \in Procs : q # p => pc'[q] = pc[q]
    BY <1>0, <1>13 DEF CallType
  <1>15. \A f \in Files : f # g => Held(f)' = Held(f)
    <2>1. \A f \in Files : f # g => ilock'[f] = ilock[f] /\ ilock[f] # p /\ mem'[f] = mem[f]
      BY <1>0, <1>8, <1>12, <1>13, FilsysAssumption DEF CallsInv, CallInv
    <2> QED
      BY <1>0, <1>13, <1>14, <2>1, OthersHeld
  <1>16. \A f \in Files : Held(f)' = h[f]
    BY <1>3, <1>10, <1>12, <1>13, <1>15
  <1>17. \A i \in 1 .. Len(t) : t[i] # b
    <2>1. h[g] = Append(mem[g], b)
      BY <1>3, <1>10
    <2>2. mem[g] \in Seq(Blocks)
      BY <1>0, <1>10, AddrIsSeq DEF CallType
    <2>3. Len(mem[g]) + 1 \in DOMAIN Append(mem[g], b) /\ Append(mem[g], b)[Len(mem[g]) + 1] = b
      BY <1>9, <2>2
    <2>4. b \in Range(h[g])
      BY <2>1, <2>3 DEF Range
    <2> QED
      BY <1>6, <1>7, <1>10, <2>4, HeldApart
  <1>18. \A i \in 1 .. Len(t) : cblk'[t[i]] = cblk[t[i]]
    BY <1>0, <1>7, <1>11, <1>17 DEF RestType
  <1>19. Stack(t, B, l, cblk')
    BY <1>6, <1>18, StackFrame
  <1>20. ListIs(l)' /\ Unread' = 0
    <2>1. \A q \in Procs \ {p} : pc'[q] \notin WithFlock
      BY <1>4, <1>14
    <2> QED
      BY <1>1, <1>5, <1>14, <2>1, OwnerNext
  <1> QED
    BY <1>1, <1>6, <1>16, <1>19, <1>20, StoreNext

\* What bfree knows of the block it frees: the last that the inode still holds.
LEMMA LastHeld ==
  ASSUME CallType, CallsInv, NEW p \in Procs, At(p) \in {"chain", "put"}, NEW g, g = fl[p],
         NEW b, b = mem[g][n[p]]
  PROVE  /\ g \in Files /\ ilock[g] = p /\ b \in Blocks /\ mem[g] \in Seq(Blocks)
         /\ n[p] \in 1 .. Len(mem[g])
         /\ Held(g) = SubSeq(mem[g], 1, n[p])
         /\ Held(g) \in Seq(Blocks) /\ Held(g) # <<>> /\ Len(Held(g)) = n[p]
         /\ Held(g)[n[p]] = b /\ b \in Range(Held(g))
         /\ Front(Held(g)) = SubSeq(mem[g], 1, n[p] - 1)
  <1>1. pc[p] # "user" /\ At(p) \in Truncating
    BY DEF At, Truncating
  <1>2. g \in Files /\ ilock[g] = p /\ Held(g) = SubSeq(mem[g], 1, n[p])
    BY <1>1, MineNow
  <1>3. mem[g] \in Seq(Blocks)
    BY <1>2, AddrIsSeq DEF CallType
  <1>4. n[p] \in 1 .. Len(mem[g])
    <2>1. n[p] <= Len(mem[g]) /\ n[p] > 0
      BY <1>1 DEF CallsInv, TruncInv
    <2>2. n[p] \in Nat /\ Len(mem[g]) \in Nat
      BY <1>2, FilsysAssumption DEF CallType
    <2> QED
      BY <2>1, <2>2
  <1>5. PICK k : k = n[p]
    OBVIOUS
  <1>6. /\ SubSeq(mem[g], 1, k) \in Seq(Blocks) /\ SubSeq(mem[g], 1, k) # <<>>
        /\ Len(SubSeq(mem[g], 1, k)) = k /\ SubSeq(mem[g], 1, k)[k] = mem[g][k]
        /\ mem[g][k] \in Blocks /\ Front(SubSeq(mem[g], 1, k)) = SubSeq(mem[g], 1, k - 1)
    BY <1>3, <1>4, <1>5, SubSeqTail
  <1>7. PICK u : u = Held(g)
    OBVIOUS
  <1>8. u \in Seq(Blocks) /\ Len(u) = k /\ u[k] = b /\ k \in 1 .. Len(u)
    BY <1>2, <1>4, <1>5, <1>6, <1>7
  <1>9. b \in Range(u)
    <2>1. DOMAIN u = 1 .. Len(u)
      BY <1>8
    <2> QED
      BY <1>8, <2>1 DEF Range
  <1> QED
    BY <1>2, <1>3, <1>4, <1>5, <1>6, <1>7, <1>8, <1>9

\* bfree writes the list into the block.
LEMMA chainStore ==
  ASSUME TypeOK, FInv, LocalInv, StoreInv, NEW p \in Procs, chain(p)
  PROVE  StoreInv'
  <1>0. CallType /\ CallsInv /\ CallType' /\ CallsInv' /\ RestType /\ sup \in Supers
    BY TypeNow, chainType, chainLocalInv DEF LocalInv, CallsInv
  <1>1. pc[p] = "chain" /\ flock = p /\ UNCHANGED <<fl, bl, n, cont, ilock, mem>>
    BY DEF chain, Running, invars, callvars, FInv, LockInv, WithFlock
  <1>2. PICK l, t, B : Stored(l, t, B)
    BY <1>1, BusyUp, StoreNow
  <1>3. PICK h : h = [f \in Files |-> Held(f)]
    OBVIOUS
  <1>4. \A q \in Procs \ {p} : pc[q] \notin WithFlock
    BY <1>1, FlockAlone
  <1>5. l = sup.free /\ Unread = 0
    BY <1>1, <1>2, <1>4, OwnerNow DEF Stored
  <1>6. Stack(t, B, l, cblk) /\ Partition(t, h) /\ sup.tfree = Len(t) + 0
    BY <1>2, <1>3, <1>5 DEF Stored
  <1>7. t \in Seq(Blocks) /\ Len(t) \in Nat /\ \A i \in 1 .. Len(t) : t[i] \in Blocks
    BY <1>6, StackTyped
  <1>8. PICK g : g = fl[p]
    OBVIOUS
  <1>9. PICK b : b = mem[g][n[p]]
    OBVIOUS
  <1>10. At(p) = "chain"
    BY <1>1 DEF At
  <1>11. /\ g \in Files /\ ilock[g] = p /\ b \in Blocks /\ b \in Range(Held(g))
         /\ Held(g) = SubSeq(mem[g], 1, n[p])
    BY <1>0, <1>8, <1>9, <1>10, LastHeld
  <1>12. cblk' = [cblk EXCEPT ![b] = l] /\ pc' = [pc EXCEPT ![p] = "put"]
    BY <1>5, <1>8, <1>9 DEF chain, Goto
  <1>13. sup'.free = <<>> /\ sup'.tfree = Len(t) + 0
    BY <1>0, <1>6 DEF chain, Supers
  <1>14. cblk'[b] = l /\ pc'[p] = "put" /\ \A q \in Procs : q # p => pc'[q] = pc[q]
    BY <1>0, <1>11, <1>12 DEF CallType, RestType
  <1>15. At(p)' = "put"
    BY <1>14 DEF At
  <1>16. Held(g)' = Held(g)
    <2>1. Held(g)' = SubSeq(mem'[g], 1, n'[p])
      BY <1>0, <1>1, <1>11, <1>15, MineNext DEF Truncating
    <2> QED
      BY <1>1, <1>11, <2>1
  <1>17. \A f \in Files : f # g => Held(f)' = Held(f)
    <2>1. \A f \in Files : f # g => ilock'[f] = ilock[f] /\ ilock[f] # p /\ mem'[f] = mem[f]
      BY <1>0, <1>1, <1>8, FilsysAssumption DEF CallsInv, CallInv
    <2> QED
      BY <1>0, <1>1, <1>14, <2>1, OthersHeld
  <1>18. \A f \in Files : Held(f)' = h[f]
    BY <1>3, <1>11, <1>16, <1>17
  <1>19. \A i \in 1 .. Len(t) : t[i] # b
    <2>1. b \in Range(h[g])
      BY <1>3, <1>11
    <2> QED
      BY <1>6, <1>7, <1>11, <2>1, HeldApart
  <1>20. \A i \in 1 .. Len(t) : cblk'[t[i]] = cblk[t[i]]
    BY <1>0, <1>7, <1>12, <1>19 DEF RestType
  <1>21. Stack(t, B, l, cblk')
    BY <1>6, <1>20, StackFrame
  <1>22. ListIs(l)' /\ Unread' = 0
    <2>1. \A q \in Procs \ {p} : pc'[q] \notin WithFlock
      BY <1>4, <1>14
    <2>2. l = cblk'[mem'[fl'[p]][n'[p]]]
      BY <1>1, <1>8, <1>9, <1>14
    <2> QED
      BY <1>13, <1>14, <2>1, <2>2, OwnerNext
  <1> QED
    BY <1>6, <1>13, <1>18, <1>21, <1>22, StoreNext

\* bfree puts the block on the list.
LEMMA putStore ==
  ASSUME TypeOK, FInv, LocalInv, StoreInv, NEW p \in Procs, put(p)
  PROVE  StoreInv' /\ sup'.free \in Lists
  <1>0. CallType /\ CallsInv /\ CallType' /\ CallsInv' /\ RestType /\ sup \in Supers
    BY TypeNow, putType, putLocalInv DEF LocalInv, CallsInv
  <1>1. /\ pc[p] = "put" /\ flock = p /\ UNCHANGED <<fl, bl, ilock, mem, cblk>>
        /\ Len(sup.free) < NICFREE
    BY DEF put, Running, invars, cache, FInv, LockInv, WithFlock, LocalInv,
       ListInv
  <1>2. PICK l, t, B : Stored(l, t, B)
    BY <1>1, BusyUp, StoreNow
  <1>3. PICK h : h = [f \in Files |-> Held(f)]
    OBVIOUS
  <1>4. \A q \in Procs \ {p} : pc[q] \notin WithFlock
    BY <1>1, FlockAlone
  <1>5. PICK g : g = fl[p]
    OBVIOUS
  <1>6. PICK b : b = mem[g][n[p]]
    OBVIOUS
  <1>7. /\ l = IF sup.free = <<>> THEN cblk[b] ELSE sup.free
        /\ Unread = 0
    BY <1>1, <1>2, <1>4, <1>5, <1>6, OwnerNow DEF Stored
  <1>8. Stack(t, B, l, cblk) /\ Partition(t, h) /\ sup.tfree = Len(t) + 0
    BY <1>2, <1>3, <1>7 DEF Stored
  <1>9. t \in Seq(Blocks) /\ Len(t) \in Nat
    BY <1>8, StackTyped
  <1>10. At(p) = "put"
    BY <1>1 DEF At
  <1>11. /\ g \in Files /\ ilock[g] = p /\ b \in Blocks
         /\ Held(g) \in Seq(Blocks) /\ Held(g) # <<>> /\ Len(Held(g)) = n[p]
         /\ Held(g)[n[p]] = b /\ Front(Held(g)) = SubSeq(mem[g], 1, n[p] - 1)
    BY <1>0, <1>5, <1>6, <1>10, LastHeld
  <1>12. /\ pc' = [pc EXCEPT ![p] = "smod"] /\ cont' = [cont EXCEPT ![p] = "freed"]
         /\ n' = [n EXCEPT ![p] = n[p] - 1]
    BY DEF put, CallSmod, Goto
  <1>13. sup'.free = Append(sup.free, b) /\ sup'.tfree = sup.tfree + 1
    BY <1>0, <1>5, <1>6 DEF put, Supers
  <1>14. /\ pc'[p] = "smod" /\ n'[p] = n[p] - 1 /\ At(p)' = "freed"
         /\ \A q \in Procs : q # p => pc'[q] = pc[q] /\ cont'[q] = cont[q] /\ n'[q] = n[q]
    BY <1>0, <1>12 DEF CallType, At
  <1>15. Held(g)' = Front(Held(g))
    <2>1. Held(g)' = SubSeq(mem'[g], 1, n'[p])
      BY <1>0, <1>1, <1>11, <1>14, MineNext DEF Truncating
    <2> QED
      BY <1>1, <1>11, <1>14, <2>1
  <1>16. \A f \in Files : f # g => Held(f)' = Held(f)
    <2>1. \A f \in Files : f # g => ilock'[f] = ilock[f] /\ ilock[f] # p /\ mem'[f] = mem[f]
      BY <1>0, <1>1, <1>5, FilsysAssumption DEF CallsInv, CallInv
    <2> QED
      BY <1>0, <1>1, <1>14, <2>1, OthersHeld
  <1>17. PICK k : k = [f \in Files |-> Held(f)']
    OBVIOUS
  <1>18. Partition(Append(t, b), k)
    <2>1. h[g] \in Seq(Blocks) /\ h[g] # <<>> /\ h[g][Len(h[g])] = b
      BY <1>3, <1>11
    <2>2. k[g] = Front(h[g])
      BY <1>3, <1>11, <1>15, <1>17
    <2>3. \A f \in Files \ {g} : k[f] = h[f]
      BY <1>3, <1>16, <1>17
    <2>4. t \in Seq(Blocks) /\ Partition(t, h) /\ g \in Files
      BY <1>8, <1>9, <1>11
    <2>5. Partition(Append(t, h[g][Len(h[g])]), k)
      BY <2>1, <2>2, <2>3, <2>4, MoveIn
    <2> QED
      BY <2>1, <2>5
  <1>19. \A q \in Procs \ {p} : pc'[q] \notin WithFlock
    BY <1>4, <1>14
  <1>20. Len(Append(t, b)) = Len(t) + 1
    BY <1>9, <1>11, AppendSeq
  <1>21. sup.free \in Seq(Blocks)
    BY <1>0, ListIsSeq DEF Supers
  <1>22. PICK s : s = Append(sup.free, b)
    OBVIOUS
  <1>23. ListIs(s)' /\ Unread' = 0
    BY <1>13, <1>14, <1>19, <1>22, OwnerNext
  <1>24. \E C : Stack(Append(t, b), C, s, cblk')
    <2>1. CASE sup.free = <<>>
      <3>1. s = <<b>>
        BY <1>22, <2>1
      <3>2. Stack(t, B, cblk[b], cblk)
        BY <1>7, <1>8, <2>1
      <3>3. Stack(Append(t, b), B \union {Len(t) + 1}, <<b>>, cblk)
        BY <1>11, <3>2, PushChain
      <3> QED
        BY <1>1, <3>1, <3>3
    <2>2. CASE sup.free # <<>>
      <3>1. Stack(t, B, sup.free, cblk)
        BY <1>7, <1>8, <2>2
      <3>2. Stack(Append(t, b), B, s, cblk)
        BY <1>11, <1>22, <2>2, <3>1, PushList
      <3> QED
        BY <1>1, <3>2
    <2> QED
      BY <2>1, <2>2
  <1>25. PICK C : Stack(Append(t, b), C, s, cblk')
    BY <1>24
  <1>26. sup'.tfree = Len(Append(t, b)) + 0
    BY <1>8, <1>9, <1>13, <1>20
  <1>27. StoreInv'
    <2>1. PICK u : u = Append(t, b)
      OBVIOUS
    <2>2. Stack(u, C, s, cblk') /\ Partition(u, k) /\ sup'.tfree = Len(u) + Unread'
      BY <1>18, <1>23, <1>25, <1>26, <2>1
    <2>3. \A f \in Files : Held(f)' = k[f]
      BY <1>17
    <2> QED
      BY <1>23, <2>2, <2>3, StoreNext
  <1>28. s \in Lists
    <2>1. s \in Seq(Blocks) /\ Len(s) = Len(sup.free) + 1 /\ Len(sup.free) \in Nat
      BY <1>11, <1>21, <1>22, AppendSeq
    <2>2. Len(s) <= NICFREE
      BY <1>1, <2>1, FilsysAssumption
    <2> QED
      BY <2>1, <2>2, ListIsSeq
  <1> QED
    BY <1>13, <1>22, <1>27, <1>28


-----------------------------------------------------------------------------
(* s_tfree stays in its range, and so the steps of a process are typed.    *)

LEMMA TfreeNext ==
  ASSUME StoreInv', power' = "up", ~ron', \A q \in Procs : pc'[q] # "refill"
  PROVE  sup'.tfree \in 0 .. NBLOCK
  <1>1. PICK l, t, B : /\ Stack(t, B, l, cblk') /\ Partition(t, [f \in Files |-> Held(f)'])
                       /\ sup'.tfree = Len(t) + Unread'
    BY DEF StoreInv
  <1>2. Unread' = 0
    BY DEF Unread
  <1>3. t \in Seq(Blocks) /\ Len(t) \in Nat
    BY <1>1, StackTyped
  <1>4. IsInjective(t)
    BY <1>1 DEF Partition
  <1>5. Len(t) <= NBLOCK
    BY <1>3, <1>4, InjectiveLen
  <1> QED
    BY <1>1, <1>2, <1>3, <1>5, FilsysAssumption

\* Nobody reads a chain block once the owner of m_flock has gone on.
LEMMA NoneRefill ==
  ASSUME CallType, FInv, NEW p \in Procs, flock = p, NEW x, x # "refill",
         pc' = [pc EXCEPT ![p] = x]
  PROVE  \A q \in Procs : pc'[q] # "refill"
  <1>1. \A q \in Procs \ {p} : pc[q] \notin WithFlock
    BY FlockAlone
  <1> QED
    BY <1>1 DEF CallType, WithFlock

LEMMA EmptyList == <<>> \in Lists
  <1>1. <<>> \in Seq(Blocks) /\ Len(<<>>) = 0 /\ 0 <= NICFREE
    BY EmptySeq, FilsysAssumption
  <1> QED
    BY <1>1, ListIsSeq

LEMMA takeSuper ==
  ASSUME TypeOK, FInv, LocalInv, StoreInv, NEW p \in Procs, take(p)
  PROVE  sup' \in Supers
  <1>0. CallType /\ sup \in Supers /\ pc[p] = "take" /\ flock = p /\ power' = power /\ ron' = ron
    BY TypeNow DEF take, Running, FInv, LockInv, WithFlock, mount, history
  <1>1. power' = "up" /\ ~ron'
    BY <1>0, BusyUp
  <1>2. PICK s : s = Front(sup.free)
    OBVIOUS
  <1>3. s \in Lists
    <2>1. sup.free # <<>>
      BY <1>0 DEF LocalInv, ListInv, At
    <2>2. sup.free \in Seq(Blocks) /\ Len(sup.free) <= NICFREE
      BY <1>0, ListIsSeq DEF Supers
    <2>3. s \in Seq(Blocks) /\ Len(s) = Len(sup.free) - 1 /\ Len(sup.free) \in Nat
      BY <1>2, <2>1, <2>2, FrontSeq
    <2>4. Len(s) <= NICFREE
      BY <2>2, <2>3, FilsysAssumption
    <2> QED
      BY <2>3, <2>4, ListIsSeq
  <1>4. PICK r : r = [sup EXCEPT !.free = s]
    OBVIOUS
  <1>5. r \in Supers /\ r.free = s
    BY <1>0, <1>3, <1>4 DEF Supers
  <1>6. CASE s = <<>>
    <2>1. sup' = r
      BY <1>2, <1>4, <1>5, <1>6 DEF take
    <2> QED
      BY <1>5, <2>1
  <1>7. CASE s # <<>>
    <2>1. sup' = [r EXCEPT !.tfree = @ - 1] /\ pc' = [pc EXCEPT ![p] = "smod"]
      BY <1>2, <1>4, <1>5, <1>7 DEF take, CallSmod, Goto
    <2>2. \A q \in Procs : pc'[q] # "refill"
      BY <1>0, <2>1, NoneRefill
    <2>3. sup'.tfree \in 0 .. NBLOCK
      BY <1>1, <2>2, takeStore, TfreeNext
    <2>4. sup'.tfree = r.tfree - 1
      BY <1>5, <2>1 DEF Supers
    <2>5. PICK v : v = r.tfree - 1
      OBVIOUS
    <2>6. sup' = [r EXCEPT !.tfree = v] /\ v \in 0 .. NBLOCK
      BY <2>1, <2>3, <2>4, <2>5
    <2> QED
      BY <1>5, <2>6 DEF Supers
  <1> QED
    BY <1>6, <1>7

LEMMA refillSuper ==
  ASSUME TypeOK, FInv, LocalInv, StoreInv, NEW p \in Procs, refill(p)
  PROVE  sup' \in Supers
  <1>0. CallType /\ sup \in Supers /\ pc[p] = "refill" /\ flock = p /\ power' = power /\ ron' = ron
    BY TypeNow DEF refill, Running, FInv, LockInv, WithFlock, mount, history
  <1>1. power' = "up" /\ ~ron'
    BY <1>0, BusyUp
  <1>2. pc' = [pc EXCEPT ![p] = "smod"]
    BY DEF refill, CallSmod, Goto
  <1>3. \A q \in Procs : pc'[q] # "refill"
    BY <1>0, <1>2, NoneRefill
  <1>4. sup'.tfree \in 0 .. NBLOCK /\ sup'.free \in Lists
    BY <1>1, <1>3, refillStore, TfreeNext
  <1>5. PICK u, v : u = cblk[bl[p]] /\ v = sup.tfree - 1
    OBVIOUS
  <1>6. sup' = [sup EXCEPT !.free = u, !.tfree = v]
    BY <1>5 DEF refill
  <1>7. sup'.free = u /\ sup'.tfree = v
    BY <1>0, <1>6 DEF Supers
  <1>8. u \in Lists /\ v \in 0 .. NBLOCK
    BY <1>4, <1>7
  <1> QED
    BY <1>0, <1>6, <1>8 DEF Supers

LEMMA putSuper ==
  ASSUME TypeOK, FInv, LocalInv, StoreInv, NEW p \in Procs, put(p)
  PROVE  sup' \in Supers
  <1>0. CallType /\ sup \in Supers /\ pc[p] = "put" /\ flock = p /\ power' = power /\ ron' = ron
    BY TypeNow DEF put, Running, FInv, LockInv, WithFlock, mount, history
  <1>1. power' = "up" /\ ~ron'
    BY <1>0, BusyUp
  <1>2. pc' = [pc EXCEPT ![p] = "smod"]
    BY DEF put, CallSmod, Goto
  <1>3. \A q \in Procs : pc'[q] # "refill"
    BY <1>0, <1>2, NoneRefill
  <1>4. sup'.tfree \in 0 .. NBLOCK /\ sup'.free \in Lists
    BY <1>1, <1>3, putStore, TfreeNext
  <1>5. PICK u, v : u = Append(sup.free, mem[fl[p]][n[p]]) /\ v = sup.tfree + 1
    OBVIOUS
  <1>6. sup' = [sup EXCEPT !.free = u, !.tfree = v]
    BY <1>5 DEF put
  <1>7. sup'.free = u /\ sup'.tfree = v
    BY <1>0, <1>6 DEF Supers
  <1>8. u \in Lists /\ v \in 0 .. NBLOCK
    BY <1>4, <1>7
  <1> QED
    BY <1>0, <1>6, <1>8 DEF Supers

\* A read only file system has nobody in it, and its disk is left alone.
LEMMA RonKept ==
  ASSUME RonInv, UNCHANGED <<power, ron>>, ron => disk' = disk
  PROVE  RonInv'
  BY DEF RonInv

LEMMA WriteOInv ==
  ASSUME OInv, NEW p \in Procs, Write(p)
  PROVE  OInv'
  <1> USE DEF OInv
  <1>0. sup \in Supers
    BY TypeNow
  <1>1. ASSUME NEW f \in Files, iwrite(p, f) PROVE OInv'
    <2>1. sup' = sup /\ UNCHANGED <<power, ron, disk>>
      BY <1>1 DEF iwrite, mount
    <2>2. TypeOK'
      BY <1>0, <1>1, <2>1, iwriteType, TypeNext
    <2> QED
      BY <1>1, <2>1, <2>2, iwriteFInv, iwriteLocalInv, iwriteStore, RonKept
  <1>2. CASE balloc(p)
    <2>1. sup' = sup /\ UNCHANGED <<power, ron, disk>>
      BY <1>2 DEF balloc, mount, history
    <2>2. TypeOK'
      BY <1>0, <1>2, <2>1, ballocType, TypeNext
    <2> QED
      BY <1>2, <2>1, <2>2, ballocFInv, ballocLocalInv, ballocStore, RonKept
  <1>3. CASE take(p)
    <2>1. UNCHANGED <<power, ron, disk>>
      BY <1>3 DEF take, mount, history
    <2>2. TypeOK'
      BY <1>3, takeSuper, takeType, TypeNext
    <2> QED
      BY <1>3, <2>1, <2>2, takeFInv, takeLocalInv, takeStore, RonKept
  <1>4. CASE refill(p)
    <2>1. UNCHANGED <<power, ron, disk>>
      BY <1>4 DEF refill, mount, history
    <2>2. TypeOK'
      BY <1>4, refillSuper, refillType, TypeNext
    <2> QED
      BY <1>4, <2>1, <2>2, refillFInv, refillLocalInv, refillStore, RonKept
  <1>5. CASE give(p)
    <2>1. sup' = sup /\ UNCHANGED <<power, ron, disk>>
      BY <1>5 DEF give, mount, history
    <2>2. TypeOK'
      BY <1>0, <1>5, <2>1, giveType, TypeNext
    <2> QED
      BY <1>5, <2>1, <2>2, giveFInv, giveLocalInv, giveStore, RonKept
  <1> QED
    BY <1>1, <1>2, <1>3, <1>4, <1>5 DEF Write

LEMMA TruncateOInv ==
  ASSUME OInv, NEW p \in Procs, Truncate(p)
  PROVE  OInv'
  <1> USE DEF OInv
  <1>0. sup \in Supers
    BY TypeNow
  <1>1. ASSUME NEW f \in Files, ucreat(p, f) PROVE OInv'
    <2>1. sup' = sup /\ UNCHANGED <<power, ron, disk>>
      BY <1>1 DEF ucreat, mount
    <2>2. TypeOK'
      BY <1>0, <1>1, <2>1, ucreatType, TypeNext
    <2> QED
      BY <1>1, <2>1, <2>2, ucreatFInv, ucreatLocalInv, ucreatStore, RonKept
  <1>2. CASE bfree(p)
    <2>1. sup' = sup /\ UNCHANGED <<power, ron, disk>>
      BY <1>2 DEF bfree, mount, history
    <2>2. TypeOK'
      BY <1>0, <1>2, <2>1, bfreeType, TypeNext
    <2> QED
      BY <1>2, <2>1, <2>2, bfreeFInv, bfreeLocalInv, bfreeStore, RonKept
  <1>3. CASE chain(p)
    <2>1. UNCHANGED <<power, ron, disk>>
      BY <1>3 DEF chain, mount, history
    <2>2. sup' \in Supers
      BY <1>0, <1>3, EmptyList DEF chain, Supers
    <2>3. TypeOK'
      BY <1>3, <2>2, chainType, TypeNext
    <2> QED
      BY <1>3, <2>1, <2>3, chainFInv, chainLocalInv, chainStore, RonKept
  <1>4. CASE put(p)
    <2>1. UNCHANGED <<power, ron, disk>>
      BY <1>4 DEF put, mount, history
    <2>2. TypeOK'
      BY <1>4, putSuper, putType, TypeNext
    <2> QED
      BY <1>4, <2>1, <2>2, putFInv, putLocalInv, putStore, RonKept
  <1>5. CASE freed(p)
    <2>1. sup' = sup /\ UNCHANGED <<power, ron, disk>>
      BY <1>5 DEF freed, mount, history
    <2>2. TypeOK'
      BY <1>0, <1>5, <2>1, freedType, TypeNext
    <2> QED
      BY <1>5, <2>1, <2>2, freedFInv, freedLocalInv, freedStore, RonKept
  <1> QED
    BY <1>1, <1>2, <1>3, <1>4, <1>5 DEF Truncate

LEMMA SuperOInv ==
  ASSUME OInv, NEW p \in Procs, Super(p)
  PROVE  OInv'
  <1> USE DEF OInv
  <1>0. sup \in Supers
    BY TypeNow
  <1>1. smod(p) \/ superwrite(p) \/ superio(p)
    BY DEF Super
  <1>2. LocalInv' /\ StoreInv'
    BY <1>1, SmodLocalInv, SmodStore
  <1>3. FInv' /\ CallType' /\ RestType'
    BY <1>1, smodFInv, superwriteFInv, superioFInv, smodType, superwriteType,
       superioType
  <1>4. sup' \in Supers
    BY <1>0, <1>1 DEF smod, superwrite, superio, Supers
  <1>5. UNCHANGED <<power, ron>> /\ pc[p] # "user"
    BY <1>1 DEF smod, superwrite, superio, mount, history, Running
  <1>6. ~ron
    BY <1>5, BusyUp
  <1>7. RonInv'
    BY <1>5, <1>6, RonKept
  <1> QED
    BY <1>2, <1>3, <1>4, <1>7, TypeNext


-----------------------------------------------------------------------------
(* sync, the cache, a crash, mount and check.                              *)

LEMMA EmptyAddrs == <<>> \in Addrs
  <1>1. <<>> \in Seq(Blocks) /\ Len(<<>>) = 0 /\ 0 <= ND
    BY EmptySeq, FilsysAssumption
  <1> QED
    BY <1>1, AddrIsSeq

LEMMA NoCur == <<NoFile, <<>>>> \in (Files \union {NoFile}) \X Addrs
  <1>1. PICK e : e = <<>> /\ e \in Addrs
    BY EmptyAddrs
  <1>2. <<NoFile, e>> \in (Files \union {NoFile}) \X Addrs
    BY <1>1
  <1> QED
    BY <1>1, <1>2

LEMMA FreshDisk ==
  /\ Fresh \in Disks /\ Consistent(Fresh) /\ ~Fresh.sup.dirty
  /\ Fresh.sup \in Supers /\ Fresh.ino \in [Files -> Addrs] /\ Fresh.blk \in [Blocks -> Contents]
  <1>1. PICK ino, blk : ino = [f \in Files |-> <<>>] /\ blk = [b \in Blocks |-> <<DATA>>]
    OBVIOUS
  <1>2. <<>> \in Addrs
    BY EmptyAddrs
  <1>3. ino \in [Files -> Addrs] /\ blk \in [Blocks -> Contents]
    BY <1>1, <1>2 DEF Contents
  <1>4. /\ \A f \in Files : IsInjective(ino[f])
        /\ \A f, g \in Files : f # g => Range(ino[f]) \intersect Range(ino[g]) = {}
    BY <1>1 DEF IsInjective, Range
  <1>5. PICK d : d = Made(ino, blk)
    OBVIOUS
  <1>6. d \in Disks /\ Consistent(d) /\ ~d.sup.dirty
    BY <1>3, <1>4, <1>5, MadeConsistent
  <1>7. d = Fresh
    BY <1>1, <1>5 DEF Fresh
  <1> QED
    BY <1>6, <1>7 DEF Disks

\* What is read from a consistent disk is in order.
LEMMA ConsistentStack ==
  ASSUME NEW d \in Disks, Consistent(d)
  PROVE  \E t, B : /\ Stack(t, B, d.sup.free, d.blk) /\ Partition(t, d.ino)
                   /\ d.sup.tfree = Len(t) + 0
  <1>1. d.sup.free \in Lists /\ d.blk \in [Blocks -> Contents] /\ d.sup.tfree \in Nat
    BY FilsysAssumption DEF Disks, Supers
  <1>2. PICK list, blk : list = d.sup.free /\ blk = d.blk
    OBVIOUS
  <1>3. PICK s : s = Chain(list, blk)
    OBVIOUS
  <1>4. Partition(s, d.ino) /\ d.sup.tfree = Len(s)
    BY <1>2, <1>3 DEF Consistent
  <1>5. Range(s) \subseteq Blocks /\ IsInjective(s)
    BY <1>4 DEF Partition
  <1>6. s \in Seq(Blocks) /\ \E B : Stack(Reverse(s), B, list, blk)
    BY <1>1, <1>2, <1>3, <1>5, StackOfChain
  <1>7. PICK B : Stack(Reverse(s), B, list, blk)
    BY <1>6
  <1>8. PICK t : t = Reverse(s)
    OBVIOUS
  <1>9. Partition(t, d.ino)
    BY <1>4, <1>6, <1>8, PartitionReverse
  <1>10. Len(t) = Len(s) /\ Len(s) \in Nat
    BY <1>6, <1>8, ReverseSeq
  <1>11. d.sup.tfree = Len(t) + 0 /\ Stack(t, B, d.sup.free, d.blk)
    BY <1>2, <1>4, <1>7, <1>8, <1>10
  <1> QED
    BY <1>9, <1>11

LEMMA MountStore ==
  ASSUME disk \in Disks, Consistent(disk), sup' = disk.sup, mem' = disk.ino,
         cblk' = disk.blk, \A p \in Procs : pc'[p] = "user", \A f \in Files : ilock'[f] = Free
  PROVE  StoreInv'
  <1>1. PICK t, B : /\ Stack(t, B, disk.sup.free, disk.blk) /\ Partition(t, disk.ino)
                    /\ disk.sup.tfree = Len(t) + 0
    BY ConsistentStack
  <1>2. \A f \in Files : Held(f)' = disk.ino[f]
    BY DEF Held
  <1>3. PICK l : l = disk.sup.free
    OBVIOUS
  <1>4. ListIs(l)' /\ Unread' = 0
    BY <1>3 DEF ListIs, Unread
  <1>5. Stack(t, B, l, cblk') /\ sup'.tfree = Len(t) + Unread'
    BY <1>1, <1>3, <1>4
  <1> QED
    BY <1>1, <1>2, <1>4, <1>5, StoreNext

\* Nobody is in a call.
LEMMA IdleLocal ==
  ASSUME \A p \in Procs : pc'[p] = "user" /\ bl'[p] = NoBlock /\ n'[p] = 0,
         \A f \in Files : ilock'[f] = Free
  PROVE  LocalInv'
  <1>1. \A p \in Procs : At(p)' = "user"
    BY DEF At
  <1> QED
    BY <1>1 DEF LocalInv, CallInv, WriteInv, TruncInv, ListInv, Writing,
       Truncating

LEMMA IdleFree ==
  ASSUME FInv, LocalInv, CallType, power # "up" \/ ron
  PROVE  /\ \A p \in Procs : pc[p] = "user" /\ bl[p] = NoBlock /\ n[p] = 0
         /\ \A f \in Files : ilock[f] = Free
  <1>1. \A p \in Procs : pc[p] = "user"
    BY DEF FInv, IdleInv
  <1> QED
    BY <1>1 DEF LocalInv, CallInv, CallType

LEMMA InitOInv == Init => OInv
  <1> SUFFICES ASSUME Init PROVE OInv
    OBVIOUS
  <1>0. /\ disk \in Disks /\ Consistent(disk) /\ disk.sup \in Supers
        /\ disk.ino \in [Files -> Addrs] /\ disk.blk \in [Blocks -> Contents]
    BY FreshDisk DEF Init
  <1>1. PICK e : e = <<NoFile, <<>>>> /\ e \in (Files \union {NoFile}) \X Addrs
    BY NoCur
  <1>2. TypeOK
    <2>1. scur = e /\ 0 \in 0 .. ND
      BY <1>1, FilsysAssumption DEF Init
    <2>2. /\ n \in [Procs -> 0 .. ND] /\ scur \in (Files \union {NoFile}) \X Addrs
          /\ calls \in 0 .. MaxCalls /\ syncs \in 0 .. MaxSyncs /\ crashes \in 0 .. MaxCrash
      BY <1>1, <2>1, FilsysAssumption DEF Init
    <2>3. /\ sup \in Supers /\ scopy \in Supers /\ mem \in [Files -> Addrs]
          /\ cino \in [Files -> Addrs] /\ cblk \in [Blocks -> Contents]
          /\ disk \in [sup : Supers, ino : [Files -> Addrs], blk : [Blocks -> Contents]]
      BY <1>0 DEF Init, Disks
    <2> QED
      BY <2>2, <2>3 DEF Init, TypeOK
  <1>3. LocalInv
    <2>1. \A p \in Procs : pc[p] = "user" /\ bl[p] = NoBlock /\ n[p] = 0
      BY DEF Init
    <2>2. \A p \in Procs : At(p) = "user"
      BY <2>1 DEF At
    <2>3. \A f \in Files : ilock[f] = Free
      BY DEF Init
    <2> QED
      BY <2>1, <2>2, <2>3 DEF LocalInv, CallInv, WriteInv, TruncInv, ListInv,
         Writing, Truncating
  <1>4. StoreInv
    <2>1. PICK t, B : /\ Stack(t, B, disk.sup.free, disk.blk) /\ Partition(t, disk.ino)
                      /\ disk.sup.tfree = Len(t) + 0
      BY <1>0, ConsistentStack
    <2>2. PICK h, l : h = [f \in Files |-> Held(f)] /\ l = sup.free
      OBVIOUS
    <2>3. \A f \in Files : h[f] = disk.ino[f]
      BY <2>2 DEF Held, Init
    <2>4. Partition(t, h)
      BY <2>1, <2>3, PartitionSame
    <2>5. ListIs(l) /\ Unread = 0
      BY <2>2 DEF ListIs, Unread, Init
    <2>6. Stack(t, B, l, cblk) /\ sup.tfree = Len(t) + Unread
      BY <2>1, <2>2, <2>5 DEF Init
    <2> QED
      BY <2>2, <2>4, <2>5, <2>6 DEF StoreInv
  <1>5. RonInv
    BY DEF RonInv, Init
  <1> QED
    BY <1>2, <1>3, <1>4, <1>5, InitFInv DEF OInv

LEMMA CrashOInv ==
  ASSUME OInv, Crash
  PROVE  OInv'
  <1>0. RestType
    BY TypeNow DEF OInv
  <1>1. PICK e : e = <<NoFile, <<>>>> /\ e \in (Files \union {NoFile}) \X Addrs
    BY NoCur
  <1>2. CallType'
    <2>1. 0 \in 0 .. ND
      BY FilsysAssumption
    <2> QED
      BY <2>1, FreshDisk, CallTypeNext DEF Crash
  <1>3. RestType'
    <2>1. scur' \in (Files \union {NoFile}) \X Addrs
      <3>1. scur' = e
        BY <1>1 DEF Crash
      <3> QED
        BY <1>1, <3>1
    <2>2. crashes' \in 0 .. MaxCrash
      BY <1>0, FilsysAssumption DEF RestType, Crash
    <2>3. /\ scopy' \in Supers /\ cino' \in [Files -> Addrs] /\ cblk' \in [Blocks -> Contents]
      BY FreshDisk DEF Crash
    <2> QED
      BY <1>0, <2>1, <2>2, <2>3 DEF RestType, Crash
  <1>4. TypeOK'
    BY <1>2, <1>3, FreshDisk, TypeNext DEF Crash
  <1>5. LocalInv'
    BY IdleLocal DEF Crash
  <1>6. StoreInv' /\ RonInv'
    BY DEF Crash, StoreInv, RonInv
  <1> QED
    BY <1>4, <1>5, <1>6, CrashFInv DEF OInv

LEMMA fsmountOInv ==
  ASSUME OInv, fsmount
  PROVE  OInv'
  <1>0. RestType /\ CallType /\ disk \in Disks
    BY TypeNow DEF OInv, RestType
  <1>1. /\ \A p \in Procs : pc[p] = "user" /\ bl[p] = NoBlock /\ n[p] = 0
        /\ \A f \in Files : ilock[f] = Free
    BY <1>0, IdleFree DEF OInv, fsmount
  <1>2. UNCHANGED <<pc, fl, bl, n, cont, ilock, disk>>
    BY DEF fsmount, Calls
  <1>3. raced' \in BOOLEAN
    BY Zenon DEF fsmount
  <1>4. /\ disk.sup \in Supers /\ disk.ino \in [Files -> Addrs]
        /\ disk.blk \in [Blocks -> Contents] /\ disk.sup.dirty \in BOOLEAN
    BY <1>0 DEF Disks, Supers
  <1>5. CallType'
    BY <1>0, <1>2, <1>4, CallTypeNext DEF CallType, fsmount
  <1>6. ron' = disk.sup.dirty /\ power' \in {"up", "damaged"}
    BY DEF fsmount
  <1>7. RestType'
    BY <1>0, <1>2, <1>3, <1>4, <1>6 DEF RestType, fsmount, superbuf, syncvars
  <1>8. TypeOK'
    BY <1>4, <1>5, <1>7, TypeNext DEF fsmount
  <1>9. LocalInv'
    BY <1>1, <1>2, IdleLocal
  <1>10. StoreInv'
    <2>1. CASE power' = "up" /\ ~ron'
      <3>1. Consistent(disk)
        <4>1. ~raced'
          BY <2>1 DEF fsmount
        <4> QED
          BY <1>6, <2>1, <4>1 DEF fsmount
      <3> QED
        BY <1>0, <1>1, <1>2, <3>1, MountStore DEF fsmount
    <2>2. CASE ~(power' = "up" /\ ~ron')
      BY <2>2 DEF StoreInv
    <2> QED
      BY <2>1, <2>2
  <1>11. RonInv'
    BY <1>2, <1>6 DEF RonInv
  <1> QED
    BY <1>8, <1>9, <1>10, <1>11, fsmountFInv DEF OInv

LEMMA fsremountOInv ==
  ASSUME OInv, fsremount
  PROVE  OInv'
  <1>0. RestType /\ CallType /\ disk \in Disks
    BY TypeNow DEF OInv, RestType
  <1>1. /\ \A p \in Procs : pc[p] = "user" /\ bl[p] = NoBlock /\ n[p] = 0
        /\ \A f \in Files : ilock[f] = Free
    BY <1>0, IdleFree DEF OInv, fsremount
  <1>2. UNCHANGED <<pc, fl, bl, n, cont, ilock, disk>>
    BY DEF fsremount, Calls
  <1>3. /\ disk.sup \in Supers /\ disk.ino \in [Files -> Addrs]
        /\ disk.blk \in [Blocks -> Contents]
    BY <1>0 DEF Disks
  <1>4. CallType'
    <2>1. mem' \in [Files -> Addrs]
      BY <1>0, <1>3 DEF CallType, fsremount
    <2>2. sup' = disk.sup
      BY DEF fsremount
    <2> QED
      BY <1>0, <1>2, <1>3, <2>1, <2>2, CallTypeNext DEF CallType, fsremount
  <1>5. RestType'
    <2>1. /\ fmod' \in BOOLEAN /\ ron' \in BOOLEAN /\ imod' \in SUBSET Files
          /\ cino' \in [Files -> Addrs] /\ cblk' \in [Blocks -> Contents]
      BY <1>0, <1>3 DEF fsremount, RestType
    <2>2. /\ UNCHANGED <<root, flock, sgate, scopy, disk, cpu, spc, stodo, scur>>
          /\ UNCHANGED <<calls, syncs, crashes, raced>>
          /\ power' \in {"up", "damaged"}
      BY DEF fsremount, superbuf, syncvars
    <2> QED
      BY <1>0, <2>1, <2>2 DEF RestType
  <1>6. TypeOK'
    BY <1>3, <1>4, <1>5, TypeNext DEF fsremount
  <1>7. LocalInv'
    BY <1>1, <1>2, IdleLocal
  <1>8. Consistent(disk)
    BY DEF fsremount, SyncAt, OInv, RonInv
  <1>9. StoreInv'
    <2>1. CASE power' = "up"
      <3>1. mem' = disk.ino /\ sup' = disk.sup /\ cblk' = disk.blk
        <4>1. PICK unused \in SUBSET Files :
                /\ mem' = [f \in Files |-> IF f \in unused THEN mem[f]
                                          ELSE disk.ino[f]]
                /\ \A f \in unused : mem[f] = disk.ino[f]
          BY <2>1 DEF fsremount
        <4>2. \A f \in Files : mem'[f] = disk.ino[f]
          BY <4>1
        <4> QED
          BY <1>3, <4>1, <4>2 DEF fsremount
      <3> QED
        BY <1>0, <1>1, <1>2, <1>8, <3>1, MountStore
    <2>2. CASE power' # "up"
      BY <2>2 DEF StoreInv
    <2> QED
      BY <2>1, <2>2
  <1>10. RonInv'
    BY DEF RonInv, fsremount
  <1> QED
    BY <1>6, <1>7, <1>9, <1>10, fsremountFInv DEF OInv


\* check leaves a consistent disk, marked clean, whatever it found.
LEMMA RepairedConsistent ==
  ASSUME NEW d \in Disks, NEW kept \in SUBSET Files, \A f, g \in kept : ~Dup(d.ino, f, g)
  PROVE  /\ Repaired(d, kept) \in Disks /\ Consistent(Repaired(d, kept))
         /\ ~Repaired(d, kept).sup.dirty
  <1>0. d.sup \in Supers /\ d.ino \in [Files -> Addrs] /\ d.blk \in [Blocks -> Contents]
    BY DEF Disks
  <1>1. CASE Consistent(d)
    <2>1. PICK e : e = [d EXCEPT !.sup.dirty = FALSE]
      OBVIOUS
    <2>2. e = Repaired(d, kept)
      BY <1>1, <2>1 DEF Repaired
    <2>3. e \in Disks
      BY <2>1 DEF Disks, Supers
    <2>4. /\ e.ino = d.ino /\ e.blk = d.blk /\ e.sup.free = d.sup.free
          /\ e.sup.tfree = d.sup.tfree /\ e.sup.dirty = FALSE
      BY <2>1 DEF Disks, Supers
    <2>5. Consistent(e)
      BY <1>1, <2>4 DEF Consistent
    <2> QED
      BY <2>2, <2>3, <2>4, <2>5
  <1>2. CASE ~Consistent(d)
    <2>1. PICK ino : ino = [f \in Files |-> IF f \in kept THEN d.ino[f] ELSE <<>>]
      OBVIOUS
    <2>2. ino \in [Files -> Addrs]
      BY <1>0, <2>1, EmptyAddrs
    <2>3. \A f \in Files : IsInjective(ino[f])
      <3> SUFFICES ASSUME NEW f \in Files PROVE IsInjective(ino[f])
        OBVIOUS
      <3>1. CASE f \in kept
        <4>1. ino[f] = d.ino[f] /\ ~Dup(d.ino, f, f)
          BY <2>1, <3>1
        <4> QED
          BY <4>1 DEF Dup
      <3>2. CASE f \notin kept
        <4>1. ino[f] = <<>>
          BY <2>1, <3>2
        <4> QED
          BY <4>1 DEF IsInjective
      <3> QED
        BY <3>1, <3>2
    <2>4. \A f, g \in Files : f # g => Range(ino[f]) \intersect Range(ino[g]) = {}
      <3> SUFFICES ASSUME NEW f \in Files, NEW g \in Files, f # g
                   PROVE  Range(ino[f]) \intersect Range(ino[g]) = {}
        OBVIOUS
      <3>1. CASE f \in kept /\ g \in kept
        <4>1. ino[f] = d.ino[f] /\ ino[g] = d.ino[g] /\ ~Dup(d.ino, f, g)
          BY <2>1, <3>1
        <4> QED
          BY <4>1 DEF Dup
      <3>2. CASE f \notin kept \/ g \notin kept
        <4>1. ino[f] = <<>> \/ ino[g] = <<>>
          BY <2>1, <3>2
        <4>2. Range(<<>>) = {}
          BY DEF Range
        <4> QED
          BY <4>1, <4>2
      <3> QED
        BY <3>1, <3>2
    <2>5. PICK e : e = Made(ino, d.blk)
      OBVIOUS
    <2>6. e \in Disks /\ Consistent(e) /\ ~e.sup.dirty
      BY <1>0, <2>2, <2>3, <2>4, <2>5, MadeConsistent
    <2>7. e = Repaired(d, kept)
      BY <1>2, <2>1, <2>5 DEF Repaired
    <2> QED
      BY <2>6, <2>7
  <1> QED
    BY <1>1, <1>2

\* A step that changes neither the calls nor the list.
LEMMA QuietOInv ==
  ASSUME OInv, FInv', RestType', sup' \in Supers,
         UNCHANGED <<pc, cont, fl, bl, n, mem, ilock, cblk, power, ron>>,
         sup'.free = sup.free, sup'.tfree = sup.tfree,
         cpu' = cpu \/ cpu \notin Procs, ron => disk' = disk
  PROVE  OInv'
  <1>0. CallType
    BY TypeNow DEF OInv
  <1>1. CallType'
    BY <1>0, CallTypeNext DEF CallType
  <1>2. LocalInv'
    <2>1. \A p \in Procs : At(p)' = At(p)
      BY DEF At
    <2>2. CallInv'
      BY DEF OInv, LocalInv, CallInv
    <2>3. WriteInv' /\ TruncInv'
      BY <2>1 DEF OInv, LocalInv, WriteInv, TruncInv
    <2>4. \A p \in Procs : pc[p] = "put" => cpu' = p
      BY DEF OInv, LocalInv, ListInv
    <2>5. ListInv'
      BY <2>1, <2>4 DEF OInv, LocalInv, ListInv
    <2> QED
      BY <2>2, <2>3, <2>5 DEF LocalInv
  <1>3. StoreInv'
    <2>1. \A f \in Files : Held(f)' = Held(f)
      BY DEF Held
    <2>2. \A l : ListIs(l) => ListIs(l)'
      BY DEF ListIs
    <2>3. Unread' = Unread
      BY DEF Unread
    <2> QED
      BY <2>1, <2>2, <2>3, KeepStore DEF OInv
  <1>4. RonInv'
    BY RonKept DEF OInv
  <1> QED
    BY <1>1, <1>2, <1>3, <1>4, TypeNext DEF OInv

LEMMA checkOInv ==
  ASSUME OInv, check
  PROVE  OInv'
  <1>0. RestType /\ CallType /\ disk \in Disks /\ sup \in Supers
    BY TypeNow DEF OInv, RestType
  <1>1. PICK kept \in SUBSET Files : /\ \A f, g \in kept : ~Dup(disk.ino, f, g)
                                     /\ disk' = Repaired(disk, kept)
    BY DEF check
  <1>2. disk' \in Disks /\ Consistent(disk') /\ ~disk'.sup.dirty
    BY <1>0, <1>1, RepairedConsistent
  <1>3. /\ power # "up" \/ ron
        /\ power' # "up" \/ ron'
        /\ power' \in {"up", "down", "damaged"}
    BY <1>0 DEF check, mount, RestType
  <1>4. UNCHANGED <<sup, pc, cont, fl, bl, n, mem, ilock, cblk>>
    BY DEF check, Calls, invars, cache
  <1>5. CallType'
    BY <1>0, <1>4, CallTypeNext DEF CallType
  <1>6. RestType'
    BY <1>0, <1>2, <1>3 DEF RestType, check, mount, superbuf, invars, cache,
       Calls, syncvars
  <1>7. TypeOK'
    BY <1>0, <1>4, <1>5, <1>6, TypeNext
  <1>8. LocalInv'
    BY <1>0, <1>3, <1>4, IdleFree, IdleLocal DEF OInv
  <1>9. StoreInv'
    BY <1>3 DEF StoreInv
  <1>10. RonInv'
    BY <1>2 DEF RonInv
  <1> QED
    BY <1>7, <1>8, <1>9, <1>10, checkFInv DEF OInv

LEMMA WrittenDisk ==
  ASSUME RestType, NEW x \in Files \union Blocks, Written(x)
  PROVE  disk' \in Disks
  <1>1. CASE x \in Files
    <2>1. disk' = [disk EXCEPT !.ino[x] = cino[x]] /\ cino[x] \in Addrs
      BY <1>1 DEF Written, RestType
    <2> QED
      BY <2>1 DEF RestType, Disks
  <1>2. CASE x \notin Files
    <2>1. disk' = [disk EXCEPT !.blk[x] = cblk[x]] /\ cblk[x] \in Contents
      BY <1>2 DEF Written, RestType
    <2> QED
      BY <2>1 DEF RestType, Disks
  <1> QED
    BY <1>1, <1>2

LEMMA StageType ==
  ASSUME RestType, NEW l \in {"isync", "bsync", "mssync", "user"}, Stage(l)
  PROVE  /\ spc' \in {"user", "isync", "bsync", "mssync"}
         /\ stodo' \in SUBSET (Files \union Blocks)
         /\ cpu' \in Procs \union {NoProc, Syncer}
  <1>1. Visits[l] \in SUBSET (Files \union Blocks)
    BY DEF Visits, Modified
  <1> QED
    BY <1>1 DEF Stage

LEMMA SyncOInv ==
  ASSUME OInv, Sync
  PROVE  OInv'
  <1> USE DEF Calls, mount, superbuf, invars, cache, history
  <1>0. RestType /\ sup \in Supers /\ FInv'
    BY TypeNow, SyncFInv DEF OInv
  <1>1. cpu \notin Procs /\ ~ron
    <2>1. cpu \in {NoProc, Syncer}
      BY DEF Sync, syncBegin, isync, icopymd, bsync, syncNext, mssync,
         mssyncClaim,
         mssyncDone, SyncAt
    <2>2. ron => spc = "user"
      BY DEF OInv, FInv, IdleInv
    <2>3. ~ron
      BY <2>2 DEF Sync, syncBegin, isync, icopymd, bsync, syncNext, mssync,
         mssyncClaim,
         mssyncDone, SyncAt
    <2> QED
      BY <2>1, <2>3, FilsysAssumption
  <1>2. CASE syncBegin
    <2>1. Stage("isync") /\ sup' = sup
      BY <1>2 DEF syncBegin, usync
    <2>2. raced' \in BOOLEAN
      BY <1>0, <1>2, Zenon DEF RestType, syncBegin
    <2>3. RestType'
      BY <1>0, <1>2, <2>1, <2>2, StageType, FilsysAssumption DEF RestType,
         syncBegin
    <2> QED
      BY <1>0, <1>1, <1>2, <2>1, <2>3, QuietOInv DEF syncBegin
  <1>3. ASSUME NEW f \in Files, isync(f) PROVE OInv'
    <2>1. scur' \in (Files \union {NoFile}) \X Addrs
      <3>1. mem[f] \in Addrs
        BY DEF OInv, TypeOK
      <3>2. <<f, mem[f]>> \in (Files \union {NoFile}) \X Addrs
        BY <3>1
      <3> QED
        BY <1>0, <1>3, <3>2 DEF isync, RestType
    <2>2. RestType'
      BY <1>0, <1>3, <2>1 DEF RestType, isync
    <2>3. sup' = sup
      BY <1>3 DEF isync
    <2> QED
      BY <1>0, <1>1, <1>3, <2>2, <2>3, QuietOInv DEF isync
  <1>4. CASE icopymd
    <2>1. scur' \in (Files \union {NoFile}) \X Addrs
      BY <1>4, NoCur DEF icopymd
    <2>2. cino' \in [Files -> Addrs]
      <3>1. scur[2] \in Addrs
        BY <1>0 DEF RestType
      <3> QED
        BY <1>0, <1>4, <3>1 DEF RestType, icopymd
    <2>3. RestType'
      BY <1>0, <1>4, <2>1, <2>2 DEF RestType, icopymd
    <2>4. sup' = sup
      BY <1>4 DEF icopymd
    <2> QED
      BY <1>0, <1>1, <1>4, <2>3, <2>4, QuietOInv DEF icopymd
  <1>5. ASSUME NEW x \in Files \union Blocks, bsync(x) PROVE OInv'
    <2>1. disk' \in Disks
      BY <1>0, <1>5, WrittenDisk DEF bsync
    <2>2. RestType'
      BY <1>0, <1>5, <2>1 DEF RestType, bsync
    <2>3. sup' = sup
      BY <1>5 DEF bsync
    <2> QED
      BY <1>0, <1>1, <1>5, <2>2, <2>3, QuietOInv DEF bsync
  <1>6. CASE syncNext
    <2>1. PICK l \in {"bsync", "mssync"} : Stage(l)
      BY <1>6 DEF syncNext, usync
    <2>2. RestType'
      BY <1>0, <1>6, <2>1, StageType DEF RestType, syncNext
    <2>3. sup' = sup
      BY <1>6 DEF syncNext
    <2> QED
      BY <1>0, <1>1, <1>6, <2>2, <2>3, QuietOInv DEF syncNext
  <1>7. CASE mssync
    <2>1. /\ spc' \in {"user", "isync", "bsync", "mssync", "mssyncgate"}
          /\ stodo' \in SUBSET (Files \union Blocks)
          /\ cpu' \in Procs \union {NoProc, Syncer}
      <3>1. CASE fmod \/ root
        BY <1>0, <1>7, <3>1 DEF mssync, RestType
      <3>2. CASE ~(fmod \/ root)
        <4>1. Stage("user")
          BY <1>7, <3>2 DEF mssync, usync
        <4> QED
          BY <1>0, <4>1, StageType
      <3> QED
        BY <3>1, <3>2
    <2>2. RestType'
      BY <1>0, <1>7, <2>1 DEF RestType, mssync
    <2>3. sup' = sup
      BY <1>7 DEF mssync
    <2> QED
      BY <1>0, <1>1, <1>7, <2>2, <2>3, QuietOInv DEF mssync
  <1>8. CASE mssyncClaim
    <2>1. sup' \in Supers /\ sup'.free = sup.free /\ sup'.tfree = sup.tfree
      BY <1>0, <1>8 DEF mssyncClaim, Supers
    <2>2. RestType'
      BY <1>0, <1>8, <2>1 DEF RestType, mssyncClaim
    <2> QED
      BY <1>0, <1>1, <1>8, <2>1, <2>2, QuietOInv DEF mssyncClaim
  <1>9. CASE mssyncDone
    <2>1. disk' \in Disks /\ Stage("user") /\ sup' = sup
      BY <1>0, <1>9 DEF mssyncDone, RestType, Disks, usync
    <2>2. RestType'
      BY <1>0, <1>9, <2>1, StageType DEF RestType, mssyncDone
    <2> QED
      BY <1>0, <1>1, <1>9, <2>1, <2>2, QuietOInv DEF mssyncDone
  <1> QED
    BY <1>2, <1>3, <1>4, <1>5, <1>6, <1>7, <1>8, <1>9 DEF Sync

LEMMA flushOInv ==
  ASSUME OInv, NEW x \in Files \union Blocks, flush(x)
  PROVE  OInv'
  <1>0. RestType /\ sup \in Supers /\ FInv'
    BY TypeNow, flushFInv DEF OInv
  <1>1. disk' \in Disks
    BY <1>0, WrittenDisk DEF flush
  <1>2. RestType'
    BY <1>0, <1>1 DEF RestType, flush, mount, superbuf, invars, cache, Calls,
       history
  <1> QED
    BY <1>0, <1>2, QuietOInv DEF flush, mount, superbuf, invars, cache, Calls,
       history

LEMMA NextOInv == OInv /\ [Next]_vars => OInv'
  <1> SUFFICES ASSUME OInv, [Next]_vars PROVE OInv'
    OBVIOUS
  <1>1. CASE UNCHANGED vars
    <2>1. FInv'
      BY <1>1, NextFInv DEF OInv
    <2>2. RestType'
      BY <1>1, TypeNow DEF OInv, RestType, vars
    <2>3. sup' \in Supers
      BY <1>1, TypeNow DEF OInv, vars
    <2> QED
      BY <1>1, <2>1, <2>2, <2>3, QuietOInv DEF vars
  <1>2. ASSUME NEW p \in Procs, Write(p) \/ Truncate(p) \/ Super(p) PROVE OInv'
    BY <1>2, WriteOInv, TruncateOInv, SuperOInv
  <1>3. CASE Sync \/ Crash \/ fsmount \/ check \/ fsremount
    BY <1>3, SyncOInv, CrashOInv, fsmountOInv, checkOInv, fsremountOInv
  <1>4. ASSUME NEW x \in Files \union Blocks, flush(x) PROVE OInv'
    BY <1>4, flushOInv
  <1>5. CASE rest
    BY <1>1, <1>5 DEF rest
  <1> QED
    BY <1>1, <1>2, <1>3, <1>4, <1>5 DEF Next

(***************************************************************************)
(* Every block is in one place, whatever balloc, bfree, sync and a remount *)
(* after check do between each other's sleeps: once on the list that       *)
(* balloc follows through the chain blocks, or once in one inode, or in    *)
(* the hands of the process that moves it; and s_tfree is exact whenever   *)
(* m_flock is open.                                                        *)
(***************************************************************************)
THEOREM FilsysOneOwner == Spec => []OneOwner
  <1>1. OInv => OneOwner
    <2> SUFFICES ASSUME OInv, Writable
                 PROVE  /\ Partition(Chain(FreeNow, cblk), [f \in Files |-> Held(f)])
                        /\ flock = Free => sup.tfree = Len(Chain(FreeNow, cblk))
      BY DEF OneOwner, OInv
    <2>1. PICK l, t, B : Stored(l, t, B)
      BY StoreNow DEF OInv, Writable
    <2>2. PICK h : h = [f \in Files |-> Held(f)]
      OBVIOUS
    <2>3. ListIs(l) /\ Stack(t, B, l, cblk) /\ Partition(t, h) /\ sup.tfree = Len(t) + Unread
      BY <2>1, <2>2 DEF Stored
    <2>4. l = FreeNow
      <3>1. \A p \in Procs : pc[p] # "put"
        BY FilsysAssumption DEF Writable, OInv, LocalInv, ListInv
      <3>2. CASE \E p \in Procs : pc[p] = "refill"
        <4>1. PICK p : p = CHOOSE q \in Procs : pc[q] = "refill"
          OBVIOUS
        <4>2. p \in Procs /\ pc[p] = "refill"
          BY <3>2, <4>1
        <4>3. l = cblk[bl[p]]
          BY <2>3, <4>2 DEF ListIs
        <4> QED
          BY <3>2, <4>1, <4>3 DEF FreeNow
      <3>3. CASE ~\E p \in Procs : pc[p] = "refill"
        BY <2>3, <3>1, <3>3 DEF ListIs, FreeNow
      <3> QED
        BY <3>2, <3>3
    <2>5. t \in Seq(Blocks) /\ Len(t) \in Nat /\ IsInjective(t)
      BY <2>3, StackTyped DEF Partition
    <2>6. Len(t) <= NBLOCK
      BY <2>5, InjectiveLen
    <2>7. Chain(l, cblk) = Reverse(t)
      BY <2>3, <2>6, ChainOfStack
    <2>8. Partition(Reverse(t), h) /\ Len(Reverse(t)) = Len(t)
      BY <2>3, <2>5, PartitionReverse, ReverseSeq
    <2>9. flock = Free => Unread = 0
      BY FilsysAssumption DEF Unread, OInv, FInv, LockInv, WithFlock
    <2>10. flock = Free => sup.tfree = Len(t)
      BY <2>3, <2>5, <2>9
    <2> QED
      BY <2>2, <2>4, <2>7, <2>8, <2>10
  <1> QED
    BY InitOInv, NextOInv, <1>1, PTL DEF Spec

-----------------------------------------------------------------------------
(* The clean mark.                                                         *)

\* The file system is in use, and no sync has met a call.
Serial == power = "up" /\ ~ron /\ ~raced

SerialInv == spc # "user" => \A p \in Procs : pc[p] = "user"

\* The mark is off the disk before a call has changed an inode: it is off, or
\* the owner of m_flock is writing it.
MarkInv ==
  /\ fmod => sup.dirty
  /\ \A p \in Procs : pc[p] \in {"superwrite", "superio"} => fmod
  /\ \A p \in Procs : pc[p] = "superio" => scopy.dirty
  /\ fmod /\ ~disk.sup.dirty =>
       \E p \in Procs : pc[p] \in {"superwrite", "superio"}
  /\ \A p \in Procs : pc[p] \in {"give", "freed"} => disk.sup.dirty

\* sync will find an inode whose dinode is not up to date.
FoundInv ==
  /\ \A f \in Files : f \notin imod => cino[f] = mem[f]
  /\ \A p \in Procs : At(p) \in Writing => fl[p] \in imod

\* While the mark is on the disk, so is everything else.  Only a block that is
\* being freed may differ: it is a file's on the disk, so its contents do not
\* matter there.
UntouchedInv ==
  ~disk.sup.dirty =>
    /\ disk.ino = mem /\ cino = mem /\ Consistent(disk)
    /\ \A b \in Blocks : (\A f \in Files : b \notin Range(mem[f])) =>
         cblk[b] = disk.blk[b]

\* What the loops of usync have done, and what they have still to do.
StageInv ==
  /\ spc = "isync" => imod \subseteq stodo
  /\ spc = "icopymd" => /\ imod \subseteq stodo \union {scur[1]}
                        /\ scur[1] \in Files /\ scur[2] = mem[scur[1]]
  /\ spc = "bsync" => cino = mem /\ Modified \subseteq stodo
  /\ spc \in {"mssync", "mssyncgate", "mssyncio"} =>
       cino = mem /\ disk.ino = mem /\ disk.blk = cblk
  /\ spc = "mssyncio" => ~fmod /\ scopy = sup /\ ~sup.dirty

CleanInv == SerialInv /\ MarkInv /\ FoundInv /\ UntouchedInv /\ StageInv

\* When the machine is down, the disk is all there is.
DownInv == power # "up" /\ ~raced /\ ~disk.sup.dirty => Consistent(disk)

CInv == DownInv /\ (Serial => CleanInv)

\* A disk is consistent if its list is a stack of the blocks that no file has.
LEMMA StackConsistent ==
  ASSUME NEW d, NEW t, NEW B, Stack(t, B, d.sup.free, d.blk), Partition(t, d.ino),
         d.sup.tfree = Len(t)
  PROVE  Consistent(d)
  <1>1. t \in Seq(Blocks) /\ Len(t) \in Nat /\ IsInjective(t)
    BY StackTyped DEF Partition
  <1>2. Len(t) <= NBLOCK
    BY <1>1, InjectiveLen
  <1>3. PICK s : s = Chain(d.sup.free, d.blk)
    OBVIOUS
  <1>4. s = Reverse(t)
    BY <1>2, <1>3, ChainOfStack
  <1>5. Partition(s, d.ino) /\ Len(s) = Len(t)
    BY <1>1, <1>4, PartitionReverse, ReverseSeq
  <1> QED
    BY <1>3, <1>5 DEF Consistent

\* What the blocks of files hold does not matter.
LEMMA ConsistentFrame ==
  ASSUME NEW d \in Disks, NEW e \in Disks, Consistent(d), e.ino = d.ino,
         e.sup.free = d.sup.free, e.sup.tfree = d.sup.tfree,
         \A b \in Blocks : (\A f \in Files : b \notin Range(d.ino[f])) =>
           e.blk[b] = d.blk[b]
  PROVE  Consistent(e)
  <1>1. PICK t, B : /\ Stack(t, B, d.sup.free, d.blk) /\ Partition(t, d.ino)
                    /\ d.sup.tfree = Len(t) + 0
    BY ConsistentStack
  <1>2. t \in Seq(Blocks) /\ Len(t) \in Nat
    BY <1>1, StackTyped
  <1>3. ASSUME NEW i \in 1 .. Len(t) PROVE e.blk[t[i]] = d.blk[t[i]]
    <2>1. t[i] \in Blocks /\ i \in DOMAIN t
      BY <1>2, ElementOfSeq
    <2>2. t[i] \in Range(t)
      BY <2>1 DEF Range
    <2>3. \A f \in Files : t[i] \notin Range(d.ino[f])
      BY <1>1, <2>2 DEF Partition
    <2> QED
      BY <2>1, <2>3
  <1>4. PICK eb, db, list : eb = e.blk /\ db = d.blk /\ list = d.sup.free
    OBVIOUS
  <1>5. Stack(t, B, list, eb)
    BY <1>1, <1>3, <1>4, StackFrame
  <1>6. Stack(t, B, e.sup.free, e.blk) /\ Partition(t, e.ino) /\ e.sup.tfree = Len(t)
    BY <1>1, <1>2, <1>4, <1>5
  <1> QED
    BY <1>6, StackConsistent

\* When nobody is in a call, what is in core and cache is a consistent disk.
LEMMA CoreConsistent ==
  ASSUME OInv, power = "up", ~ron, \A p \in Procs : pc[p] = "user",
         NEW d, d.sup.free = sup.free, d.sup.tfree = sup.tfree, d.ino = mem, d.blk = cblk
  PROVE  Consistent(d)
  <1>1. PICK l, t, B : Stored(l, t, B)
    BY StoreNow DEF OInv
  <1>2. PICK h : h = [f \in Files |-> Held(f)]
    OBVIOUS
  <1>3. ListIs(l) /\ Stack(t, B, l, cblk) /\ Partition(t, h) /\ sup.tfree = Len(t) + Unread
    BY <1>1, <1>2 DEF Stored
  <1>4. l = sup.free /\ Unread = 0
    BY <1>3 DEF ListIs, Unread
  <1>5. CallType
    BY TypeNow DEF OInv
  <1>6. \A f \in Files : ilock[f] = Free
    BY <1>5 DEF OInv, LocalInv, CallInv, CallType
  <1>7. \A f \in Files : mem[f] = h[f]
    BY <1>2, <1>6 DEF Held
  <1>8. Partition(t, mem)
    BY <1>3, <1>7, PartitionSame
  <1>9. Len(t) \in Nat
    BY <1>3, StackTyped
  <1>10. Stack(t, B, d.sup.free, d.blk) /\ Partition(t, d.ino) /\ d.sup.tfree = Len(t)
    BY <1>3, <1>4, <1>8, <1>9
  <1> QED
    BY <1>10, StackConsistent

\* A process that takes a step of a call keeps away from sync, or has met it.
LEMMA ProcessSerial ==
  ASSUME OInv, CInv, NEW p \in Procs, Write(p) \/ Truncate(p) \/ Super(p), Serial'
  PROVE  Serial /\ CleanInv /\ spc = "user" /\ spc' = "user" /\ power' = "up"
  <1> USE DEF mount, syncvars, history
  <1>1. ASSUME NEW f \in Files, iwrite(p, f)
        PROVE  Serial /\ spc = "user" /\ spc' = "user"
    <2>1. power = "up" /\ ron = ron' /\ spc' = spc /\ ~ron
      BY <1>1 DEF iwrite, Running, Serial
    <2> QED
      BY <1>1, <2>1 DEF iwrite, Serial
  <1>2. ASSUME NEW f \in Files, ucreat(p, f)
        PROVE  Serial /\ spc = "user" /\ spc' = "user"
    BY <1>2 DEF ucreat, Running, Serial
  <1>3. CASE ~\E f \in Files : iwrite(p, f) \/ ucreat(p, f)
    <2>1. power = "up" /\ pc[p] # "user" /\ UNCHANGED <<ron, spc, raced>>
      BY <1>3 DEF Write, Truncate, Super, balloc, take, refill, give, bfree,
         chain,
         put, freed, smod, superwrite, superio, Running
    <2> QED
      BY <2>1 DEF CInv, Serial, CleanInv, SerialInv
  <1> QED
    BY <1>1, <1>2, <1>3 DEF CInv, Serial

\* Most steps of a process leave inodes, cache and disk alone.
LEMMA UntouchedKept ==
  ASSUME UntouchedInv, UNCHANGED <<disk, mem, cino, cblk>>
  PROVE  UntouchedInv'
  BY DEF UntouchedInv

LEMMA FoundKept ==
  ASSUME FoundInv, UNCHANGED <<mem, cino>>, imod \subseteq imod',
         \A q \in Procs : At(q)' \in Writing =>
           fl'[q] \in imod' \/ (At(q) \in Writing /\ fl'[q] = fl[q])
  PROVE  FoundInv'
  BY DEF FoundInv

\* The process p goes from one place to another, and the marks stay.
LEMMA MarkKept ==
  ASSUME MarkInv, NEW p \in Procs, UNCHANGED <<fmod, scopy, disk>>, sup'.dirty = sup.dirty,
         \A q \in Procs \ {p} : pc'[q] = pc[q],
         pc[p] \notin {"superwrite", "superio"},
         pc'[p] \notin {"superwrite", "superio"},
         pc'[p] \in {"give", "freed"} => disk.sup.dirty
  PROVE  MarkInv'
  BY DEF MarkInv

LEMMA SuperClean ==
  ASSUME OInv, CleanInv, NEW p \in Procs, Super(p)
  PROVE  MarkInv' /\ FoundInv' /\ UntouchedInv'
  <1> USE DEF Running, Goto, Yield, mount, superbuf, invars, cache, callvars,
     syncvars,
          history
  <1>0. CallType /\ RestType /\ sup \in Supers
    BY TypeNow DEF OInv
  <1>1. \A q \in Procs : At(q)' = At(q)
    <2> SUFFICES ASSUME NEW q \in Procs PROVE At(q)' = At(q)
      OBVIOUS
    <2> QED
      BY <1>0 DEF Super, smod, superwrite, superio, CallType, At
  <1>2. UNCHANGED <<mem, cino, imod, fl, cblk>>
    BY DEF Super, smod, superwrite, superio
  <1>3. FoundInv'
    BY <1>1, <1>2, FoundKept DEF CleanInv
  <1>4. \A q \in Procs \ {p} : pc[q] \notin {"smod", "superwrite", "superio"} /\ pc'[q] = pc[q]
    <2>1. flock = p
      BY DEF Super, smod, superwrite, superio, OInv, FInv, LockInv, WithFlock
    <2> QED
      BY <1>0, <2>1, FlockAlone DEF OInv, WithFlock, Super, smod, superwrite,
         superio,
         CallType
  <1>5. CASE smod(p)
    <2>1. UntouchedInv'
      BY <1>2, <1>5, UntouchedKept DEF CleanInv, smod
    <2>2. CASE fmod
      <3>1. disk.sup.dirty
        BY <1>4, <1>5, <2>2 DEF CleanInv, MarkInv, smod
      <3>2. pc'[p] \in {"take", "give", "freed"}
        BY <1>0, <1>5, <2>2 DEF smod, CallType
      <3>3. MarkInv'
        BY <1>4, <1>5, <2>2, <3>1, <3>2, MarkKept DEF CleanInv, smod
      <3> QED
        BY <1>3, <2>1, <3>3
    <2>3. CASE ~fmod
      <3>1. pc'[p] = "superwrite" /\ fmod' /\ sup'.dirty
        BY <1>0, <1>5, <2>3 DEF smod, CallType, Supers
      <3>2. UNCHANGED <<scopy, disk>>
        BY <1>5 DEF smod
      <3>3. MarkInv'
        BY <1>4, <3>1, <3>2 DEF CleanInv, MarkInv
      <3> QED
        BY <1>3, <2>1, <3>3
    <2> QED
      BY <2>2, <2>3
  <1>6. CASE superwrite(p)
    <2>1. UntouchedInv'
      BY <1>2, <1>6, UntouchedKept DEF CleanInv, superwrite
    <2>2. pc'[p] = "superio" /\ scopy' = sup /\ UNCHANGED <<fmod, sup, disk>>
      BY <1>0, <1>6 DEF superwrite, CallType
    <2>3. fmod
      BY <1>6 DEF superwrite, CleanInv, MarkInv
    <2>4. MarkInv'
      BY <1>4, <2>2, <2>3 DEF CleanInv, MarkInv
    <2> QED
      BY <1>3, <2>1, <2>4
  <1>7. CASE superio(p)
    <2>1. disk'.sup = scopy /\ UNCHANGED <<fmod, sup, scopy>>
      BY <1>0, <1>7 DEF superio, RestType, Disks
    <2>2. disk'.sup.dirty
      BY <1>7, <2>1 DEF superio, CleanInv, MarkInv
    <2>3. pc'[p] \in {"take", "give", "freed"}
      BY <1>0, <1>7 DEF superio, CallType
    <2>4. MarkInv'
      BY <1>4, <2>1, <2>2, <2>3 DEF CleanInv, MarkInv
    <2>5. UntouchedInv'
      BY <2>2 DEF UntouchedInv
    <2> QED
      BY <1>3, <2>4, <2>5
  <1> QED
    BY <1>5, <1>6, <1>7 DEF Super

\* A step of a call that changes neither an inode nor a block.
LEMMA StepClean ==
  ASSUME CleanInv, NEW p \in Procs, UNCHANGED <<mem, cino, cblk, fmod, scopy, disk>>,
         sup'.dirty = sup.dirty, imod \subseteq imod',
         \A q \in Procs \ {p} : pc'[q] = pc[q] /\ cont'[q] = cont[q] /\ fl'[q] = fl[q],
         pc[p] \notin {"superwrite", "superio"},
         pc'[p] \notin {"superwrite", "superio", "give", "freed"},
         At(p)' \in Writing => fl'[p] \in imod' \/ (At(p) \in Writing /\ fl'[p] = fl[p])
  PROVE  MarkInv' /\ FoundInv' /\ UntouchedInv'
  <1>1. \A q \in Procs \ {p} : At(q)' = At(q)
    BY DEF At
  <1>2. \A q \in Procs : At(q)' \in Writing =>
          fl'[q] \in imod' \/ (At(q) \in Writing /\ fl'[q] = fl[q])
    BY <1>1
  <1>3. FoundInv'
    BY <1>2, FoundKept DEF CleanInv
  <1>4. MarkInv'
    BY MarkKept DEF CleanInv
  <1> QED
    BY <1>3, <1>4, UntouchedKept DEF CleanInv

LEMMA WriteClean ==
  ASSUME OInv, CleanInv, ~ron, NEW p \in Procs, Write(p)
  PROVE  MarkInv' /\ FoundInv' /\ UntouchedInv'
  <1> USE DEF Running, Goto, Yield, mount, superbuf, invars, cache, callvars,
     syncvars,
          history
  <1>0. CallType /\ RestType /\ sup \in Supers
    BY TypeNow DEF OInv
  <1>1. ASSUME NEW f \in Files, iwrite(p, f) PROVE MarkInv' /\ FoundInv' /\ UntouchedInv'
    <2>1. /\ UNCHANGED <<mem, cino, cblk, fmod, scopy, disk, sup, cont>>
          /\ imod \subseteq imod' /\ f \in imod'
      BY <1>1 DEF iwrite
    <2>2. /\ fl'[p] = f /\ pc'[p] = "balloc" /\ pc[p] = "user"
          /\ \A q \in Procs \ {p} : pc'[q] = pc[q] /\ fl'[q] = fl[q]
      BY <1>0, <1>1 DEF iwrite, GotoGate, CallType
    <2> QED
      BY <2>1, <2>2, StepClean
  <1>2. CASE balloc(p)
    <2>1. UNCHANGED <<mem, cino, cblk, fmod, scopy, disk, sup, imod>>
      BY <1>2 DEF balloc
    <2>2. /\ pc[p] = "balloc" /\ At(p) \in Writing
          /\ \A q \in Procs \ {p} : pc'[q] = pc[q] /\ cont'[q] = cont[q] /\ fl'[q] = fl[q]
          /\ pc'[p] = "user" \/ (pc'[p] = "smod" /\ fl'[p] = fl[p])
      BY <1>0, <1>2 DEF balloc, Return, CallSmod, CallType, At, Writing
    <2>3. At(p)' \in Writing => fl'[p] = fl[p]
      BY <2>2 DEF At, Writing
    <2> QED
      BY <2>1, <2>2, <2>3, StepClean
  <1>3. CASE take(p)
    <2>1. UNCHANGED <<mem, cino, cblk, fmod, scopy, disk, imod, fl>> /\ sup'.dirty = sup.dirty
      BY <1>0, <1>3 DEF take, Supers
    <2>2. /\ pc[p] = "take" /\ At(p) \in Writing
          /\ \A q \in Procs \ {p} : pc'[q] = pc[q] /\ cont'[q] = cont[q]
          /\ pc'[p] \in {"refill", "smod"}
      BY <1>0, <1>3 DEF take, CallSmod, CallType, At, Writing
    <2> QED
      BY <2>1, <2>2, StepClean
  <1>4. CASE refill(p)
    <2>1. UNCHANGED <<mem, cino, cblk, fmod, scopy, disk, imod, fl>> /\ sup'.dirty = sup.dirty
      BY <1>0, <1>4 DEF refill, Supers
    <2>2. /\ pc[p] = "refill" /\ At(p) \in Writing
          /\ \A q \in Procs \ {p} : pc'[q] = pc[q] /\ cont'[q] = cont[q]
          /\ pc'[p] = "smod"
      BY <1>0, <1>4 DEF refill, CallSmod, CallType, At, Writing
    <2> QED
      BY <2>1, <2>2, StepClean
  <1>5. CASE give(p)
    <2>1. /\ UNCHANGED <<cino, fmod, scopy, disk, sup, imod>>
          /\ \A f \in Files : f # fl[p] => mem'[f] = mem[f]
      BY <1>0, <1>5 DEF give, CallType
    <2>2. /\ pc[p] = "give" /\ At(p) \in Writing /\ pc'[p] = "user" /\ At(p)' \notin Writing
          /\ \A q \in Procs \ {p} : pc'[q] = pc[q] /\ cont'[q] = cont[q] /\ fl'[q] = fl[q]
      BY <1>0, <1>5 DEF give, Return, CallType, At, Writing
    <2>3. disk'.sup.dirty
      BY <2>1, <2>2 DEF CleanInv, MarkInv
    <2>4. UntouchedInv'
      BY <2>3 DEF UntouchedInv
    <2>5. MarkInv'
      BY <2>1, <2>2, MarkKept DEF CleanInv
    <2>6. fl[p] \in imod
      BY <2>2 DEF CleanInv, FoundInv
    <2>7. \A q \in Procs \ {p} : At(q)' = At(q)
      BY <2>2 DEF At
    <2>8. FoundInv'
      BY <2>1, <2>2, <2>6, <2>7 DEF CleanInv, FoundInv
    <2> QED
      BY <2>4, <2>5, <2>8
  <1> QED
    BY <1>1, <1>2, <1>3, <1>4, <1>5 DEF Write

LEMMA TruncateClean ==
  ASSUME OInv, CleanInv, ~ron, NEW p \in Procs, Truncate(p)
  PROVE  MarkInv' /\ FoundInv' /\ UntouchedInv'
  <1> USE DEF Running, Goto, Yield, mount, superbuf, invars, cache, callvars,
     syncvars,
          history
  <1>0. CallType /\ RestType /\ sup \in Supers
    BY TypeNow DEF OInv
  <1>1. ASSUME NEW f \in Files, ucreat(p, f) PROVE MarkInv' /\ FoundInv' /\ UntouchedInv'
    <2>1. UNCHANGED <<mem, cino, cblk, fmod, scopy, disk, sup, cont, imod>>
      BY <1>1 DEF ucreat
    <2>2. /\ pc'[p] = "bfree" /\ pc[p] = "user" /\ At(p)' \notin Writing
          /\ \A q \in Procs \ {p} : pc'[q] = pc[q] /\ fl'[q] = fl[q]
      BY <1>0, <1>1 DEF ucreat, GotoGate, CallType, At, Writing
    <2> QED
      BY <2>1, <2>2, StepClean
  <1>2. CASE bfree(p)
    <2>1. UNCHANGED <<mem, cino, cblk, fmod, scopy, disk, sup, cont, imod, fl>>
      BY <1>2 DEF bfree
    <2>2. /\ pc'[p] \in {"chain", "put"} /\ pc[p] = "bfree" /\ At(p)' \notin Writing
          /\ \A q \in Procs \ {p} : pc'[q] = pc[q]
      BY <1>0, <1>2 DEF bfree, CallType, At, Writing
    <2> QED
      BY <2>1, <2>2, StepClean
  <1>3. CASE chain(p)
    <2>1. /\ UNCHANGED <<mem, cino, fmod, scopy, disk, imod, fl, cont>>
          /\ sup'.dirty = sup.dirty
      BY <1>0, <1>3 DEF chain, Supers
    <2>2. /\ pc'[p] = "put" /\ pc[p] = "chain" /\ At(p) \notin Writing /\ At(p)' \notin Writing
          /\ \A q \in Procs \ {p} : pc'[q] = pc[q]
      BY <1>0, <1>3 DEF chain, CallType, At, Writing
    <2>3. MarkInv'
      BY <2>1, <2>2, MarkKept DEF CleanInv
    <2>4. \A q \in Procs \ {p} : At(q)' = At(q)
      BY <2>1, <2>2 DEF At
    <2>5. FoundInv'
      BY <2>1, <2>2, <2>4, FoundKept DEF CleanInv
    <2>6. PICK f, b : f = fl[p] /\ b = mem[fl[p]][n[p]]
      OBVIOUS
    <2>7. f \in Files /\ b \in Range(mem[f])
      <3>1. f \in Files
        BY <2>2, <2>6 DEF OInv, LocalInv, CallInv
      <3>2. n[p] \in 1 .. Len(mem[f])
        <4>1. At(p) = "chain"
          BY <2>2 DEF At
        <4>2. n[p] <= Len(mem[fl[p]]) /\ n[p] > 0
          BY <4>1 DEF OInv, LocalInv, TruncInv, Truncating
        <4>3. n[p] \in Nat /\ Len(mem[f]) \in Nat
          BY <1>0, <3>1, FilsysAssumption DEF CallType
        <4> QED
          BY <2>6, <4>2, <4>3
      <3>3. DOMAIN mem[f] = 1 .. Len(mem[f])
        BY <1>0, <3>1, AddrIsSeq, ElementOfSeq DEF CallType
      <3> QED
        BY <2>6, <3>1, <3>2, <3>3 DEF Range
    <2>8. cblk' = [cblk EXCEPT ![b] = sup.free]
      BY <1>3, <2>6 DEF chain
    <2>9. \A c \in Blocks : c # b => cblk'[c] = cblk[c]
      BY <1>0, <2>8 DEF RestType
    <2>10. UntouchedInv'
      BY <2>1, <2>7, <2>9 DEF CleanInv, UntouchedInv
    <2> QED
      BY <2>3, <2>5, <2>10
  <1>4. CASE put(p)
    <2>1. UNCHANGED <<mem, cino, cblk, fmod, scopy, disk, imod, fl>> /\ sup'.dirty = sup.dirty
      BY <1>0, <1>4 DEF put, Supers
    <2>2. /\ pc[p] = "put" /\ pc'[p] = "smod" /\ At(p)' \notin Writing
          /\ \A q \in Procs \ {p} : pc'[q] = pc[q] /\ cont'[q] = cont[q]
      BY <1>0, <1>4 DEF put, CallSmod, CallType, At, Writing
    <2> QED
      BY <2>1, <2>2, StepClean
  <1>5. CASE freed(p)
    <2>1. /\ UNCHANGED <<cino, fmod, scopy, disk, sup>> /\ imod \subseteq imod'
          /\ \A f \in Files : f \notin imod' => mem'[f] = mem[f]
      BY <1>0, <1>5 DEF freed, CallType
    <2>2. /\ pc[p] = "freed" /\ pc'[p] \in {"user", "bfree"} /\ At(p)' \notin Writing
          /\ \A q \in Procs \ {p} : pc'[q] = pc[q] /\ cont'[q] = cont[q] /\ fl'[q] = fl[q]
      BY <1>0, <1>5 DEF freed, Return, CallType, At, Writing
    <2>3. disk'.sup.dirty
      BY <2>1, <2>2 DEF CleanInv, MarkInv
    <2>4. UntouchedInv'
      BY <2>3 DEF UntouchedInv
    <2>5. MarkInv'
      BY <2>1, <2>2, MarkKept DEF CleanInv
    <2>6. \A q \in Procs \ {p} : At(q)' = At(q)
      BY <2>2 DEF At
    <2>7. FoundInv'
      BY <2>1, <2>2, <2>6 DEF CleanInv, FoundInv
    <2> QED
      BY <2>4, <2>5, <2>7
  <1> QED
    BY <1>1, <1>2, <1>3, <1>4, <1>5 DEF Truncate

LEMMA ProcessCInv ==
  ASSUME OInv, CInv, NEW p \in Procs, Write(p) \/ Truncate(p) \/ Super(p)
  PROVE  CInv'
  <1>1. power = "up" /\ power' = "up"
    BY DEF Write, Truncate, Super, iwrite, balloc, take, refill, give, ucreat,
       bfree,
       chain, put, freed, smod, superwrite, superio, Running, history
  <1>2. DownInv'
    BY <1>1 DEF DownInv
  <1>3. ASSUME Serial' PROVE CleanInv'
    <2>1. Serial /\ CleanInv /\ spc = "user" /\ spc' = "user"
      BY <1>3, ProcessSerial
    <2>2. MarkInv' /\ FoundInv' /\ UntouchedInv'
      BY <2>1, SuperClean, WriteClean, TruncateClean DEF Serial
    <2>3. SerialInv' /\ StageInv'
      BY <2>1 DEF SerialInv, StageInv
    <2> QED
      BY <2>2, <2>3 DEF CleanInv
  <1> QED
    BY <1>2, <1>3 DEF CInv

\* The marks and the inodes when nobody is in a call.
LEMMA IdleMark ==
  ASSUME \A p \in Procs : pc'[p] = "user", fmod' => sup'.dirty /\ disk'.sup.dirty
  PROVE  MarkInv'
  BY DEF MarkInv

LEMMA IdleFound ==
  ASSUME \A p \in Procs : pc'[p] = "user", \A f \in Files : f \notin imod' => cino'[f] = mem'[f]
  PROVE  FoundInv'
  <1>1. \A p \in Procs : At(p)' \notin Writing
    BY DEF At, Writing
  <1> QED
    BY <1>1 DEF FoundInv

\* What a file system is when it has been read from a consistent disk.
LEMMA MountedClean ==
  ASSUME \A p \in Procs : pc'[p] = "user", spc' = "user", ~fmod', Consistent(disk'),
         mem' = disk'.ino, cino' = disk'.ino, cblk' = disk'.blk
  PROVE  CleanInv'
  BY IdleMark, IdleFound DEF CleanInv, SerialInv, UntouchedInv, StageInv

\* A buffer reaches the disk.
LEMMA WrittenParts ==
  ASSUME RestType, NEW x \in Files \union Blocks, Written(x)
  PROVE  /\ disk'.sup = disk.sup
         /\ disk'.ino \in [Files -> Addrs] /\ disk'.blk \in [Blocks -> Contents]
         /\ \A f \in Files : disk'.ino[f] = IF f = x THEN cino[f] ELSE disk.ino[f]
         /\ \A b \in Blocks : disk'.blk[b] = IF b = x THEN cblk[b] ELSE disk.blk[b]
  <1>0. disk' \in Disks
    BY WrittenDisk
  <1>1. CASE x \in Files
    <2>1. disk' = [disk EXCEPT !.ino[x] = cino[x]] /\ x \notin Blocks
      BY <1>1, FilsysAssumption DEF Written
    <2> QED
      BY <1>0, <1>1, <2>1 DEF RestType, Disks
  <1>2. CASE x \notin Files
    <2>1. disk' = [disk EXCEPT !.blk[x] = cblk[x]]
      BY <1>2 DEF Written
    <2> QED
      BY <1>0, <1>2, <2>1 DEF RestType, Disks
  <1> QED
    BY <1>1, <1>2

LEMMA WrittenUntouched ==
  ASSUME RestType, UntouchedInv, NEW x \in Files \union Blocks, Written(x),
         UNCHANGED <<mem, cino, cblk>>
  PROVE  UntouchedInv'
  <1> SUFFICES ASSUME ~disk'.sup.dirty
               PROVE  /\ disk'.ino = mem /\ cino = mem /\ Consistent(disk')
                      /\ \A b \in Blocks : (\A f \in Files : b \notin Range(mem[f])) =>
                           cblk[b] = disk'.blk[b]
    BY DEF UntouchedInv
  <1>1. /\ disk'.sup = disk.sup /\ disk'.ino \in [Files -> Addrs]
        /\ \A f \in Files : disk'.ino[f] = IF f = x THEN cino[f] ELSE disk.ino[f]
        /\ \A b \in Blocks : disk'.blk[b] = IF b = x THEN cblk[b] ELSE disk.blk[b]
    BY WrittenParts
  <1>2. /\ disk.ino = mem /\ cino = mem /\ Consistent(disk)
        /\ \A b \in Blocks : (\A f \in Files : b \notin Range(mem[f])) =>
             cblk[b] = disk.blk[b]
    BY <1>1 DEF UntouchedInv
  <1>3. disk \in Disks /\ disk' \in Disks /\ disk.ino \in [Files -> Addrs]
    BY WrittenDisk DEF RestType, Disks
  <1>4. disk'.ino = disk.ino
    BY <1>1, <1>2, <1>3
  <1>5. \A b \in Blocks : (\A f \in Files : b \notin Range(disk.ino[f])) =>
          disk'.blk[b] = disk.blk[b]
    BY <1>1, <1>2
  <1>6. PICK d, e : d = disk /\ e = disk'
    OBVIOUS
  <1>7. Consistent(e)
    BY <1>1, <1>2, <1>3, <1>4, <1>5, <1>6, ConsistentFrame
  <1> QED
    BY <1>1, <1>2, <1>4, <1>6, <1>7

LEMMA WrittenModified ==
  ASSUME RestType, NEW x \in Files \union Blocks, Written(x), UNCHANGED <<cino, cblk>>
  PROVE  Modified' \subseteq Modified \ {x}
  BY WrittenParts DEF Modified

LEMMA NoneModified ==
  ASSUME RestType, Modified = {}
  PROVE  disk.ino = cino /\ disk.blk = cblk
  <1>1. disk.ino \in [Files -> Addrs] /\ disk.blk \in [Blocks -> Contents]
    BY DEF RestType, Disks
  <1>2. \A f \in Files : disk.ino[f] = cino[f]
    BY DEF Modified
  <1>3. \A b \in Blocks : disk.blk[b] = cblk[b]
    BY DEF Modified
  <1> QED
    BY <1>1, <1>2, <1>3 DEF RestType

LEMMA flushCInv ==
  ASSUME OInv, CInv, NEW x \in Files \union Blocks, flush(x)
  PROVE  CInv'
  <1> USE DEF mount, superbuf, invars, cache, Calls, history
  <1>0. RestType
    BY TypeNow DEF OInv
  <1>1. DownInv'
    BY DEF DownInv, flush
  <1>2. ASSUME Serial' PROVE CleanInv'
    <2>1. CleanInv /\ Written(x) /\ x \in Modified
      BY <1>2 DEF CInv, Serial, flush
    <2>2. UNCHANGED <<sup, fmod, scopy, mem, imod, cino, cblk, pc, fl, cont, spc, scur>>
      BY DEF flush, syncvars
    <2>3. disk'.sup = disk.sup
      BY <1>0, <2>1, WrittenParts
    <2>4. SerialInv' /\ MarkInv'
      BY <2>1, <2>2, <2>3 DEF CleanInv, SerialInv, MarkInv
    <2>5. FoundInv'
      BY <2>1, <2>2 DEF CleanInv, FoundInv, At
    <2>6. UntouchedInv'
      BY <1>0, <2>1, <2>2, WrittenUntouched DEF CleanInv
    <2>7. spc \notin {"mssync", "mssyncgate", "mssyncio"}
      BY <2>1 DEF CleanInv, StageInv, Modified
    <2>8. Modified' \subseteq Modified \ {x}
      BY <1>0, <2>1, <2>2, WrittenModified
    <2>9. StageInv'
      <3>1. stodo' = IF spc = "bsync" THEN stodo \ {x} ELSE stodo
        BY DEF flush
      <3> HIDE DEF mount, superbuf, invars, cache, Calls, history
      <3> QED
        BY <2>1, <2>2, <2>7, <2>8, <3>1 DEF CleanInv, StageInv
    <2> QED
      BY <2>4, <2>5, <2>6, <2>9 DEF CleanInv
  <1> QED
    BY <1>1, <1>2 DEF CInv

LEMMA SyncCInv ==
  ASSUME OInv, CInv, Sync
  PROVE  CInv'
  <1> USE DEF Calls, mount, superbuf, invars, cache, history
  <1>0. RestType /\ CallType /\ sup \in Supers
    BY TypeNow DEF OInv
  <1>1. power = "up" /\ power' = "up" /\ ron' = ron /\ pc' = pc /\ mem' = mem /\ cblk' = cblk
    BY DEF Sync, syncBegin, isync, icopymd, bsync, syncNext, mssync,
       mssyncClaim,
       mssyncDone, SyncAt
  <1>2. DownInv'
    BY <1>1 DEF DownInv
  <1> SUFFICES ASSUME Serial' PROVE CleanInv'
    BY <1>2 DEF CInv
  <1>3. ~raced /\ (spc # "user" \/ \A p \in Procs : pc[p] = "user")
    <2>1. CASE syncBegin
      BY <2>1 DEF syncBegin, Serial
    <2>2. CASE ~syncBegin
      BY <2>2 DEF Serial, Sync, isync, icopymd, bsync, syncNext, mssync,
         mssyncClaim,
         mssyncDone, SyncAt
    <2> QED
      BY <2>1, <2>2
  <1>4. CleanInv
    BY <1>1, <1>3 DEF CInv, Serial
  <1>5. \A p \in Procs : pc[p] = "user" /\ pc'[p] = "user"
    BY <1>1, <1>3, <1>4 DEF CleanInv, SerialInv
  <1>6. SerialInv' /\ (fmod => sup.dirty /\ disk.sup.dirty)
    BY <1>4, <1>5 DEF CleanInv, SerialInv, MarkInv
  <1>7. \A f \in Files : f \notin imod => cino[f] = mem[f]
    BY <1>4 DEF CleanInv, FoundInv
  <1>8. cino \in [Files -> Addrs] /\ mem \in [Files -> Addrs] /\ imod \subseteq Files
    BY <1>0 DEF RestType, CallType
  \* A step that writes nothing but the place of sync.
  <1>9. ASSUME UNCHANGED <<sup, fmod, disk, cino, imod>>, StageInv' PROVE CleanInv'
    <2>1. MarkInv' /\ FoundInv'
      BY <1>1, <1>5, <1>6, <1>7, <1>9, IdleMark, IdleFound
    <2>2. UntouchedInv'
      BY <1>1, <1>4, <1>9, UntouchedKept DEF CleanInv
    <2> QED
      BY <1>6, <1>9, <2>1, <2>2 DEF CleanInv
  <1>10. CASE syncBegin
    <2>1. spc' = "isync" /\ stodo' = Files /\ imod' = imod
      BY <1>10 DEF syncBegin, usync, Stage, Visits
    <2>2. StageInv'
      BY <1>8, <2>1 DEF StageInv
    <2> QED
      BY <1>9, <1>10, <2>2 DEF syncBegin
  <1>11. ASSUME NEW f \in Files, isync(f) PROVE CleanInv'
    <2>1. spc = "isync" /\ stodo' = stodo \ {f} /\ imod' = imod /\ imod \subseteq stodo
      BY <1>4, <1>11 DEF isync, SyncAt, CleanInv, StageInv
    <2>2. StageInv'
      <3>1. CASE f \in imod
        <4>1. spc' = "icopymd" /\ scur' = <<f, mem[f]>>
          BY <1>11, <3>1 DEF isync
        <4> QED
          BY <1>1, <2>1, <4>1 DEF StageInv
      <3>2. CASE f \notin imod
        <4>1. spc' = "isync"
          BY <1>11, <2>1, <3>2 DEF isync
        <4> QED
          BY <2>1, <3>2, <4>1 DEF StageInv
      <3> QED
        BY <3>1, <3>2
    <2> QED
      BY <1>9, <1>11, <2>2 DEF isync
  <1>12. CASE icopymd
    <2>1. PICK f : f = scur[1]
      OBVIOUS
    <2>2. /\ f \in Files /\ scur[2] = mem[f] /\ imod \subseteq stodo \union {f}
          /\ cino' = [cino EXCEPT ![f] = mem[f]] /\ imod' = imod \ {f}
          /\ spc' = "isync" /\ stodo' = stodo
      BY <1>4, <1>12, <2>1 DEF icopymd, SyncAt, CleanInv, StageInv
    <2>3. UNCHANGED <<sup, fmod, disk>>
      BY <1>12 DEF icopymd
    <2>4. \A g \in Files : g \notin imod' => cino'[g] = mem'[g]
      BY <1>1, <1>7, <1>8, <2>2
    <2>5. MarkInv' /\ FoundInv'
      BY <1>5, <1>6, <2>3, <2>4, IdleMark, IdleFound
    <2>6. cino = mem => cino' = mem
      BY <1>8, <2>2
    <2>7. UntouchedInv'
      BY <1>1, <1>4, <2>3, <2>6 DEF CleanInv, UntouchedInv
    <2>8. StageInv'
      BY <2>2 DEF StageInv
    <2> QED
      BY <1>6, <2>5, <2>7, <2>8 DEF CleanInv
  <1>13. ASSUME NEW x \in Files \union Blocks, bsync(x) PROVE CleanInv'
    <2>1. /\ Written(x) /\ UNCHANGED <<sup, fmod, cino, imod, spc>>
          /\ spc = "bsync" /\ stodo' = stodo \ {x}
      BY <1>13 DEF bsync, SyncAt
    <2>2. disk'.sup = disk.sup
      BY <1>0, <2>1, WrittenParts
    <2>3. MarkInv' /\ FoundInv'
      BY <1>1, <1>5, <1>6, <1>7, <2>1, <2>2, IdleMark, IdleFound
    <2>4. UntouchedInv'
      BY <1>0, <1>1, <1>4, <2>1, WrittenUntouched DEF CleanInv
    <2>5. Modified' \subseteq Modified \ {x}
      BY <1>0, <1>1, <2>1, WrittenModified
    <2>6. StageInv'
      BY <1>1, <1>4, <2>1, <2>5 DEF CleanInv, StageInv
    <2> QED
      BY <1>6, <2>3, <2>4, <2>6 DEF CleanInv
  <1>14. CASE syncNext
    <2>1. UNCHANGED <<sup, fmod, disk, cino, imod>> /\ stodo = {}
      BY <1>14 DEF syncNext
    <2>2. StageInv'
      <3>1. CASE spc = "isync"
        <4>1. spc' = "bsync" /\ stodo' = Modified
          BY <1>14, <3>1 DEF syncNext, usync, Stage, Visits
        <4>2. imod = {}
          BY <1>4, <2>1, <3>1 DEF CleanInv, StageInv
        <4>3. cino' = mem'
          BY <1>1, <1>7, <1>8, <2>1, <4>2
        <4>4. Modified' = Modified
          BY <1>1, <2>1 DEF Modified
        <4> QED
          BY <4>1, <4>3, <4>4 DEF StageInv
      <3>2. CASE spc = "bsync"
        <4>1. spc' = "mssync"
          BY <1>14, <3>2 DEF syncNext, usync, Stage
        <4>2. cino = mem /\ Modified = {}
          BY <1>4, <2>1, <3>2 DEF CleanInv, StageInv
        <4>3. disk.ino = cino /\ disk.blk = cblk
          BY <1>0, <4>2, NoneModified
        <4> QED
          BY <1>1, <2>1, <4>1, <4>2, <4>3 DEF StageInv
      <3> QED
        BY <1>14, <3>1, <3>2 DEF syncNext
    <2> QED
      BY <1>9, <2>1, <2>2
  <1>15. CASE mssync
    <2>1. UNCHANGED <<sup, fmod, disk, cino, imod>> /\ spc' \in {"user", "mssyncgate"}
      BY <1>15 DEF mssync, usync, Stage
    <2>2. StageInv'
      BY <1>1, <1>4, <1>15, <2>1 DEF mssync, SyncAt, CleanInv, StageInv
    <2> QED
      BY <1>9, <2>1, <2>2
  <1>16. CASE mssyncClaim
    <2>1. /\ UNCHANGED <<disk, cino, imod>> /\ ~fmod' /\ scopy' = sup' /\ ~sup'.dirty
          /\ spc = "mssyncgate" /\ spc' = "mssyncio"
      BY <1>0, <1>16 DEF mssyncClaim, SyncAt, Supers
    <2>2. MarkInv' /\ FoundInv'
      BY <1>1, <1>5, <1>7, <2>1, IdleMark, IdleFound
    <2>3. UntouchedInv'
      BY <1>1, <1>4, <2>1, UntouchedKept DEF CleanInv
    <2>4. StageInv'
      BY <1>1, <1>4, <2>1 DEF CleanInv, StageInv
    <2> QED
      BY <1>6, <2>2, <2>3, <2>4 DEF CleanInv
  <1>17. CASE mssyncDone
    <2>1. /\ UNCHANGED <<sup, fmod, cino, imod>> /\ disk' = [disk EXCEPT !.sup = scopy]
          /\ spc = "mssyncio" /\ spc' = "user"
      BY <1>17 DEF mssyncDone, SyncAt, usync, Stage
    <2>2. /\ cino = mem /\ disk.ino = mem /\ disk.blk = cblk
          /\ ~fmod /\ scopy = sup
      BY <1>4, <2>1 DEF CleanInv, StageInv
    <2>3. disk'.sup = sup /\ disk'.ino = mem /\ disk'.blk = cblk
      BY <1>0, <2>1, <2>2 DEF RestType, Disks
    <2>4. Consistent(disk')
      <3>1. PICK d : d = disk'
        OBVIOUS
      <3>2. power = "up" /\ ~ron
        BY <1>1 DEF Serial
      <3>3. /\ d.sup.free = sup.free /\ d.sup.tfree = sup.tfree /\ d.ino = mem
            /\ d.blk = cblk
        BY <2>3, <3>1
      <3>4. Consistent(d)
        BY <1>5, <3>2, <3>3, CoreConsistent
      <3> QED
        BY <3>1, <3>4
    <2> QED
      BY <1>1, <1>5, <2>1, <2>2, <2>3, <2>4, MountedClean
  <1> QED
    BY <1>10, <1>11, <1>12, <1>13, <1>14, <1>15, <1>16, <1>17 DEF Sync

\* A disk that is marked clean is consistent.
LEMMA CInvClean ==
  ASSUME OInv, CInv
  PROVE  CleanWhenSerial
  <1> SUFFICES ASSUME ~raced, ~disk.sup.dirty PROVE Consistent(disk)
    BY DEF CleanWhenSerial
  <1>1. CASE power = "up" /\ ron
    BY <1>1 DEF OInv, RonInv
  <1>2. CASE power = "up" /\ ~ron
    BY <1>2 DEF CInv, Serial, CleanInv, UntouchedInv
  <1>3. CASE power # "up"
    BY <1>3 DEF CInv, DownInv, OInv, TypeOK
  <1> QED
    BY <1>1, <1>2, <1>3

LEMMA CrashCInv ==
  ASSUME OInv, CInv, Crash
  PROVE  CInv'
  <1>1. power' = "down" /\ disk' = disk /\ raced' = raced
    BY DEF Crash
  <1>2. DownInv'
    BY <1>1, CInvClean DEF DownInv, CleanWhenSerial
  <1> QED
    BY <1>1, <1>2 DEF CInv, Serial

LEMMA fsmountCInv ==
  ASSUME OInv, CInv, fsmount
  PROVE  CInv'
  <1>1. /\ spc = "user" /\ \A p \in Procs : pc[p] = "user"
    BY DEF fsmount, OInv, FInv, IdleInv
  <1>2. DownInv'
    BY DEF fsmount, DownInv
  <1>3. ASSUME Serial' PROVE CleanInv'
    <2>1. /\ Consistent(disk) /\ disk' = disk /\ pc' = pc /\ spc' = spc /\ ~fmod'
          /\ mem' = disk.ino /\ cino' = disk.ino /\ cblk' = disk.blk
      BY <1>3 DEF fsmount, Serial, Calls, syncvars
    <2> QED
      BY <1>1, <2>1, MountedClean
  <1> QED
    BY <1>2, <1>3 DEF CInv

LEMMA fsremountCInv ==
  ASSUME OInv, CInv, fsremount
  PROVE  CInv'
  <1>1. /\ spc = "user" /\ \A p \in Procs : pc[p] = "user"
    BY DEF fsremount, OInv, FInv, IdleInv
  <1>2. power = "up" /\ disk' = disk
    BY DEF fsremount, SyncAt
  <1>3. Consistent(disk)
    BY <1>2 DEF fsremount, OInv, RonInv
  <1>4. ASSUME power' = "up" PROVE CleanInv'
    <2>1. /\ disk' = disk /\ pc' = pc /\ spc' = spc /\ ~fmod'
          /\ cino' = disk.ino /\ cblk' = disk.blk
      BY DEF fsremount, Calls, syncvars
    <2>2. PICK unused \in SUBSET Files :
            /\ mem' = [f \in Files |-> IF f \in unused THEN mem[f] ELSE disk.ino[f]]
            /\ \A f \in unused : mem[f] = disk.ino[f]
      BY <1>4 DEF fsremount
    <2>3. \A f \in Files : mem'[f] = disk.ino[f]
      BY <2>2
    <2>4. disk.ino \in [Files -> Addrs]
      BY TypeNow DEF OInv, RestType, Disks
    <2>5. mem' = disk.ino
      BY <2>2, <2>3, <2>4
    <2> QED
      BY <1>1, <1>3, <2>1, <2>5, MountedClean
  <1>5. DownInv'
    BY <1>2, <1>3 DEF DownInv
  <1> QED
    BY <1>4, <1>5 DEF CInv, Serial

LEMMA checkCInv ==
  ASSUME OInv, CInv, check
  PROVE  CInv'
  <1>1. disk \in Disks
    BY TypeNow DEF OInv, RestType
  <1>2. PICK kept \in SUBSET Files : /\ \A f, g \in kept : ~Dup(disk.ino, f, g)
                                     /\ disk' = Repaired(disk, kept)
    BY DEF check
  <1>3. Consistent(disk')
    BY <1>1, <1>2, RepairedConsistent
  <1>4. power' # "damaged" /\ ~Serial'
    BY DEF check, mount, Serial
  <1> QED
    BY <1>3, <1>4 DEF CInv, DownInv

LEMMA InitCInv == Init => CInv
  <1> SUFFICES ASSUME Init PROVE CInv
    OBVIOUS
  <1>1. Consistent(disk)
    BY FreshDisk DEF Init
  <1>2. \A p \in Procs : At(p) = "user" /\ pc[p] = "user"
    BY DEF Init, At
  <1>3. CleanInv
    BY <1>1, <1>2 DEF Init, CleanInv, SerialInv, MarkInv, FoundInv,
       UntouchedInv, StageInv,
       Writing
  <1> QED
    BY <1>3 DEF Init, CInv, DownInv

LEMMA NextCInv == OInv /\ CInv /\ [Next]_vars => CInv'
  <1> SUFFICES ASSUME OInv, CInv, [Next]_vars PROVE CInv'
    OBVIOUS
  <1>1. CASE UNCHANGED vars
    <2>1. \A p \in Procs : At(p)' = At(p)
      BY <1>1 DEF vars, At
    <2>2. Modified' = Modified
      BY <1>1 DEF vars, Modified
    <2>3. FoundInv => FoundInv'
      BY <1>1, <2>1 DEF vars, FoundInv
    <2>4. StageInv => StageInv'
      BY <1>1, <2>2 DEF vars, StageInv
    <2> QED
      BY <1>1, <2>3, <2>4 DEF vars, CInv, DownInv, Serial, CleanInv,
         SerialInv, MarkInv,
         UntouchedInv
  <1>2. ASSUME NEW p \in Procs, Write(p) \/ Truncate(p) \/ Super(p) PROVE CInv'
    BY <1>2, ProcessCInv
  <1>3. CASE Sync \/ Crash \/ fsmount \/ check \/ fsremount
    BY <1>3, SyncCInv, CrashCInv, fsmountCInv, checkCInv, fsremountCInv
  <1>4. ASSUME NEW x \in Files \union Blocks, flush(x) PROVE CInv'
    BY <1>4, flushCInv
  <1>5. CASE rest
    BY <1>1, <1>5 DEF rest
  <1> QED
    BY <1>1, <1>2, <1>3, <1>4, <1>5 DEF Next

(***************************************************************************)
(* The clean mark is true: unless a sync has met a call since the file     *)
(* system was mounted, a disk that is marked clean is consistent whenever  *)
(* the machine stops, although the cache writes any modified block at any  *)
(* time.  Only smod, called before the first change, and the order of the  *)
(* loops of usync are there to make it so.                                 *)
(***************************************************************************)
THEOREM FilsysCleanWhenSerial == Spec => []CleanWhenSerial
  <1>1. OInv /\ CInv => CleanWhenSerial
    BY CInvClean
  <1>2. Init => OInv /\ CInv
    BY InitOInv, InitCInv
  <1>3. OInv /\ CInv /\ [Next]_vars => (OInv /\ CInv)'
    BY NextOInv, NextCInv
  <1> QED
    BY <1>1, <1>2, <1>3, PTL DEF Spec
=============================================================================
