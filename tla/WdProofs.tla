----------------------------- MODULE WdProofs -------------------------------
(***************************************************************************)
(* Proofs about the disk driver, for any drives, partitions, buffers and   *)
(* requests: its queues agree, and it does what Disk promises.             *)
(***************************************************************************)
EXTENDS Wd, FiniteSetTheorems, SequenceTheorems, TLAPS

(***************************************************************************)
(* Sets of natural numbers have minima: the inductions below are about the *)
(* least number for which something fails.                                 *)
(***************************************************************************)
LEMMA LeastExists ==
  ASSUME NEW T \in SUBSET Nat, T # {}
  PROVE  \E m \in T : \A k \in T : m <= k
  <1> DEFINE R == OpToRel(<, Nat)
  <1>1. \A x, y \in Nat : <<x, y>> \in R <=> x < y
    BY Zenon DEF OpToRel
  <1>2. IsWellFoundedOn(R, Nat)
    BY NatLessThanWellFounded, Zenon
  <1> HIDE DEF R
  <1>3. PICK m \in T : \A y \in T : ~ (<<y, m>> \in R)
    BY <1>2, WFMin, Zenon
  <1>4. \A y \in T : m <= y
    <2> TAKE y \in T
    <2>1. ~ (y < m)
      BY <1>1, <1>3, Zenon
    <2> QED
      BY <2>1
  <1> QED
    BY <1>4, Zenon

-----------------------------------------------------------------------------
(* Queues as sequences without repetition.                                 *)

\* The first element leaves the queue.
LEMMA TailQueue ==
  ASSUME NEW S, NEW q \in Seq(S), q # <<>>, IsInjective(q)
  PROVE  /\ Head(q) \in S /\ Head(q) \in Range(q)
         /\ Tail(q) \in Seq(S) /\ IsInjective(Tail(q))
         /\ Range(Tail(q)) = Range(q) \ {Head(q)}
  <1>1. Len(q) \in Nat /\ Len(q) >= 1 /\ DOMAIN q = 1 .. Len(q)
    BY EmptySeq, SeqDef
  <1>2. Head(q) = q[1] /\ q[1] \in S /\ 1 \in DOMAIN q
    BY <1>1, ElementOfSeq
  <1>3. Tail(q) \in Seq(S) /\ Len(Tail(q)) = Len(q) - 1
        /\ \A i \in 1 .. Len(q) - 1 : Tail(q)[i] = q[i + 1]
    BY HeadTailProperties
  <1>4. DOMAIN Tail(q) = 1 .. Len(q) - 1
    BY <1>1, <1>3
  <1>5. IsInjective(Tail(q))
    BY <1>1, <1>3, <1>4 DEF IsInjective
  <1>6. Range(Tail(q)) \subseteq Range(q) \ {Head(q)}
    BY <1>1, <1>2, <1>3, <1>4 DEF IsInjective, Range
  <1>7. ASSUME NEW e \in Range(q), e # Head(q) PROVE e \in Range(Tail(q))
    <2>1. PICK i \in 1 .. Len(q) : e = q[i]
      BY <1>1 DEF Range
    <2>2. i - 1 \in 1 .. Len(q) - 1 /\ Tail(q)[i - 1] = q[i]
      BY <1>1, <1>2, <1>3, <1>7, <2>1
    <2> QED
      BY <1>4, <2>1, <2>2 DEF Range
  <1> QED
    BY <1>2, <1>3, <1>5, <1>6, <1>7 DEF Range

\* e is put into the queue q, which becomes t, behind its first k elements.
Put(q, t, k, e) ==
  /\ k \in 0 .. Len(q) /\ Len(t) = Len(q) + 1
  /\ \A i \in 1 .. Len(t) :
       t[i] = IF i <= k THEN q[i] ELSE IF i = k + 1 THEN e ELSE q[i - 1]

LEMMA PutQueue ==
  ASSUME NEW S, NEW q \in Seq(S), NEW e \in S, IsInjective(q), e \notin Range(q),
         NEW t \in Seq(S), NEW k \in Nat, Put(q, t, k, e)
  PROVE  /\ IsInjective(t) /\ Range(t) = Range(q) \union {e} /\ t # <<>>
  <1>1. Len(q) \in Nat /\ DOMAIN q = 1 .. Len(q) /\ DOMAIN t = 1 .. Len(q) + 1
    BY DEF Put
  <1>2. \A i \in 1 .. Len(q) + 1 :
          t[i] = IF i <= k THEN q[i] ELSE IF i = k + 1 THEN e ELSE q[i - 1]
    BY DEF Put
  <1>3. k \in 0 .. Len(q)
    BY DEF Put
  <1>4. \A i \in 1 .. Len(q) : q[i] # e
    BY <1>1 DEF Range
  <1>5. \A i, j \in 1 .. Len(q) : q[i] = q[j] => i = j
    BY <1>1 DEF IsInjective
  <1>6. ASSUME NEW i \in 1 .. Len(q) + 1, NEW j \in 1 .. Len(q) + 1, t[i] = t[j]
        PROVE  i = j
    <2>1. CASE i <= k
      BY <1>1, <1>2, <1>3, <1>4, <1>5, <1>6, <2>1
    <2>2. CASE i = k + 1
      BY <1>1, <1>2, <1>3, <1>4, <1>6, <2>2
    <2>3. CASE i > k + 1
      BY <1>1, <1>2, <1>3, <1>4, <1>5, <1>6, <2>3
    <2> QED
      BY <1>1, <1>3, <2>1, <2>2, <2>3
  <1>7. IsInjective(t)
    BY <1>1, <1>6 DEF IsInjective
  <1>8. Range(t) \subseteq Range(q) \union {e}
    <2> SUFFICES ASSUME NEW i \in 1 .. Len(q) + 1 PROVE t[i] \in Range(q) \union {e}
      BY <1>1 DEF Range
    <2>1. CASE i <= k
      BY <1>1, <1>2, <1>3, <2>1 DEF Range
    <2>2. CASE i = k + 1
      BY <1>1, <1>2, <1>3, <2>2
    <2>3. CASE i > k + 1
      BY <1>1, <1>2, <1>3, <2>3 DEF Range
    <2> QED
      BY <1>3, <2>1, <2>2, <2>3
  <1>9. ASSUME NEW x \in Range(q) \union {e} PROVE x \in Range(t)
    <2>1. CASE x = e
      <3>1. k + 1 \in 1 .. Len(q) + 1 /\ t[k + 1] = e
        BY <1>1, <1>2, <1>3
      <3> QED
        BY <1>1, <2>1, <3>1 DEF Range
    <2>2. CASE x # e
      <3>1. PICK i \in 1 .. Len(q) : x = q[i]
        BY <1>1, <1>9, <2>2 DEF Range
      <3>2. CASE i <= k
        BY <1>1, <1>2, <1>3, <3>1, <3>2 DEF Range
      <3>3. CASE i > k
        <4>1. i + 1 \in 1 .. Len(q) + 1 /\ t[i + 1] = q[i]
          BY <1>1, <1>2, <1>3, <3>1, <3>3
        <4> QED
          BY <1>1, <3>1, <4>1 DEF Range
      <3> QED
        BY <1>1, <1>3, <3>2, <3>3
    <2> QED
      BY <2>1, <2>2
  <1> QED
    BY <1>1, <1>7, <1>8, <1>9

\* wdustart appends to a queue.
LEMMA AppendQueue ==
  ASSUME NEW S, NEW q \in Seq(S), NEW e \in S, IsInjective(q), e \notin Range(q)
  PROVE  /\ Append(q, e) \in Seq(S) /\ IsInjective(Append(q, e))
         /\ Range(Append(q, e)) = Range(q) \union {e} /\ Append(q, e) # <<>>
         /\ q # <<>> => Head(Append(q, e)) = Head(q)
  <1>1. Append(q, e) \in Seq(S) /\ Put(q, Append(q, e), Len(q), e)
    BY DEF Put
  <1>2. Len(q) \in Nat
    OBVIOUS
  <1>3. q # <<>> => Head(Append(q, e)) = Head(q)
    BY EmptySeq
  <1> DEFINE t == Append(q, e)
  <1>4. t \in Seq(S) /\ Put(q, t, Len(q), e)
    BY <1>1
  <1> HIDE DEF t
  <1>5. IsInjective(t) /\ Range(t) = Range(q) \union {e} /\ t # <<>>
    BY <1>2, <1>4, PutQueue
  <1> QED
    BY <1>1, <1>3, <1>5 DEF t

\* disksort never puts a request before the head of the queue.
LEMMA disksortQueue ==
  ASSUME NEW q \in Seq(Bufs), NEW b \in Bufs, IsInjective(q), b \notin Range(q),
         NEW req
  PROVE  /\ disksort(q, b, req) \in Seq(Bufs) /\ IsInjective(disksort(q, b, req))
         /\ Range(disksort(q, b, req)) = Range(q) \union {b}
         /\ disksort(q, b, req) # <<>>
         /\ q # <<>> => Head(disksort(q, b, req)) = Head(q)
  <1> DEFINE fits == {k \in 1 .. Len(q) - 1 :
                        Between(wdbno(req[q[k]]), wdbno(req[b]), wdbno(req[q[k + 1]]))}
             K == CHOOSE k \in fits : \A j \in fits : k <= j
             t == InsertAt(q, K + 1, b)
  <1>0. Len(q) \in Nat /\ DOMAIN q = 1 .. Len(q)
    OBVIOUS
  <1>1. CASE fits = {}
    <2>1. disksort(q, b, req) = Append(q, b)
      BY <1>1 DEF disksort
    <2> QED
      BY <2>1, AppendQueue
  <1>2. CASE fits # {}
    <2>1. disksort(q, b, req) = t
      BY <1>2 DEF disksort
    <2>2. fits \in SUBSET Nat /\ fits \subseteq 1 .. Len(q) - 1
      BY <1>0
    <2> HIDE DEF fits
    <2>3. K \in fits
      BY <1>2, <2>2, LeastExists
    <2>4. K \in 1 .. Len(q) - 1
      BY <2>2, <2>3
    <2> HIDE DEF K
    <2>5. SubSeq(q, 1, K) \in Seq(Bufs) /\ Len(SubSeq(q, 1, K)) = K
          /\ \A i \in 1 .. K : SubSeq(q, 1, K)[i] = q[i]
      BY <1>0, <2>4, SubSeqProperties
    <2>6. SubSeq(q, K + 1, Len(q)) \in Seq(Bufs)
          /\ Len(SubSeq(q, K + 1, Len(q))) = Len(q) - K
          /\ \A i \in 1 .. Len(q) - K : SubSeq(q, K + 1, Len(q))[i] = q[K + i]
      BY <1>0, <2>4, SubSeqProperties
    <2>7. t = SubSeq(q, 1, K) \o <<b>> \o SubSeq(q, K + 1, Len(q))
      BY <2>4 DEF InsertAt
    <2> DEFINE u == SubSeq(q, 1, K)
               v == SubSeq(q, K + 1, Len(q))
    <2> HIDE DEF u, v, t
    <2>8. t \in Seq(Bufs) /\ Put(q, t, K, b)
      <3>1. u \in Seq(Bufs) /\ Len(u) = K /\ \A i \in 1 .. K : u[i] = q[i]
        BY <2>5 DEF u
      <3>2. v \in Seq(Bufs) /\ Len(v) = Len(q) - K
            /\ \A i \in 1 .. Len(q) - K : v[i] = q[K + i]
        BY <2>6 DEF v
      <3>3. t = (u \o <<b>>) \o v
        BY <2>7 DEF u, v
      <3> DEFINE y == u \o <<b>>
      <3>4. y \in Seq(Bufs) /\ Len(y) = K + 1
            /\ \A i \in 1 .. K + 1 : y[i] = IF i <= K THEN q[i] ELSE b
        BY <2>4, <3>1
      <3>5. t = y \o v
        BY <3>3
      <3> HIDE DEF y
      <3>6. t \in Seq(Bufs) /\ Len(t) = Len(q) + 1
        <4>1. y \o v \in Seq(Bufs) /\ Len(y \o v) = Len(y) + Len(v)
          BY <3>2, <3>4, ConcatProperties
        <4>2. Len(y) + Len(v) = Len(q) + 1
          BY <1>0, <2>4, <3>2, <3>4
        <4> QED
          BY <3>5, <4>1, <4>2
      <3>7. \A i \in 1 .. Len(t) : t[i] = IF i <= K + 1 THEN y[i] ELSE v[i - (K + 1)]
        BY <1>0, <2>4, <3>2, <3>4, <3>5, <3>6, ConcatProperties
      <3>8. ASSUME NEW i \in 1 .. Len(q) + 1
            PROVE  t[i] = IF i <= K THEN q[i] ELSE IF i = K + 1 THEN b ELSE q[i - 1]
        <4>1. CASE i <= K + 1
          BY <1>0, <2>4, <3>4, <3>6, <3>7, <4>1
        <4>2. CASE i > K + 1
          <5> DEFINE j == i - (K + 1)
          <5>1. j \in 1 .. Len(q) - K /\ K + j = i - 1
            BY <1>0, <2>4, <4>2
          <5>2. t[i] = v[j]
            BY <1>0, <2>4, <3>6, <3>7, <4>2
          <5> HIDE DEF j
          <5>3. v[j] = q[i - 1]
            BY <3>2, <5>1
          <5> QED
            BY <2>4, <4>2, <5>2, <5>3
        <4> QED
          BY <2>4, <4>1, <4>2
      <3> QED
        BY <1>0, <2>4, <3>6, <3>8 DEF Put
    <2>9. K \in Nat /\ Head(t) = Head(q)
      <3>1. t[1] = q[1] /\ Len(t) >= 1
        BY <1>0, <2>4, <2>8 DEF Put
      <3> QED
        BY <1>0, <2>4, <2>8, <3>1
    <2> QED
      BY <2>1, <2>8, <2>9, PutQueue
  <1> QED
    BY <1>1, <1>2

-----------------------------------------------------------------------------
(* The tables of the driver, in the middle of a step.                      *)

Cmds == [d : Nat, addr : Nat, n : Nat, bounce : BOOLEAN]

Tables ==
  [actf : [Drives -> Seq(Bufs)], active : SUBSET Drives, forw : Seq(Drives),
   busy : BOOLEAN, bounce : SUBSET Bufs, cmd : Cmds, failed : SUBSET Bufs]

\* A request that wdblock queues, with its count.
Queueable(r, k) ==
  /\ r \in Requests /\ ~NoDevice(r)
  /\ k = Clipped(r) /\ k # 0 /\ (r.raw \/ k = r.count)

Asked(req, n) ==
  /\ req \in [Bufs -> Requests \union {NoRequest}]
  /\ n \in [Bufs -> Nat]
  /\ \A b \in Bufs : req[b] # NoRequest => Queueable(req[b], n[b])

\* Each drive has in its queue the requests that are not answered yet.
Queues(w, req, done) ==
  \A d \in Drives :
    /\ IsInjective(w.actf[d])
    /\ Range(w.actf[d]) =
         {b \in Bufs \ (w.failed \union done) : req[b] # NoRequest /\ req[b].d = d}

\* The drives with work are in the chain, but for those in out.
ChainOf(w, out) ==
  /\ Range(w.forw) = w.active /\ IsInjective(w.forw)
  /\ w.active = {d \in Drives \ out : w.actf[d] # <<>>}

\* The command for the request r of b, on the drive d.
CmdOf(r, d, k) ==
  IF r.req = "FMTCMD" THEN [NoCmd EXCEPT !.d = d]
  ELSE [d |-> d, addr |-> r.bno + wdbtab[r.pd].bstart, n |-> k,
        bounce |-> ~r.aligned]

\* A controller that is busy works on the first request of the first drive.
Works(w, b, r, d, k) ==
  /\ w.cmd = CmdOf(r, d, k)
  /\ ~r.aligned /\ r.req = "BWRITE" => w.bounce = {b}

First(w) == Head(w.actf[Head(w.forw)])

Working(w, req, n) ==
  w.busy => /\ w.forw # <<>>
            /\ Works(w, First(w), req[First(w)], Head(w.forw), n[First(w)])

Agree(w, req, n, out, done) ==
  /\ w \in Tables /\ Queues(w, req, done) /\ ChainOf(w, out) /\ Working(w, req, n)
  /\ w.failed \intersect done = {}
  /\ \A b \in w.failed : req[b] # NoRequest

\* The first request of the first drive.
LEMMA FirstRequest ==
  ASSUME NEW w, NEW req, NEW n, NEW done, Agree(w, req, n, {}, done), w.forw # <<>>
  PROVE  /\ Head(w.forw) \in Drives /\ w.actf[Head(w.forw)] \in Seq(Bufs)
         /\ w.actf[Head(w.forw)] # <<>>
         /\ First(w) \in Bufs \ (w.failed \union done)
         /\ req[First(w)] # NoRequest /\ req[First(w)].d = Head(w.forw)
  <1> DEFINE d == Head(w.forw)
             q == w.actf[d]
  <1>1. w.forw \in Seq(Drives) /\ IsInjective(w.forw) /\ w.actf \in [Drives -> Seq(Bufs)]
    BY DEF Agree, ChainOf, Tables
  <1>2. d \in Drives /\ d \in Range(w.forw)
    BY <1>1, TailQueue
  <1>3. q # <<>> /\ q \in Seq(Bufs) /\ IsInjective(q)
    BY <1>1, <1>2 DEF Agree, ChainOf, Queues
  <1> HIDE DEF q
  <1>4. Head(q) \in Range(q)
    BY <1>3, TailQueue
  <1>5. Range(q) =
          {b \in Bufs \ (w.failed \union done) : req[b] # NoRequest /\ req[b].d = d}
    BY <1>2 DEF Agree, Queues, q
  <1> QED
    BY <1>2, <1>3, <1>4, <1>5 DEF First, q

\* A drive with work joins the chain.
LEMMA wdustartAgree ==
  ASSUME NEW w, NEW req, NEW n, NEW done, NEW d \in Drives,
         Agree(w, req, n, {d} \ w.active, done)
  PROVE  /\ Agree(wdustart(w, d), req, n, {}, done)
         /\ wdustart(w, d).failed = w.failed
  <1> DEFINE x == wdustart(w, d)
  <1>0. w \in Tables
    BY DEF Agree
  <1>1. CASE d \in w.active \/ w.actf[d] = <<>>
    <2>1. x = w
      BY <1>1 DEF wdustart
    <2>2. ChainOf(w, {})
      BY <1>1 DEF Agree, ChainOf
    <2> QED
      BY <2>1, <2>2 DEF Agree
  <1>2. CASE ~ (d \in w.active \/ w.actf[d] = <<>>)
    <2>1. x = [w EXCEPT !.active = @ \union {d}, !.forw = Append(@, d)]
      BY <1>2 DEF wdustart
    <2>2. /\ x.actf = w.actf /\ x.active = w.active \union {d}
          /\ x.forw = Append(w.forw, d) /\ x.busy = w.busy /\ x.bounce = w.bounce
          /\ x.cmd = w.cmd /\ x.failed = w.failed
      BY <1>0, <2>1 DEF Tables
    <2>3. w.forw \in Seq(Drives) /\ IsInjective(w.forw) /\ Range(w.forw) = w.active
      BY DEF Agree, ChainOf, Tables
    <2>4. /\ x.forw \in Seq(Drives) /\ IsInjective(x.forw)
          /\ Range(x.forw) = w.active \union {d} /\ x.forw # <<>>
          /\ w.forw # <<>> => Head(x.forw) = Head(w.forw)
      BY <1>2, <2>2, <2>3, AppendQueue
    <2>5. x \in Tables
      BY <1>0, <2>1, <2>2, <2>4 DEF Tables
    <2> HIDE DEF x
    <2>6. Queues(x, req, done)
      BY <2>2 DEF Agree, Queues
    <2>7. ChainOf(x, {})
      BY <1>2, <2>2, <2>4 DEF Agree, ChainOf
    <2>8. Working(x, req, n)
      <3> SUFFICES ASSUME x.busy PROVE Working(x, req, n)
        BY DEF Working
      <3>1. w.forw # <<>>
            /\ Works(w, First(w), req[First(w)], Head(w.forw), n[First(w)])
        BY <2>2 DEF Agree, Working
      <3>2. First(x) = First(w) /\ Head(x.forw) = Head(w.forw)
        BY <2>2, <2>4, <3>1 DEF First
      <3> QED
        BY <2>2, <2>4, <3>1, <3>2 DEF Working, Works
    <2> QED
      BY <2>2, <2>5, <2>6, <2>7, <2>8 DEF Agree, x
  <1> QED
    BY <1>1, <1>2

\* The first request of the first drive leaves its queue: it is refused and
\* joins w.failed, or it is answered and joins done.
LEMMA DropAgree ==
  ASSUME NEW w, NEW req, NEW n, NEW done, Agree(w, req, n, {}, done), w.forw # <<>>,
         NEW F, F = w.failed \/ F = w.failed \union {First(w)},
         NEW G, G = done \/ G = done \union {First(w)},
         F # w.failed \/ G # done, F \intersect G = {}
  PROVE  Agree([Drop(w) EXCEPT !.failed = F], req, n, {Head(w.forw)}, G)
         /\ Head(w.forw) \notin [Drop(w) EXCEPT !.failed = F].active
  <1> DEFINE d == Head(w.forw)
             b == First(w)
             x == [Drop(w) EXCEPT !.failed = F]
  <1>0. w \in Tables
    BY DEF Agree
  <1>1. /\ d \in Drives /\ w.actf[d] \in Seq(Bufs) /\ w.actf[d] # <<>>
        /\ b \in Bufs \ (w.failed \union done) /\ req[b] # NoRequest /\ req[b].d = d
    BY FirstRequest
  <1>2. /\ x.actf = [w.actf EXCEPT ![d] = Tail(@)] /\ x.active = w.active \ {d}
        /\ x.forw = Tail(w.forw) /\ x.busy = FALSE /\ x.bounce = w.bounce
        /\ x.cmd = w.cmd /\ x.failed = F
    BY <1>0 DEF Tables, Drop
  <1> DEFINE A == [w.actf EXCEPT ![d] = Tail(@)]
             y == [w EXCEPT !.actf = A, !.active = @ \ {d}, !.forw = Tail(@),
                            !.busy = FALSE, !.failed = F]
  <1>3. x = y
    BY <1>0 DEF Tables, Drop
  <1>4. IsInjective(w.actf[d]) /\ w.forw \in Seq(Drives) /\ IsInjective(w.forw)
        /\ Range(w.forw) = w.active /\ Head(w.actf[d]) = b
    BY <1>0, <1>1 DEF Agree, Queues, ChainOf, Tables, First
  <1> HIDE DEF d, b, x
  <1>5. /\ Tail(w.actf[d]) \in Seq(Bufs) /\ IsInjective(Tail(w.actf[d]))
        /\ Range(Tail(w.actf[d])) = Range(w.actf[d]) \ {b}
    BY <1>1, <1>4, TailQueue
  <1>6. /\ x.forw \in Seq(Drives) /\ IsInjective(x.forw)
        /\ Range(x.forw) = w.active \ {d}
    BY <1>2, <1>4, TailQueue DEF d
  <1>7. F \subseteq Bufs /\ F \union G = w.failed \union done \union {b}
    BY <1>0, <1>1 DEF Tables, b
  <1>8. w.actf \in [Drives -> Seq(Bufs)]
    BY <1>0 DEF Tables
  <1>9. x \in Tables
    <2>1. A \in [Drives -> Seq(Bufs)]
      BY <1>1, <1>5, <1>8
    <2>2. Tail(w.forw) \in Seq(Drives) /\ w.active \ {d} \in SUBSET Drives
      BY <1>0, <1>2, <1>6 DEF Tables
    <2> HIDE DEF A
    <2>3. y \in Tables
      BY <1>0, <1>7, <2>1, <2>2 DEF Tables
    <2> QED
      BY <1>3, <2>3
  <1>10. Queues(x, req, G)
    <2> SUFFICES ASSUME NEW e \in Drives
                 PROVE  /\ IsInjective(x.actf[e])
                        /\ Range(x.actf[e]) =
                             {c \in Bufs \ (x.failed \union G) :
                                req[c] # NoRequest /\ req[c].d = e}
      BY DEF Queues
    <2>1. /\ IsInjective(w.actf[e])
          /\ Range(w.actf[e]) = {c \in Bufs \ (w.failed \union done) :
                                   req[c] # NoRequest /\ req[c].d = e}
      BY DEF Agree, Queues
    <2>2. x.actf[e] = IF e = d THEN Tail(w.actf[d]) ELSE w.actf[e]
      BY <1>1, <1>2, <1>8
    <2>3. CASE e = d
      BY <1>2, <1>5, <1>7, <2>1, <2>2, <2>3
    <2>4. CASE e # d
      BY <1>1, <1>2, <1>7, <2>1, <2>2, <2>4
    <2> QED
      BY <2>3, <2>4
  <1>11. ChainOf(x, {d})
    <2>1. \A e \in Drives : e # d => x.actf[e] = w.actf[e]
      BY <1>2, <1>8
    <2>2. w.active = {e \in Drives : w.actf[e] # <<>>}
      BY DEF Agree, ChainOf
    <2> QED
      BY <1>2, <1>6, <2>1, <2>2 DEF ChainOf
  <1>12. Working(x, req, n)
    BY <1>2 DEF Working
  <1>13. \A c \in F : req[c] # NoRequest
    BY <1>1 DEF Agree, b
  <1> QED
    BY <1>2, <1>9, <1>10, <1>11, <1>12, <1>13 DEF Agree, x, d

LEMMA CmdType ==
  ASSUME NEW r, NEW k \in Nat, Queueable(r, k)
  PROVE  CmdOf(r, r.d, k) \in Cmds
  <1>1. r \in RequestType
    BY WdAssumption DEF Queueable
  <1>2. r.pd \in DOMAIN wdbtab /\ r.d \in Nat /\ r.bno \in Nat /\ r.aligned \in BOOLEAN
    BY <1>1, WdAssumption DEF Queueable, NoDevice, RequestType
  <1>3. wdbtab[r.pd].bstart \in Nat
    BY <1>2, WdAssumption
  <1>4. r.bno + wdbtab[r.pd].bstart \in Nat
    BY <1>2, <1>3
  <1> QED
    BY <1>2, <1>4 DEF CmdOf, Cmds, NoCmd

(***************************************************************************)
(* wdstart keeps the tables in agreement, and does nothing, makes the      *)
(* controller busy or refuses a request.                                   *)
(***************************************************************************)
LEMMA wdstartAgree ==
  ASSUME NEW w, NEW req, NEW n, NEW done, Asked(req, n), Agree(w, req, n, {}, done)
  PROVE  /\ Agree(wdstart(w, req, n), req, n, {}, done)
         /\ \/ wdstart(w, req, n) = w /\ (w.busy \/ w.forw = <<>>)
            \/ wdstart(w, req, n).busy
            \/ \E b \in Bufs \ w.failed : wdstart(w, req, n).failed = w.failed \union {b}
  <1> DEFINE x == wdstart(w, req, n)
             d == Head(w.forw)
             b == First(w)
             r == req[b]
  <1>0. w \in Tables
    BY DEF Agree
  <1>1. CASE w.busy \/ w.forw = <<>>
    BY <1>1 DEF wdstart
  <1>2. CASE ~ (w.busy \/ w.forw = <<>>)
    <2>0. /\ d \in Drives /\ b \in Bufs \ (w.failed \union done)
          /\ r # NoRequest /\ r.d = d
      BY <1>2, FirstRequest
    <2>1. CASE BadDma(r, n[b])
      <3> DEFINE y == [Drop(w) EXCEPT !.failed = @ \union {b}]
                 z == [Drop(w) EXCEPT !.failed = w.failed \union {b}]
      <3>1. x = wdustart(y, d)
        BY <1>2, <2>1 DEF wdstart, First
      <3>2. y = z
        BY <1>0 DEF Drop, Tables
      <3>3. Agree(z, req, n, {d}, done) /\ d \notin z.active
        <4>1. w.failed \union {b} # w.failed
              /\ (w.failed \union {b}) \intersect done = {}
          BY <2>0 DEF Agree
        <4> QED
          BY <1>2, <4>1, DropAgree
      <3>4. z.failed = w.failed \union {b}
        BY <1>0 DEF Drop, Tables
      <3> HIDE DEF z, y, d, b
      <3>5. {d} \ z.active = {d}
        BY <3>3
      <3>6. Agree(wdustart(z, d), req, n, {}, done) /\ wdustart(z, d).failed = z.failed
        BY <2>0, <3>3, <3>5, wdustartAgree
      <3> QED
        BY <2>0, <3>1, <3>2, <3>4, <3>6
    <2>2. CASE ~BadDma(r, n[b])
      <3> DEFINE B == IF ~r.aligned /\ r.req = "BWRITE" THEN {b} ELSE w.bounce
                 C == CmdOf(r, d, n[b])
                 y == [w EXCEPT !.busy = TRUE, !.bounce = B, !.cmd = C]
      <3>1. x = y
        BY <1>0, <1>2, <2>2 DEF wdstart, First, CmdOf, Tables
      <3>2. C \in Cmds
        BY <2>0, CmdType DEF Asked
      <3>3. B \in SUBSET Bufs
        BY <1>0, <2>0 DEF Tables
      <3>4. ~r.aligned /\ r.req = "BWRITE" => B = {b}
        OBVIOUS
      <3> HIDE DEF B, C
      <3>5. y \in Tables
        BY <1>0, <3>2, <3>3 DEF Tables
      <3>6. /\ y.actf = w.actf /\ y.active = w.active /\ y.forw = w.forw
            /\ y.busy = TRUE /\ y.bounce = B /\ y.cmd = C /\ y.failed = w.failed
        BY <1>0 DEF Tables
      <3> HIDE DEF y
      <3>7. First(y) = b
        BY <3>6 DEF First
      <3>8. Working(y, req, n)
        BY <1>2, <3>4, <3>6, <3>7 DEF Working, Works, C
      <3>9. Queues(y, req, done) /\ ChainOf(y, {})
        BY <3>6 DEF Agree, Queues, ChainOf
      <3>10. Agree(y, req, n, {}, done)
        BY <3>5, <3>6, <3>8, <3>9 DEF Agree
      <3> QED
        BY <3>1, <3>6, <3>10
    <2> QED
      BY <2>1, <2>2
  <1> QED
    BY <1>1, <1>2

(***************************************************************************)
(* The loop around wdstart: as many calls as there are buffers leave the   *)
(* controller busy or the chain empty.                                     *)
(***************************************************************************)
LEMMA StartedAgree ==
  ASSUME NEW w0, NEW req, NEW n, NEW done, Asked(req, n),
         Agree(w0, req, n, {}, done), w0.failed = {}
  PROVE  /\ Agree(Started(w0, req, n), req, n, {}, done)
         /\ Started(w0, req, n).busy <=> Started(w0, req, n).forw # <<>>
  <1> DEFINE N == Cardinality(Bufs)
             Loop(k, f) == f = [j \in 0 .. k |-> IF j = 0 THEN w0
                                                 ELSE wdstart(f[j - 1], req, n)]
  <1>0. N \in Nat /\ IsFiniteSet(Bufs)
    BY WdAssumption, FS_CardinalityType
  <1> HIDE DEF N
  \* The calls can be counted.
  <1>1. \E f : Loop(N, f)
    <2> DEFINE T == {k \in Nat : ~ \E f : Loop(k, f)}
    <2> SUFFICES ASSUME T # {} PROVE FALSE
      BY <1>0
    <2>1. T \in SUBSET Nat
      OBVIOUS
    <2>2. PICK k \in T : \A j \in T : k <= j
      <3> HIDE DEF T
      <3> QED
        BY <2>1, LeastExists
    <2>3. k \in Nat /\ ~ \E f : Loop(k, f)
      OBVIOUS
    <2>4. CASE k = 0
      <3>1. Loop(0, [j \in 0 .. 0 |-> w0])
        OBVIOUS
      <3> QED
        BY <2>3, <2>4, <3>1
    <2>5. CASE k # 0
      <3>1. k - 1 \in Nat /\ k - 1 \notin T
        <4>1. k - 1 \in Nat /\ ~ (k <= k - 1)
          BY <2>3, <2>5
        <4> HIDE DEF T
        <4> QED
          BY <2>2, <4>1
      <3>2. PICK f : Loop(k - 1, f)
        BY <3>1
      <3> DEFINE g == [j \in 0 .. k |-> IF j = k THEN wdstart(f[k - 1], req, n)
                                        ELSE f[j]]
      <3>3. \A j \in 0 .. k - 1 :
              f[j] = IF j = 0 THEN w0 ELSE wdstart(f[j - 1], req, n)
        BY <3>2
      <3>4. \A j \in 0 .. k : g[j] = IF j = 0 THEN w0 ELSE wdstart(g[j - 1], req, n)
        BY <2>3, <2>5, <3>3
      <3>5. Loop(k, g)
        BY <3>4
      <3> QED
        BY <2>3, <3>5
    <2> QED
      BY <2>4, <2>5
  <1> DEFINE from == CHOOSE f : Loop(N, f)
  <1>2. Started(w0, req, n) = from[N]
    BY DEF Started, N
  <1>3. Loop(N, from)
    BY <1>1
  <1> HIDE DEF from
  <1>4. from[0] = w0 /\ \A k \in 1 .. N : from[k] = wdstart(from[k - 1], req, n)
    BY <1>0, <1>3
  \* Each call that does not end the loop refuses a request.
  <1> DEFINE Ended(w) == w.busy \/ w.forw = <<>>
             Good(k) == /\ Agree(from[k], req, n, {}, done)
                        /\ Ended(from[k]) \/ Cardinality(from[k].failed) >= k
  <1>5. Good(N)
    <2> DEFINE T == {k \in 0 .. N : ~ Good(k)}
    <2> SUFFICES ASSUME T # {} PROVE FALSE
      BY <1>0
    <2>1. T \in SUBSET Nat
      BY <1>0
    <2>2. PICK k \in T : \A j \in T : k <= j
      <3> HIDE DEF T
      <3> QED
        BY <2>1, LeastExists
    <2>3. k \in 0 .. N /\ ~ Good(k)
      OBVIOUS
    <2>4. k # 0
      <3> SUFFICES ASSUME k = 0 PROVE FALSE
        OBVIOUS
      <3>1. Cardinality(w0.failed) >= 0
        BY FS_EmptySet
      <3>2. Good(0)
        BY <1>4, <3>1
      <3> QED
        BY <2>3, <3>2
    <2>5. k - 1 \in 0 .. N /\ k \in 1 .. N /\ k - 1 \notin T
      BY <1>0, <2>2, <2>3, <2>4
    <2>6. Good(k - 1)
      BY <2>5
    <2> DEFINE w == from[k - 1]
               x == from[k]
    <2>7. x = wdstart(w, req, n)
      BY <1>4, <2>5
    <2>8. Agree(w, req, n, {}, done) /\ (Ended(w) \/ Cardinality(w.failed) >= k - 1)
      BY <2>6
    <2>9. ~ (Agree(x, req, n, {}, done) /\ (Ended(x) \/ Cardinality(x.failed) >= k))
      BY <2>3
    <2> HIDE DEF w, x, T, Good
    <2>10. /\ Agree(x, req, n, {}, done)
           /\ \/ x = w /\ (w.busy \/ w.forw = <<>>)
              \/ x.busy
              \/ \E b \in Bufs \ w.failed : x.failed = w.failed \union {b}
      BY <2>7, <2>8, wdstartAgree
    <2>11. PICK b \in Bufs \ w.failed : x.failed = w.failed \union {b}
      BY <2>9, <2>10
    <2>12. w.failed \subseteq Bufs
      BY <2>8 DEF Agree, Tables
    <2>13. IsFiniteSet(w.failed) /\ Cardinality(w.failed) \in Nat
      BY <1>0, <2>12, FS_Subset, FS_CardinalityType
    <2>14. Cardinality(x.failed) = Cardinality(w.failed) + 1
      BY <2>11, <2>13, FS_AddElement
    <2>15. CASE Ended(w)
      <3>1. x = w
        BY <2>7, <2>15 DEF wdstart
      <3> QED
        BY <2>9, <2>10, <2>15, <3>1
    <2>16. CASE Cardinality(w.failed) >= k - 1
      BY <2>5, <2>9, <2>10, <2>13, <2>14, <2>16
    <2> QED
      BY <2>8, <2>15, <2>16
  <1> DEFINE x == from[N]
  <1>6. Agree(x, req, n, {}, done) /\ (Ended(x) \/ Cardinality(x.failed) >= N)
    BY <1>5
  <1> HIDE DEF x, Good
  <1>7. x \in Tables /\ Working(x, req, n) /\ Queues(x, req, done) /\ ChainOf(x, {})
    BY <1>6 DEF Agree
  <1>8. x.busy => x.forw # <<>>
    BY <1>7 DEF Working
  <1>9. ASSUME Cardinality(x.failed) >= N PROVE x.forw = <<>>
    <2>1. x.failed \subseteq Bufs
      BY <1>7 DEF Tables
    <2>2. x.failed = Bufs
      <3>1. /\ IsFiniteSet(x.failed) /\ Cardinality(x.failed) \in Nat
            /\ Cardinality(x.failed) <= N
        BY <1>0, <2>1, FS_Subset, FS_CardinalityType DEF N
      <3>2. Cardinality(x.failed) = Cardinality(Bufs)
        BY <1>0, <1>9, <3>1 DEF N
      <3> QED
        BY <1>0, <2>1, <3>2, FS_Subset
    <2>3. \A d \in Drives : Range(x.actf[d]) = {}
      BY <1>7, <2>2 DEF Queues
    <2>4. SUFFICES ASSUME x.forw # <<>> PROVE FALSE
      OBVIOUS
    <2>5. First(x) \in Bufs \ x.failed
      BY <1>6, <2>4, FirstRequest
    <2> QED
      BY <2>2, <2>5
  <1>10. x.busy <=> x.forw # <<>>
    BY <1>6, <1>7, <1>8, <1>9 DEF Tables
  <1> QED
    BY <1>2, <1>6, <1>10 DEF x

-----------------------------------------------------------------------------
(* What a command moves is what the request reaches.                       *)

LEMMA SizeType ==
  ASSUME NEW r \in Requests, ~NoDevice(r)
  PROVE  /\ r \in RequestType /\ Size(r) \in Nat /\ r.pd \in DOMAIN wdbtab
         /\ wdbtab[r.pd].bstart \in Nat /\ r.d \in Drives
  <1>1. r \in RequestType
    BY WdAssumption
  <1>2. r.d \in Nat /\ r.pd \in Nat /\ NDRIVES \in Nat
    BY <1>1, WdAssumption DEF RequestType
  <1>3. r.pd \in DOMAIN wdbtab
    BY <1>2, WdAssumption DEF NoDevice
  <1>4. wdbtab[r.pd].bstart \in Nat /\ wdbtab[r.pd].bcount \in Nat
    BY <1>3, WdAssumption
  <1>5. Size(r) \in Nat
    BY <1>2, <1>4, WdAssumption DEF Size
  <1>6. r.d \in Drives
    BY <1>2, WdAssumption DEF NoDevice, Drives
  <1> QED
    BY <1>1, <1>3, <1>4, <1>5, <1>6

\* The blocks of r that are in its partition and fit into a command.
LEMMA ClippedBlocks ==
  ASSUME NEW r \in Requests, ~NoDevice(r)
  PROVE  /\ Clipped(r) \in Nat
         /\ {j \in 0 .. r.count - 1 : j < MAXBLKCNT /\ r.bno + j < Size(r)}
              = 0 .. Clipped(r) - 1
  <1>1. /\ r.count \in Nat /\ r.bno \in Nat /\ Size(r) \in Nat
        /\ MAXBLKCNT \in Nat /\ MAXBLKCNT >= 1
    BY SizeType, WdAssumption DEF RequestType
  <1> DEFINE c == r.count
             s == Size(r)
             o == r.bno
             M == MAXBLKCNT
             k == Clipped(r)
  <1>2. k = IF o >= s THEN 0 ELSE Least(Least(c, M), s - o)
    BY DEF Clipped
  <1>3. c \in Nat /\ s \in Nat /\ o \in Nat /\ M \in Nat
    BY <1>1
  <1> HIDE DEF c, s, o, M, k
  <1>4. k \in Nat
    BY <1>2, <1>3 DEF Least
  <1>5. \A j \in Nat : j < k <=> j < c /\ j < M /\ o + j < s
    BY <1>2, <1>3 DEF Least
  <1>6. {j \in 0 .. c - 1 : j < M /\ o + j < s} = 0 .. k - 1
    <2>1. \A j \in 0 .. c - 1 : j < M /\ o + j < s => j \in 0 .. k - 1
      BY <1>3, <1>4, <1>5
    <2>2. \A j \in 0 .. k - 1 : j \in 0 .. c - 1 /\ j < M /\ o + j < s
      BY <1>3, <1>4, <1>5
    <2> QED
      BY <2>1, <2>2, Zenon
  <1> QED
    BY <1>4, <1>6 DEF c, s, o, M, k

LEMMA ReachOf ==
  ASSUME NEW r \in Requests, ~NoDevice(r), r.req # "FMTCMD"
  PROVE  /\ Reach(r) = {<<r.d, (r.bno + wdbtab[r.pd].bstart) + j>> :
                          j \in 0 .. Clipped(r) - 1}
         /\ Cardinality(Reach(r)) = Clipped(r)
  <1> DEFINE k == Clipped(r)
             t == wdbtab[r.pd].bstart
             a == r.bno + t
  <1>1. r.bno \in Nat /\ t \in Nat /\ k \in Nat
    BY SizeType, ClippedBlocks DEF RequestType
  <1>2. Reach(r) = {<<r.d, t + r.bno + j>> : j \in 0 .. k - 1}
    BY ClippedBlocks DEF Reach
  <1>3. a \in Nat
    BY <1>1
  <1>4. \A j \in 0 .. k - 1 : t + r.bno + j = a + j
    BY <1>1
  <1> HIDE DEF k, t, a
  <1>5. Reach(r) = {<<r.d, a + j>> : j \in 0 .. k - 1}
    BY <1>2, <1>4
  <1> DEFINE f == [j \in 0 .. k - 1 |-> <<r.d, a + j>>]
  <1>6. f \in Bijection(0 .. k - 1, Reach(r))
    <2>1. f \in [0 .. k - 1 -> Reach(r)]
      BY <1>5
    <2>2. \A i, j \in 0 .. k - 1 : f[i] = f[j] => i = j
      BY <1>1, <1>3
    <2>3. \A x \in Reach(r) : \E j \in 0 .. k - 1 : f[j] = x
      BY <1>5
    <2> QED
      BY <2>1, <2>2, <2>3 DEF Bijection, Injection, Surjection, IsInjective
  <1>7. IsFiniteSet(0 .. k - 1) /\ Cardinality(0 .. k - 1) = k
    <2>1. k - 1 \in Int /\ 0 \in Int /\ (IF 0 > k - 1 THEN 0 ELSE (k - 1) - 0 + 1) = k
      BY <1>1
    <2> QED
      BY <2>1, FS_Interval
  <1>8. Cardinality(Reach(r)) = k
    <2>1. ExistsBijection(0 .. k - 1, Reach(r))
      BY <1>6 DEF ExistsBijection
    <2> QED
      BY <1>7, <2>1, FS_Bijection
  <1> QED
    BY <1>5, <1>8 DEF k, t, a

LEMMA SameCardinality == ASSUME NEW S PROVE D!Cardinality(S) = Cardinality(S)
  BY DEF D!Cardinality, Cardinality

LEMMA SameError == D!Error = Failure
  BY DEF D!Error, Failure

\* A queued request whose command succeeds is answered rightly.
LEMMA SuccessAnswers ==
  ASSUME NEW r, NEW k, Queueable(r, k), NEW moved,
         moved = IF r.req = "FMTCMD" THEN {} ELSE Reach(r)
  PROVE  D!Answers([err |-> FALSE, moved |-> moved, resid |-> r.count - k], r)
  <1>1. /\ r \in Requests /\ ~NoDevice(r) /\ k = Clipped(r) /\ k # 0
        /\ r.raw \/ k = r.count
    BY DEF Queueable
  <1>2. r.count \in Nat /\ k \in Nat /\ r.raw \in BOOLEAN
    BY <1>1, SizeType, ClippedBlocks DEF RequestType
  <1>3. CASE r.req = "FMTCMD"
    <2>1. ~r.raw /\ k = r.count
      BY <1>1, <1>3, WdAssumption
    <2>2. Reach(r) = {} /\ CountOf(r) = 0 /\ Cardinality(Reach(r)) = 0
      BY <1>3, FS_EmptySet DEF Reach, CountOf
    <2>3. r.count - k = 0 /\ moved = {}
      BY <1>2, <1>3, <2>1
    <2>4. D!Success(r) = [err |-> FALSE, moved |-> {}, resid |-> 0]
      <3>1. D!Cardinality(Reach(r)) = 0
        BY <2>2, SameCardinality
      <3>2. CountOf(r) - D!Cardinality(Reach(r)) = 0
        BY <2>2, <3>1
      <3> QED
        BY <2>2, <3>2 DEF D!Success
    <2> QED
      BY <2>2, <2>3, <2>4, SameCardinality DEF D!Answers
  <1>4. CASE r.req # "FMTCMD"
    <2>1. Cardinality(Reach(r)) = k /\ CountOf(r) = r.count /\ moved = Reach(r)
      BY <1>1, <1>4, ReachOf DEF CountOf
    <2>2. WholeOf(r) => k = r.count
      BY <1>1 DEF WholeOf
    <2> QED
      BY <2>1, <2>2, SameCardinality DEF D!Answers, D!Success
  <1> QED
    BY <1>3, <1>4

-----------------------------------------------------------------------------
(* The invariant.                                                          *)

IInv ==
  /\ Asked(asked, clip) /\ Agree(wd, asked, clip, {}, {}) /\ wd.failed = {}
  /\ wd.busy <=> wd.forw # <<>>
  /\ \A b \in Bufs : asked[b] # NoRequest => answer[b] = Failure

LEMMA InitIInv == Init => IInv
  <1> SUFFICES ASSUME Init PROVE IInv
    OBVIOUS
  <1>1. /\ asked = [b \in Bufs |-> NoRequest] /\ clip = [b \in Bufs |-> 0]
        /\ wd = Idle
    BY DEF Init
  <1>2. Asked(asked, clip)
    BY <1>1 DEF Asked
  <1>3. /\ Idle.actf = [d \in Drives |-> <<>>] /\ Idle.active = {} /\ Idle.forw = <<>>
        /\ Idle.busy = FALSE /\ Idle.bounce = {} /\ Idle.cmd = NoCmd /\ Idle.failed = {}
    BY DEF Idle
  <1>4. Idle \in Tables
    BY DEF Idle, Tables, Cmds, NoCmd
  <1>5. Range(<<>>) = {} /\ IsInjective(<<>>)
    BY DEF Range, IsInjective
  <1>6. Queues(Idle, asked, {}) /\ ChainOf(Idle, {}) /\ Working(Idle, asked, clip)
    BY <1>1, <1>3, <1>5 DEF Queues, ChainOf, Working
  <1>7. Agree(wd, asked, clip, {}, {})
    BY <1>1, <1>3, <1>4, <1>6 DEF Agree
  <1> QED
    BY <1>1, <1>2, <1>3, <1>7 DEF IInv

\* The requests in done and those that wdstart refused are answered.
LEMMA AnswerIInv ==
  ASSUME IInv, NEW w, NEW req, NEW n, NEW done \in SUBSET Bufs, NEW a,
         Answer(w, req, done, a), clip' = n,
         req \in [Bufs -> Requests \union {NoRequest}], n \in [Bufs -> Nat],
         \A b \in Bufs \ done : req[b] # NoRequest => Queueable(req[b], n[b]),
         Agree(w, req, n, {}, done), w.busy <=> w.forw # <<>>
  PROVE  IInv'
  <1> DEFINE x == [w EXCEPT !.failed = {}]
  <1>1. /\ wd' = x
        /\ asked' = [b \in Bufs |-> IF b \in done \union w.failed THEN NoRequest
                                    ELSE req[b]]
        /\ answer' = [b \in Bufs |-> IF b \in done THEN a
                                     ELSE IF b \in w.failed \/ req[b] # NoRequest
                                     THEN Failure ELSE answer[b]]
    BY DEF Answer
  <1>2. w \in Tables
    BY DEF Agree
  <1>3. /\ x.actf = w.actf /\ x.active = w.active /\ x.forw = w.forw
        /\ x.busy = w.busy /\ x.bounce = w.bounce /\ x.cmd = w.cmd /\ x.failed = {}
    BY <1>2 DEF Tables
  <1>4. x \in Tables
    BY <1>2 DEF Tables
  <1> HIDE DEF x
  <1>5. Asked(asked', clip')
    BY <1>1 DEF Asked
  <1>6. Queues(x, asked', {})
    <2> SUFFICES ASSUME NEW d \in Drives
                 PROVE  {b \in Bufs \ (w.failed \union done) :
                           req[b] # NoRequest /\ req[b].d = d}
                        = {b \in Bufs \ ({} \union {}) :
                             asked'[b] # NoRequest /\ asked'[b].d = d}
      BY <1>3 DEF Agree, Queues
    <2> QED
      BY <1>1
  <1>7. ChainOf(x, {})
    BY <1>3 DEF Agree, ChainOf
  <1>8. Working(x, asked', clip')
    <2> SUFFICES ASSUME x.busy PROVE Working(x, asked', clip')
      BY DEF Working
    <2>1. w.forw # <<>> /\ Works(w, First(w), req[First(w)], Head(w.forw), n[First(w)])
      BY <1>3 DEF Agree, Working
    <2>2. First(w) \in Bufs \ (w.failed \union done)
      BY <2>1, FirstRequest
    <2>3. First(x) = First(w) /\ asked'[First(w)] = req[First(w)]
      BY <1>1, <1>3, <2>2 DEF First
    <2> QED
      BY <1>3, <2>1, <2>3 DEF Working, Works
  <1>9. Agree(x, asked', clip', {}, {})
    BY <1>3, <1>4, <1>6, <1>7, <1>8 DEF Agree
  <1>10. \A b \in Bufs : asked'[b] # NoRequest => answer'[b] = Failure
    BY <1>1
  <1> QED
    BY <1>1, <1>3, <1>5, <1>9, <1>10 DEF IInv

(***************************************************************************)
(* The same step, as the buffer cache sees it: the requests in new are     *)
(* made, and those in done answered rightly.                               *)
(***************************************************************************)
LEMMA AnswerDisk ==
  ASSUME IInv, NEW w, NEW req, NEW n, NEW done \in SUBSET Bufs, NEW a,
         Answer(w, req, done, a), Agree(w, req, n, {}, done),
         NEW new \in SUBSET Bufs,
         \A b \in Bufs \ new : req[b] = asked[b],
         \A b \in new : asked[b] = NoRequest /\ req[b] \in Requests,
         \A b \in done : req[b] # NoRequest /\ D!Answers(a, req[b])
  PROVE  D!Next
  <1>1. /\ asked' = [b \in Bufs |-> IF b \in done \union w.failed THEN NoRequest
                                    ELSE req[b]]
        /\ answer' = [b \in Bufs |-> IF b \in done THEN a
                                     ELSE IF b \in w.failed \/ req[b] # NoRequest
                                     THEN Failure ELSE answer[b]]
    BY DEF Answer
  <1>2. \A b \in w.failed : req[b] # NoRequest
    BY DEF Agree
  <1>3. \A b \in Bufs : D!Answers(Failure, req[b])
    BY SameError DEF D!Answers
  <1>4. \A b \in Bufs : asked[b] # NoRequest => answer[b] = Failure
    BY DEF IInv
  <1> SUFFICES ASSUME NEW b \in Bufs
               PROVE  D!Stays(b) \/ D!Made(b) \/ D!Answered(b) \/ D!AnsweredAtOnce(b)
    BY DEF D!Next
  <1>5. CASE b \in done \union w.failed
    <2>1. req[b] # NoRequest /\ asked'[b] = NoRequest /\ D!Answers(answer'[b], req[b])
      BY <1>1, <1>2, <1>3, <1>5
    <2>2. CASE b \in new
      BY <2>1, <2>2 DEF D!AnsweredAtOnce
    <2>3. CASE b \notin new
      BY <2>1, <2>3 DEF D!Answered
    <2> QED
      BY <2>2, <2>3
  <1>6. CASE b \notin done \union w.failed
    <2>1. asked'[b] = req[b]
          /\ answer'[b] = IF req[b] # NoRequest THEN Failure ELSE answer[b]
      BY <1>1, <1>6
    <2>2. CASE b \in new
      BY <2>1, <2>2, SameError, WdAssumption DEF D!Made
    <2>3. CASE b \notin new
      BY <1>4, <2>1, <2>3 DEF D!Stays
    <2> QED
      BY <2>2, <2>3
  <1> QED
    BY <1>5, <1>6

\* A new request, before it is queued.
LEMMA NewAgree ==
  ASSUME IInv, NEW b \in Bufs, NEW r \in Requests, asked[b] = NoRequest, NEW n,
         \A c \in Bufs : c # b => n[c] = clip[c]
  PROVE  Agree(wd, [asked EXCEPT ![b] = r], n, {}, {b})
  <1> DEFINE req == [asked EXCEPT ![b] = r]
  <1>1. Agree(wd, asked, clip, {}, {}) /\ wd.failed = {}
    BY DEF IInv
  <1>2. asked \in [Bufs -> Requests \union {NoRequest}]
    BY DEF IInv, Asked
  <1>3. \A c \in Bufs : c # b => req[c] = asked[c]
    BY <1>2
  <1> HIDE DEF req
  <1>4. Queues(wd, req, {b})
    <2> SUFFICES ASSUME NEW d \in Drives
                 PROVE  {c \in Bufs \ (wd.failed \union {}) :
                           asked[c] # NoRequest /\ asked[c].d = d}
                        = {c \in Bufs \ (wd.failed \union {b}) :
                             req[c] # NoRequest /\ req[c].d = d}
      BY <1>1 DEF Agree, Queues
    <2> QED
      BY <1>3
  <1>5. Working(wd, req, n)
    <2> SUFFICES ASSUME wd.busy PROVE Working(wd, req, n)
      BY DEF Working
    <2>1. wd.forw # <<>>
          /\ Works(wd, First(wd), asked[First(wd)], Head(wd.forw), clip[First(wd)])
      BY <1>1 DEF Agree, Working
    <2>2. First(wd) \in Bufs /\ asked[First(wd)] # NoRequest
      BY <1>1, <2>1, FirstRequest
    <2>3. req[First(wd)] = asked[First(wd)] /\ n[First(wd)] = clip[First(wd)]
      BY <1>3, <2>2
    <2> QED
      BY <2>1, <2>3 DEF Working
  <1> QED
    BY <1>1, <1>4, <1>5 DEF Agree, req

\* And when it is.
LEMMA QueuedAgree ==
  ASSUME IInv, NEW b \in Bufs, NEW r \in Requests, asked[b] = NoRequest, NEW n,
         \A c \in Bufs : c # b => n[c] = clip[c], r.d \in Drives, NEW req,
         req = [asked EXCEPT ![b] = r]
  PROVE  Agree([wd EXCEPT !.actf[r.d] = disksort(@, b, req)], req, n,
               {r.d} \ wd.active, {})
  <1> DEFINE d == r.d
             q == disksort(wd.actf[d], b, req)
             A == [wd.actf EXCEPT ![d] = q]
             x == [wd EXCEPT !.actf = A]
  <1>0. Agree(wd, req, n, {}, {b}) /\ wd.failed = {} /\ wd \in Tables
    BY NewAgree DEF IInv, Agree
  <1>1. wd.actf \in [Drives -> Seq(Bufs)]
    BY <1>0 DEF Tables
  <1>2. [wd EXCEPT !.actf[r.d] = disksort(@, b, req)] = x
    BY <1>0, <1>1 DEF Tables
  <1>3. wd.actf[d] \in Seq(Bufs) /\ IsInjective(wd.actf[d]) /\ b \notin Range(wd.actf[d])
    BY <1>0, <1>1 DEF Agree, Queues
  <1>4. /\ q \in Seq(Bufs) /\ IsInjective(q) /\ Range(q) = Range(wd.actf[d]) \union {b}
        /\ q # <<>> /\ (wd.actf[d] # <<>> => Head(q) = Head(wd.actf[d]))
    BY <1>3, disksortQueue
  <1> HIDE DEF q
  <1>5. A \in [Drives -> Seq(Bufs)] /\ \A e \in Drives : A[e] = IF e = d THEN q ELSE wd.actf[e]
    BY <1>1, <1>4
  <1> HIDE DEF A
  <1>6. x \in Tables
    BY <1>0, <1>5 DEF Tables
  <1>7. /\ x.actf = A /\ x.active = wd.active /\ x.forw = wd.forw /\ x.busy = wd.busy
        /\ x.bounce = wd.bounce /\ x.cmd = wd.cmd /\ x.failed = {}
    BY <1>0 DEF Tables
  <1> HIDE DEF x
  <1>8. asked \in [Bufs -> Requests \union {NoRequest}]
    BY DEF IInv, Asked
  <1>9. Queues(x, req, {})
    <2> SUFFICES ASSUME NEW e \in Drives
                 PROVE  /\ IsInjective(A[e])
                        /\ Range(A[e]) = {c \in Bufs \ ({} \union {}) :
                                            req[c] # NoRequest /\ req[c].d = e}
      BY <1>7 DEF Queues
    <2>1. /\ IsInjective(wd.actf[e])
          /\ Range(wd.actf[e]) = {c \in Bufs \ ({} \union {b}) :
                                    req[c] # NoRequest /\ req[c].d = e}
      BY <1>0 DEF Agree, Queues
    <2>2. req[b] = r /\ r # NoRequest
      BY <1>8, WdAssumption
    <2>3. CASE e = d
      BY <1>4, <1>5, <2>1, <2>2, <2>3
    <2>4. CASE e # d
      BY <1>5, <2>1, <2>2, <2>4
    <2> QED
      BY <2>3, <2>4
  <1>10. ChainOf(x, {d} \ wd.active)
    <2>1. Range(wd.forw) = wd.active /\ IsInjective(wd.forw)
          /\ wd.active = {e \in Drives : wd.actf[e] # <<>>}
      BY <1>0 DEF Agree, ChainOf
    <2>2. {e \in Drives : wd.actf[e] # <<>>}
          = {e \in Drives \ ({d} \ wd.active) : A[e] # <<>>}
      BY <1>4, <1>5, <2>1
    <2> QED
      BY <1>7, <2>1, <2>2 DEF ChainOf
  <1>11. Working(x, req, n)
    <2> SUFFICES ASSUME x.busy PROVE Working(x, req, n)
      BY DEF Working
    <2>1. wd.forw # <<>>
          /\ Works(wd, First(wd), req[First(wd)], Head(wd.forw), n[First(wd)])
      BY <1>0, <1>7 DEF Agree, Working
    <2>2. Head(wd.forw) \in Drives /\ wd.actf[Head(wd.forw)] # <<>>
      BY <1>0, <2>1, FirstRequest
    <2>3. First(x) = First(wd)
      BY <1>4, <1>5, <1>7, <2>2 DEF First
    <2> QED
      BY <1>7, <2>1, <2>3 DEF Working, Works
  <1>12. Agree(x, req, n, {d} \ wd.active, {})
    BY <1>6, <1>7, <1>9, <1>10, <1>11 DEF Agree
  <1> QED
    BY <1>2, <1>12

(***************************************************************************)
(* wdblock keeps the invariant, and does what Disk says.                   *)
(***************************************************************************)
LEMMA wdblockStep ==
  ASSUME IInv, NEW b \in Bufs, NEW r \in Requests, wdblock(b, r)
  PROVE  IInv' /\ D!Next
  <1> DEFINE req == [asked EXCEPT ![b] = r]
             nblk == IF NoDevice(r) THEN 0 ELSE Clipped(r)
             n == [clip EXCEPT ![b] = nblk]
             queued == [wd EXCEPT !.actf[r.d] = disksort(@, b, req)]
             Beyond == [err |-> FALSE, moved |-> {}, resid |-> r.count]
  <1>0. /\ asked \in [Bufs -> Requests \union {NoRequest}] /\ clip \in [Bufs -> Nat]
        /\ \A c \in Bufs : asked[c] # NoRequest => Queueable(asked[c], clip[c])
        /\ Agree(wd, asked, clip, {}, {}) /\ (wd.busy <=> wd.forw # <<>>)
    BY DEF IInv, Asked
  <1>1. asked[b] = NoRequest
    BY DEF wdblock
  <1>2. /\ \A c \in Bufs : c # b => req[c] = asked[c]
        /\ req[b] = r /\ req \in [Bufs -> Requests \union {NoRequest}]
    BY <1>0
  <1>3. nblk \in Nat
    BY ClippedBlocks
  <1>4. n \in [Bufs -> Nat] /\ n[b] = nblk /\ \A c \in Bufs : c # b => n[c] = clip[c]
    BY <1>0, <1>3
  <1>5. r # NoRequest
    BY WdAssumption
  <1>6. Agree(wd, req, clip, {}, {b})
    BY <1>1, NewAgree
  <1>7. {b} \in SUBSET Bufs /\ \A c \in Bufs \ {b} : req[c] # NoRequest =>
          Queueable(req[c], clip[c])
    BY <1>0, <1>2
  \* A request that is answered at once.
  <1>8. ASSUME NEW a, Answer(wd, req, {b}, a), clip' = clip, D!Answers(a, r)
        PROVE  IInv' /\ D!Next
    <2>1. IInv'
      BY <1>0, <1>2, <1>6, <1>7, <1>8, AnswerIInv
    <2>2. D!Next
      <3>1. /\ \A c \in Bufs \ {b} : req[c] = asked[c]
            /\ \A c \in {b} : asked[c] = NoRequest /\ req[c] \in Requests
            /\ \A c \in {b} : req[c] # NoRequest /\ D!Answers(a, req[c])
        BY <1>1, <1>2, <1>5, <1>8
      <3> HIDE DEF req
      <3> QED
        BY <1>6, <1>7, <1>8, <3>1, AnswerDisk
    <2> QED
      BY <2>1, <2>2
  <1>9. CASE Answer(wd, req, {b}, Failure) /\ clip' = clip
    <2>1. D!Answers(Failure, r)
      BY SameError DEF D!Answers
    <2> QED
      BY <1>8, <1>9, <2>1
  <1>10. CASE /\ ~NoDevice(r) /\ r.raw /\ nblk = 0
              /\ Answer(wd, req, {b}, Beyond) /\ clip' = clip
    <2>1. r.req # "FMTCMD" /\ Clipped(r) = 0
      BY <1>10, WdAssumption
    <2>2. 0 .. 0 - 1 = {}
      OBVIOUS
    <2>3. Reach(r) = {} /\ Cardinality(Reach(r)) = 0
      BY <1>10, <2>1, <2>2, ReachOf
    <2>4. r.count \in Nat /\ CountOf(r) = r.count /\ ~WholeOf(r)
      BY <1>10, <2>1, SizeType DEF RequestType, CountOf, WholeOf
    <2>5. CountOf(r) - D!Cardinality(Reach(r)) = r.count
      BY <2>3, <2>4, SameCardinality
    <2>6. D!Answers(Beyond, r)
      BY <2>3, <2>4, <2>5 DEF D!Answers, D!Success
    <2> QED
      BY <1>8, <1>10, <2>6
  <1>11. CASE /\ ~NoDevice(r) /\ nblk # 0 /\ (r.raw \/ nblk = r.count)
              /\ Answer(Started(wdustart(queued, r.d), req, n), req, {}, Failure)
              /\ clip' = n
    <2>1. r.d \in Drives
      BY <1>11, SizeType
    <2>2. Queueable(r, nblk)
      BY <1>11 DEF Queueable
    <2> DEFINE u == wdustart(queued, r.d)
               x == Started(u, req, n)
    <2>3. Agree(queued, req, n, {r.d} \ wd.active, {})
      BY <1>1, <1>4, <2>1, QueuedAgree
    <2>4. queued.active = wd.active /\ queued.failed = {}
      BY DEF IInv, Agree, Tables
    <2>5. Asked(req, n)
      BY <1>0, <1>2, <1>4, <2>2 DEF Asked
    <2> HIDE DEF req, n, queued, nblk
    <2>6. Agree(u, req, n, {}, {}) /\ u.failed = {}
      BY <2>1, <2>3, <2>4, wdustartAgree
    <2> HIDE DEF u
    <2>7. Agree(x, req, n, {}, {}) /\ (x.busy <=> x.forw # <<>>)
      BY <2>5, <2>6, StartedAgree
    <2>8. Answer(x, req, {}, Failure)
      BY <1>11 DEF u
    <2> HIDE DEF x
    <2>9. IInv'
      <3>1. \A c \in Bufs \ {} : req[c] # NoRequest => Queueable(req[c], n[c])
        BY <2>5 DEF Asked
      <3> QED
        BY <1>2, <1>4, <1>11, <2>7, <2>8, <3>1, AnswerIInv
    <2>10. D!Next
      <3> DEFINE done == {}
      <3>1. /\ \A c \in Bufs \ {b} : req[c] = asked[c]
            /\ \A c \in {b} : asked[c] = NoRequest /\ req[c] \in Requests
        BY <1>1, <1>2
      <3>2. /\ done \in SUBSET Bufs /\ Answer(x, req, done, Failure)
            /\ Agree(x, req, n, {}, done)
            /\ \A c \in done : req[c] # NoRequest /\ D!Answers(Failure, req[c])
        BY <2>7, <2>8
      <3> HIDE DEF done
      <3> QED
        BY <1>7, <3>1, <3>2, AnswerDisk
    <2> QED
      BY <2>9, <2>10
  <1> QED
    BY <1>9, <1>10, <1>11 DEF wdblock

(***************************************************************************)
(* And so does wdintr: what the controller has moved are the blocks of the *)
(* request it is taken for.                                                *)
(***************************************************************************)
LEMMA wdintrStep ==
  ASSUME IInv, NEW ok \in BOOLEAN, wdintr(ok)
  PROVE  IInv' /\ D!Next
  <1> DEFINE d == Head(wd.forw)
             b == First(wd)
             r == asked[b]
             k == clip[b]
             a == IF ok THEN [err |-> FALSE, moved |-> Moved(b), resid |-> r.count - k]
                  ELSE Failure
  <1>0. /\ Asked(asked, clip) /\ Agree(wd, asked, clip, {}, {}) /\ wd.failed = {}
        /\ wd \in Tables /\ (wd.busy <=> wd.forw # <<>>)
    BY DEF IInv, Agree
  <1>1. /\ wd.busy /\ clip' = clip
        /\ Answer(Started(wdustart(Drop(wd), d), asked, clip), asked, {b}, a)
    BY DEF wdintr, First
  <1>2. wd.forw # <<>>
    BY <1>0, <1>1
  <1>3. d \in Drives /\ b \in Bufs /\ r # NoRequest /\ r.d = d
    BY <1>0, <1>2, FirstRequest
  <1>4. Queueable(r, k) /\ r \in Requests /\ ~NoDevice(r) /\ k = Clipped(r)
    BY <1>0, <1>3 DEF Asked, Queueable
  <1>5. Works(wd, b, r, d, k)
    BY <1>0, <1>1 DEF Agree, Working
  <1>6. Moved(b) = IF r.req = "FMTCMD" THEN {} ELSE Reach(r)
    <2>1. CASE r.req = "FMTCMD"
      <3>1. wd.cmd.n = 0 /\ wd.cmd.bounce = FALSE
        BY <1>5, <2>1 DEF Works, CmdOf, NoCmd
      <3>2. 0 .. 0 - 1 = {}
        OBVIOUS
      <3> QED
        BY <2>1, <3>1, <3>2 DEF Moved
    <2>2. CASE r.req # "FMTCMD"
      <3>1. /\ wd.cmd.d = d /\ wd.cmd.addr = r.bno + wdbtab[r.pd].bstart
            /\ wd.cmd.n = k /\ wd.cmd.bounce = ~r.aligned
        BY <1>5, <2>2 DEF Works, CmdOf
      <3>2. ~ (wd.cmd.bounce /\ r.req = "BWRITE" /\ wd.bounce # {b})
        BY <1>5, <3>1 DEF Works
      <3>3. Moved(b) = {<<wd.cmd.d, wd.cmd.addr + j>> : j \in 0 .. wd.cmd.n - 1}
        BY <3>2 DEF Moved
      <3>4. Reach(r) = {<<r.d, (r.bno + wdbtab[r.pd].bstart) + j>> : j \in 0 .. k - 1}
        BY <1>4, <2>2, ReachOf
      <3> QED
        BY <1>3, <2>2, <3>1, <3>3, <3>4
    <2> QED
      BY <2>1, <2>2
  <1>7. D!Answers(a, r)
    <2>1. CASE ok
      BY <1>4, <1>6, <2>1, SuccessAnswers
    <2>2. CASE ~ok
      BY <2>2, SameError DEF D!Answers
    <2> QED
      BY <2>1, <2>2
  <1> HIDE DEF a
  \* The tables after the request has been dropped.
  <1> DEFINE y == Drop(wd)
             u == wdustart(y, d)
             x == Started(u, asked, clip)
  <1>8. Agree(y, asked, clip, {d}, {b}) /\ d \notin y.active /\ y.failed = {}
    <2> DEFINE F == wd.failed
               G == {} \union {b}
               z == [Drop(wd) EXCEPT !.failed = F]
    <2>1. z = y /\ y.failed = F
      BY <1>0 DEF Tables, Drop
    <2>2. F = wd.failed /\ G # {} /\ F \intersect G = {}
      BY <1>0
    <2>3. Agree(z, asked, clip, {d}, G) /\ d \notin z.active
      <3> HIDE DEF F
      <3> QED
        BY <1>0, <1>2, <2>2, DropAgree
    <2>4. G = {b}
      OBVIOUS
    <2> HIDE DEF z, y, F, G
    <2> QED
      BY <1>0, <2>1, <2>3, <2>4 DEF F
  <1> HIDE DEF y
  <1>9. Agree(u, asked, clip, {}, {b}) /\ u.failed = {}
    <2>1. {d} \ y.active = {d}
      BY <1>8
    <2> QED
      BY <1>3, <1>8, <2>1, wdustartAgree
  <1> HIDE DEF u
  <1>10. Agree(x, asked, clip, {}, {b}) /\ (x.busy <=> x.forw # <<>>)
    BY <1>0, <1>9, StartedAgree
  <1>11. Answer(x, asked, {b}, a)
    BY <1>1 DEF u, y
  <1> HIDE DEF x, d
  <1>12. {b} \in SUBSET Bufs
    BY <1>3
  <1>13. IInv'
    <2>1. \A c \in Bufs \ {b} : asked[c] # NoRequest => Queueable(asked[c], clip[c])
      BY <1>0 DEF Asked
    <2>2. asked \in [Bufs -> Requests \union {NoRequest}] /\ clip \in [Bufs -> Nat]
      BY <1>0 DEF Asked
    <2> QED
      BY <1>1, <1>10, <1>11, <1>12, <2>1, <2>2, AnswerIInv
  <1>14. D!Next
    <2> DEFINE new == {}
               req == asked
    <2>1. /\ new \in SUBSET Bufs /\ \A c \in Bufs \ new : req[c] = asked[c]
          /\ \A c \in new : asked[c] = NoRequest /\ req[c] \in Requests
      OBVIOUS
    <2>2. \A c \in {b} : req[c] # NoRequest /\ D!Answers(a, req[c])
      BY <1>3, <1>7
    <2>3. Answer(x, req, {b}, a) /\ Agree(x, req, clip, {}, {b})
      BY <1>10, <1>11
    <2> HIDE DEF new, req
    <2> QED
      BY <1>12, <2>1, <2>2, <2>3, AnswerDisk
  <1> QED
    BY <1>13, <1>14

LEMMA NextStep ==
  ASSUME IInv, [Next]_vars
  PROVE  IInv' /\ [D!Next]_<<asked, answer>>
  <1>1. CASE UNCHANGED vars
    BY <1>1 DEF vars, IInv
  <1>2. CASE rest
    BY <1>2 DEF rest, vars, IInv
  <1>3. CASE \E b \in Bufs, r \in Requests : wdblock(b, r)
    BY <1>3, wdblockStep
  <1>4. CASE wdintr(TRUE) \/ wdintr(FALSE)
    BY <1>4, wdintrStep
  <1> QED
    BY <1>1, <1>2, <1>3, <1>4 DEF Next

(***************************************************************************)
(* The invariant holds in every reachable state: the requests in the       *)
(* queues are those wdblock lets through, the command block describes the  *)
(* request at the head, and the aligned block has its data (wdblock,       *)
(* wdstart, wdintr).                                                       *)
(***************************************************************************)
THEOREM WdInvariant == Spec => []IInv
  BY InitIInv, NextStep, PTL DEF Spec

(***************************************************************************)
(* The queues of the drives, the chain of the controller and its state     *)
(* agree after every request and interrupt, whatever wdstart refuses.      *)
(***************************************************************************)
THEOREM WdQueuesAgree == Spec => []QueuesAgree
  <1>1. IInv => QueuesAgree
    <2> SUFFICES ASSUME IInv PROVE QueuesAgree
      OBVIOUS
    <2>1. \A d \in Drives : /\ IsInjective(wd.actf[d])
                            /\ Range(wd.actf[d]) = {b \in Bufs \ ({} \union {}) :
                                 asked[b] # NoRequest /\ asked[b].d = d}
      BY DEF IInv, Agree, Queues
    <2>2. /\ Range(wd.forw) = wd.active /\ IsInjective(wd.forw)
          /\ wd.active = {d \in Drives \ {} : wd.actf[d] # <<>>}
      BY DEF IInv, Agree, ChainOf
    <2>3. wd.busy <=> wd.forw # <<>>
      BY DEF IInv
    <2> QED
      BY <2>1, <2>2, <2>3 DEF QueuesAgree
  <1> QED
    BY <1>1, WdInvariant, PTL

(***************************************************************************)
(* The driver implements Disk: every request is answered once, by an error *)
(* or by the transfer of exactly the blocks it reaches, in any order, for  *)
(* any partitions, counts and alignments (wdblock, wdintr).                *)
(***************************************************************************)
THEOREM WdImplementsDisk == Spec => ImplementsDisk
  <1>1. Init => D!Init
    BY SameError DEF Init, D!Init
  <1>2. IInv /\ [Next]_vars => [D!Next]_<<asked, answer>>
    BY NextStep
  <1> QED
    BY <1>1, <1>2, WdInvariant, PTL DEF Spec, ImplementsDisk, D!Spec

=============================================================================
