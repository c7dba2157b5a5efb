-------------------------------- MODULE Seg ---------------------------------
(***************************************************************************)
(* Segments and the swapper (kernel/coh/seg.c, kernel/ker/swap.c): the     *)
(* queues of segments in memory and on the swap device, fork, exit, growth,*)
(* raw transfers, compaction, and the swapper, which moves the segments of *)
(* processes that do not run.                                              *)
(*                                                                         *)
(* The kernel is not preemptive: from one sleep to the next a process is   *)
(* alone (cpu).  It sleeps in swapio, in a raw transfer, in segfinm and for*)
(* pnxgate, which the swapper keeps while it writes; seglink is never kept *)
(* in a sleep and is left out.  A process has three segments: the user     *)
(* area, a shared text and private data, which alone grows.  Their contents*)
(* are left out: what a segment holds is where it is.  Which processes the *)
(* swapper prefers (p_sval, p_ival), and the order of the chain, are       *)
(* choices; testcore never refuses (its last gap wraps around), and PFAUXM *)
(* is set by nobody, so that auxmdisk is not called.  exec is left out.    *)
(***************************************************************************)
EXTENDS Integers, Sequences, FiniteSets, SequencesExt

CONSTANTS
  Procs,
  Swapper, None,
  NSEG,        \* how many SEG structures kalloc has room for
  coretop,     \* clicks of memory; corebot is 0
  swaptop,     \* clicks of the swap device; swapbot is 0
  MaxSize,     \* bound: clicks of a data segment
  MaxCalls,    \* bound: system calls made
  Starts,      \* where the segments of the first process may be
  MSSIZE       \* clicks a hardware segment maps

ASSUME SegAssumption ==
  /\ IsFiniteSet(Procs) /\ Swapper \notin Procs /\ None \notin Procs \union {Swapper}
  /\ {NSEG, coretop, swaptop, MaxSize, MSSIZE} \subseteq Nat
  /\ MaxCalls \in Nat
  /\ NSEG >= 3 /\ MaxSize >= 1
  /\ \A at \in Starts, i \in 1 .. 3 : at[i].base + at[i].size <= coretop

NUSEG == 3
SIUSERP == 1
SIPDATA == 3
SIAUXIL == NUSEG + 1
Slots == 1 .. NUSEG + 1

NoSeg == 0
segswap == NSEG + 1      \* the structure reserved for the swapper
Segs == 1 .. NSEG + 1

VARIABLES
  m,       \* the SEG structures (m.seg) and the queues segmq, segdq (m.mq, m.dq)
  segp,    \* p_segp of each process
  flags,   \* p_flags
  hw,      \* where the segmentation registers of each process point
  pc, arg, \* what each process does, and a slot, a size or an address for it
  child,   \* the process it forks
  req,     \* the swapio calls in progress
  swapbuf, \* who has the gate of swapbuf
  pnxgate, \* whether the swapper has it
  sw,      \* the swapper
  cpu,     \* who is in the kernel and has not slept yet
  panic,   \* nothing happens any more
  calls    \* how many system calls have been made, for the bound

vars == <<m, segp, flags, hw, pc, arg, child, req, swapbuf, pnxgate, sw, cpu, panic, calls>>
procs == <<segp, flags, hw, pc, arg, child>>
swapper == <<pnxgate, sw>>

Unused == [size |-> 0, base |-> 0, core |-> FALSE, shrx |-> FALSE, down |-> FALSE,
           urefc |-> 0, lrefc |-> 0]
NoReq == [st |-> "no", ms |-> NoSeg, mem |-> 0, ds |-> NoSeg, disk |-> 0, n |-> 0]
AtRest == [pc |-> "sleep", pp2 |-> None, pp |-> None, i |-> 0, f |-> FALSE, n |-> 0,
           left |-> {}, from |-> "no"]

\* One process, with a segment of each kind in memory, where those before it
\* have left room.
Init ==
  \E p \in Procs, at \in Starts, down \in BOOLEAN :
    LET made(i) == [Unused EXCEPT !.size = at[i].size, !.base = at[i].base, !.core = TRUE,
                      !.shrx = (i = 2), !.down = (down /\ i = SIPDATA),
                      !.urefc = 1, !.lrefc = 1]
    IN  /\ m = [seg |-> [s \in Segs |-> IF s <= NUSEG THEN made(s) ELSE Unused],
                mq |-> SortSeq(<<1, 2, 3>>, LAMBDA s, t : at[s].base < at[t].base),
                dq |-> <<>>]
        /\ segp = [q \in Procs |-> [i \in Slots |->
                     IF q = p /\ i <= NUSEG THEN i ELSE NoSeg]]
        /\ flags = [q \in Procs |-> IF q = p THEN {"PFCORE"} ELSE {}]
        /\ hw = [q \in Procs |-> [i \in 2 .. NUSEG |-> IF q = p THEN at[i].base ELSE 0]]
        /\ pc = [q \in Procs |-> IF q = p THEN "user" ELSE "off"]
        /\ arg = [q \in Procs |-> 0] /\ child = [q \in Procs |-> None]
        /\ req = [x \in Procs \union {Swapper} |-> NoReq]
        /\ swapbuf = None /\ pnxgate = FALSE /\ sw = AtRest /\ cpu = None
        /\ panic = FALSE /\ calls = 0

-----------------------------------------------------------------------------
(* The queues.                                                             *)

End(x, s) == x.seg[s].base + x.seg[s].size

\* The holes of a queue: the one before its k-th segment, or after the last.
Lo(x, q, k) == IF k = 1 THEN 0 ELSE End(x, q[k - 1])
Hi(x, q, k, top) == IF k = Len(q) + 1 THEN top ELSE x.seg[q[k]].base
Fits(x, q, top, s) == {k \in 1 .. Len(q) + 1 : Hi(x, q, k, top) - Lo(x, q, k) >= s}
Lowest(S) == CHOOSE k \in S : \A j \in S : k <= j
Highest(S) == CHOOSE k \in S : \A j \in S : k >= j

\* The structures kalloc may still give.
Free(x) == {s \in 1 .. NSEG : x.seg[s].urefc = 0}

\* s becomes a segment of n clicks at b, before the k-th of its queue.
InMemory(x, s, k, n, b) ==
  [x EXCEPT !.seg[s] = [Unused EXCEPT !.size = n, !.base = b, !.urefc = 1, !.lrefc = 1],
            !.mq = InsertAt(@, k, s)]
OnDisk(x, s, k, n, b) ==
  [x EXCEPT !.seg[s] = [Unused EXCEPT !.size = n, !.base = b, !.urefc = 1, !.lrefc = 1],
            !.dq = InsertAt(@, k, s)]

(***************************************************************************)
(* smalloc, shalloc, sdalloc, xmalloc and xdalloc: the queues with a new   *)
(* segment of n clicks in the first hole (shalloc and xdalloc: at the end  *)
(* of the last) that has room; the empty set if there is none.  The new    *)
(* segment is s.                                                           *)
(***************************************************************************)
smalloc(x, s, n) ==
  LET S == Fits(x, x.mq, coretop, n)
  IN  IF S = {} THEN {} ELSE {InMemory(x, s, Lowest(S), n, Lo(x, x.mq, Lowest(S)))}

shalloc(x, s, n) ==
  LET S == Fits(x, x.mq, coretop, n)
      k == Highest(S)
  IN  IF S = {} THEN {} ELSE {InMemory(x, s, k, n, Hi(x, x.mq, k, coretop) - n)}

sdalloc(x, s, n) ==
  LET S == Fits(x, x.dq, swaptop, n)
  IN  IF S = {} THEN {} ELSE {OnDisk(x, s, Lowest(S), n, Lo(x, x.dq, Lowest(S)))}

xmalloc(x, n) == smalloc(x, segswap, n)

xdalloc(x, n) ==
  LET S == Fits(x, x.dq, swaptop, n)
  IN  IF S = {} THEN {}
      ELSE {OnDisk(x, segswap, Highest(S), n, Hi(x, x.dq, Highest(S), swaptop) - n)}

\* A user area (SFHIGH) is put at the high end of memory.
sxalloc(x, s, n, i) == IF i = SIUSERP THEN shalloc(x, s, n) ELSE smalloc(x, s, n)

\* sxalloc, for slot i, and sdalloc with the structure that kalloc gives, if it
\* has one.
NewCore(x, n, i) == IF Free(x) = {} THEN {} ELSE sxalloc(x, Lowest(Free(x)), n, i)
NewDisk(x, n) == IF Free(x) = {} THEN {} ELSE sdalloc(x, Lowest(Free(x)), n)

\* s takes the place of t in t's queue, and t is released: satcopy, and the
\* end of segcore and segdisk.
Without(q, s) == SelectSeq(q, LAMBDA r : r # s)
Place(q, s, t) == [k \in DOMAIN q |-> IF q[k] = t THEN s ELSE q[k]]

satcopy(x, s, t, core) ==
  [seg |-> [x.seg EXCEPT ![s].size = x.seg[t].size, ![s].base = x.seg[t].base,
                         ![s].core = core, ![t] = Unused],
   mq |-> Place(Without(x.mq, s), s, t),
   dq |-> Place(Without(x.dq, s), s, t)]

\* sfree: one reference less; the last one unlinks the segment.
sfree(x, s) ==
  LET y == [x EXCEPT !.seg[s].urefc = @ - 1, !.seg[s].lrefc = @ - 1]
  IN  IF y.seg[s].urefc # 0 THEN y
      ELSE [seg |-> [y.seg EXCEPT ![s] = Unused],
            mq |-> Without(y.mq, s), dq |-> Without(y.dq, s)]

\* Mutant: the lock is forgotten.
NotLocked(x, s) == x

\* s is held for I/O.
Locked(x, s) == [x EXCEPT !.seg[s].lrefc = @ + 1]

-----------------------------------------------------------------------------
(* Compaction.                                                             *)

\* The slots of processes that hold s.
Holds(s) == {h \in Procs \X Slots : pc[h[1]] # "off" /\ segp[h[1]][h[2]] = s}

\* segmove: whether s may be moved to b.
segmove(x, s, b, self) ==
  /\ x.seg[s].core
  /\ x.seg[s].down => b + x.seg[s].size >= MSSIZE
  /\ \A h \in Holds(s) : "PFSWIO" \notin flags[h[1]] /\ h # <<self, SIUSERP>>
  /\ Holds(s) # {} /\ Cardinality(Holds(s)) = x.seg[s].urefc
  /\ Cardinality({h \in Holds(s) : "PFSWAP" \notin flags[h[1]]}) = x.seg[s].lrefc

(***************************************************************************)
(* segpack: when there is room for n clicks but not in one hole, every     *)
(* segment that may be moved slides down; moved is the set of those.  The  *)
(* processes that hold one must calculate their segmentation again.        *)
(***************************************************************************)
segpack(x, n, self) ==
  LET used == FoldLeft(LAMBDA t, s : t + x.seg[s].size, 0, x.mq)
      slide(a, s) ==
        IF a.x.seg[s].base > a.top /\ segmove(a.x, s, a.top, self)
        THEN [x |-> [a.x EXCEPT !.seg[s].base = a.top], moved |-> a.moved \union {s},
              top |-> a.top + a.x.seg[s].size]
        ELSE [a EXCEPT !.top = End(a.x, s)]
      none == [x |-> x, moved |-> {}, top |-> 0]
  IN  IF Fits(x, x.mq, coretop, n) = {} /\ coretop - used >= n
      THEN FoldLeft(slide, none, x.mq) ELSE none

\* The processes that must calculate their segmentation again (segmove marks
\* them also for a segment that it then leaves, to no effect).
Marked(moved, self) ==
  [q \in Procs |->
     IF q # self /\ \E s \in moved, i \in Slots : <<q, i>> \in Holds(s)
     THEN flags[q] \union {"PFSPROTO"} ELSE flags[q]]

\* sproto: the segmentation registers of p.
sproto(x, p) ==
  [i \in 2 .. NUSEG |-> IF segp[p][i] = NoSeg THEN 0 ELSE x.seg[segp[p][i]].base]

-----------------------------------------------------------------------------
(* Running and swapio.                                                     *)

\* dispatch may choose p; segload is done before p goes on.
Ready(p) == cpu = None /\ "PFCORE" \in flags[p] /\ "PFSPROTO" \notin flags[p]
Goes(p) == cpu = p \/ Ready(p)

\* What p does next, and who has the processor then.
Then(p, where, a, who) ==
  /\ pc' = [pc EXCEPT ![p] = where] /\ arg' = [arg EXCEPT ![p] = a] /\ cpu' = who

segload(p) ==
  /\ cpu = None /\ pc[p] \notin {"off", "making"}
  /\ {"PFCORE", "PFSPROTO"} \subseteq flags[p]
  /\ flags' = [flags EXCEPT ![p] = @ \ {"PFSPROTO"}]
  /\ hw' = [hw EXCEPT ![p] = sproto(m, p)]
  /\ UNCHANGED <<m, segp, pc, arg, child, req, swapbuf, swapper, cpu, panic>>

\* The transfer of n clicks between the segments ms and ds of x.
Transfer(x, ms, ds, n) ==
  [st |-> "wait", ms |-> ms, mem |-> x.seg[ms].base, ds |-> ds,
   disk |-> x.seg[ds].base, n |-> n]

\* swapio up to its sleep: for the gate of swapbuf, or for the transfer.
swapio(x, t) ==
  /\ req' = [req EXCEPT ![x] = [t EXCEPT !.st = IF swapbuf = None THEN "busy" ELSE @]]
  /\ swapbuf' = IF swapbuf = None THEN x ELSE swapbuf

\* p_flags of p after this.
SwapFlags(f, p) ==
  IF swapbuf = None THEN [f EXCEPT ![p] = @ \union {"PFSWIO"}] ELSE f

\* The gate of swapbuf is free for x.
swapioLock(x) ==
  /\ req[x].st = "wait" /\ swapbuf = None
  /\ IF x = Swapper THEN cpu = None ELSE Ready(x)
  /\ swapio(x, req[x])
  /\ flags' = IF x = Swapper THEN flags ELSE SwapFlags(flags, x)
  /\ UNCHANGED <<m, segp, hw, pc, arg, child, swapper, cpu, panic>>

\* The driver ends the transfer (panic("Swapio error") is left out).
swapioDone(x) ==
  /\ req[x].st = "busy"
  /\ req' = [req EXCEPT ![x].st = "done"]
  /\ UNCHANGED <<m, procs, swapbuf, swapper, cpu, panic>>

\* The end of swapio.
Release(x) ==
  /\ req[x].st = "done"
  /\ req' = [req EXCEPT ![x] = NoReq] /\ swapbuf' = None

\* Who has the processor when p has come to lock(pnxgate), in segpack or relproc.
AtGate(p) == IF pnxgate THEN None ELSE p

-----------------------------------------------------------------------------
(* fork and exit.                                                          *)

\* pfork and segadup: the structure of the child is made (process).
pfork(p, c) ==
  /\ Ready(p) /\ pc[p] = "user" /\ pc[c] = "off" /\ ~pnxgate
  /\ pc' = [pc EXCEPT ![p] = "dup", ![c] = "making"]
  /\ arg' = [arg EXCEPT ![p] = 1] /\ child' = [child EXCEPT ![p] = c]
  /\ flags' = [flags EXCEPT ![c] = {"PFCORE", "PFSWIO"}]
  /\ cpu' = p
  /\ UNCHANGED <<m, segp, hw, req, swapbuf, swapper, panic>>

\* The child gets s, in memory or not, and the next segment is looked at.
Given(p, s, core, fl) ==
  /\ segp' = [segp EXCEPT ![child[p]][arg[p]] = s]
  /\ flags' = IF core THEN fl ELSE [fl EXCEPT ![child[p]] = @ \ {"PFCORE"}]
  /\ Then(p, "dup", arg[p] + 1, p)

\* A copy of s in memory: x with the structure t for it.
Copied(x, s, t) ==
  [x EXCEPT !.seg[t].core = TRUE, !.seg[t].down = x.seg[s].down]

\* segdupl: a shared segment is used by one more, another one is copied.
segdupl(p) ==
  LET s == segp[p][arg[p]]
      t == Lowest(Free(m))
  IN  /\ cpu = p /\ pc[p] = "dup" /\ arg[p] <= NUSEG
      /\ panic' = (~m.seg[s].shrx /\ ~m.seg[s].core)
      /\ \/ /\ m.seg[s].shrx
            /\ m' = [m EXCEPT !.seg[s].urefc = @ + 1, !.seg[s].lrefc = @ + 1]
            /\ Given(p, s, m.seg[s].core, flags)
         \/ /\ ~m.seg[s].shrx
            /\ \E x \in NewCore(m, m.seg[s].size, arg[p]) :
                 m' = Copied(x, s, t) /\ Given(p, t, TRUE, flags)
         \/ /\ ~m.seg[s].shrx /\ NewCore(m, m.seg[s].size, arg[p]) = {}
            /\ Then(p, "duppack", arg[p], AtGate(p))
            /\ UNCHANGED <<m, segp, flags>>
      /\ UNCHANGED <<hw, child, req, swapbuf, swapper>>

(***************************************************************************)
(* salloc after segpack, and segdupd: the copy is made in memory, or it is *)
(* written to the disk, or there is no room for it.                        *)
(***************************************************************************)
segdupd(p) ==
  LET s == segp[p][arg[p]]
      n == m.seg[s].size
      r == segpack(m, n, p)
      core == IF r.moved = {} THEN {} ELSE NewCore(r.x, n, arg[p])
      disk == NewDisk(r.x, n)
      t == Lowest(Free(m))
  IN  /\ Goes(p) /\ pc[p] = "duppack" /\ ~pnxgate
      /\ hw' = IF r.moved = {} THEN hw ELSE [hw EXCEPT ![p] = sproto(r.x, p)]
      /\ \/ /\ \E x \in core :
                 m' = Copied(x, s, t) /\ Given(p, t, TRUE, Marked(r.moved, p))
            /\ UNCHANGED <<req, swapbuf>>
         \/ /\ core = {}
            /\ \E x \in disk :
                 /\ m' = Locked(x, s)
                 /\ swapio(p, Transfer(x, s, t, n))
            /\ flags' = SwapFlags(Marked(r.moved, p), p)
            /\ Then(p, "dupio", arg[p], None)
            /\ UNCHANGED segp
         \/ /\ core = {} /\ disk = {}
            /\ m' = r.x /\ flags' = Marked(r.moved, p)
            /\ Then(p, "undo", arg[p], p)
            /\ UNCHANGED <<segp, req, swapbuf>>
      /\ UNCHANGED <<child, swapper, panic>>

\* The end of segdupd.
segdupdEnd(p) ==
  LET s == req[p].ms
      t == req[p].ds
  IN  /\ Ready(p) /\ pc[p] = "dupio" /\ Release(p)
      /\ m' = [m EXCEPT !.seg[s].lrefc = @ - 1, !.seg[t].down = m.seg[s].down]
      /\ Given(p, t, FALSE, [flags EXCEPT ![p] = @ \ {"PFSWIO"}])
      /\ UNCHANGED <<hw, child, swapper, panic>>

\* The child is made runnable, and p returns.
Forked(p) ==
  /\ pc' = [pc EXCEPT ![p] = "user", ![child[p]] = "user"]
  /\ arg' = [arg EXCEPT ![p] = 0] /\ child' = [child EXCEPT ![p] = None]
  /\ cpu' = None

\* segfinm: p asks for s in memory, and sleeps.
segfinm(p, s, where) ==
  /\ segp' = [segp EXCEPT ![p][SIAUXIL] = s]
  /\ Then(p, where, 0, None)

\* The end of segadup, and pfork: the child's user area must be in memory.
segadup(p) ==
  LET c == child[p]
      u == segp[c][SIUSERP]
      made == [flags EXCEPT ![c] = @ \ {"PFSWIO"}]
  IN  /\ cpu = p /\ pc[p] = "dup" /\ arg[p] = NUSEG + 1
      /\ \/ /\ m.seg[u].core
            /\ flags' = [made EXCEPT ![c] = @ \union {"PFSPROTO"}]
            /\ Forked(p) /\ UNCHANGED segp
         \/ /\ ~m.seg[u].core
            /\ flags' = [made EXCEPT ![p] = @ \ {"PFCORE"}]
            /\ segfinm(p, u, "forkfin") /\ UNCHANGED child
      /\ UNCHANGED <<m, hw, req, swapbuf, swapper, panic>>

\* pfork goes on: the context is copied into the child's user area.
forkfin(p) ==
  /\ Ready(p) /\ pc[p] = "forkfin"
  /\ segp' = [segp EXCEPT ![p][SIAUXIL] = NoSeg]
  /\ flags' = [flags EXCEPT ![child[p]] = @ \union {"PFSPROTO"}]
  /\ Forked(p)
  /\ UNCHANGED <<m, hw, req, swapbuf, swapper, panic>>

\* Mutant: the last one is not reached.
FreeAllButOne(x, p) ==
  FoldLeft(LAMBDA y, s : IF s = NoSeg THEN y ELSE sfree(y, s), x,
           Reverse(Tail(segp[p])))

\* sfree of every segment of p, and panic("Bad segment count") in it.
FreeAll(x, p) ==
  FoldLeft(LAMBDA y, s : IF s = NoSeg THEN y ELSE sfree(y, s), x, Reverse(segp[p]))
BadCount(p) ==
  \E i \in 1 .. NUSEG : LET s == segp[p][i]
                       IN  s # NoSeg /\ m.seg[s].urefc = 1 /\ m.seg[s].lrefc # 1

\* segadup gives back what it has copied.
undo(p) ==
  LET c == child[p]
  IN  /\ cpu = p /\ pc[p] = "undo"
      /\ panic' = BadCount(c) /\ m' = IF BadCount(c) THEN m ELSE FreeAll(m, c)
      /\ segp' = [segp EXCEPT ![c] = [i \in Slots |-> NoSeg]]
      /\ flags' = [flags EXCEPT ![c] = @ \ {"PFSWIO"}]
      /\ Then(p, "rel", 0, AtGate(p))
      /\ UNCHANGED <<hw, child, req, swapbuf, swapper>>

\* relproc.
relproc(p) ==
  /\ Goes(p) /\ pc[p] = "rel" /\ ~pnxgate
  /\ pc' = [pc EXCEPT ![p] = "user", ![child[p]] = "off"]
  /\ flags' = [flags EXCEPT ![child[p]] = {}]
  /\ child' = [child EXCEPT ![p] = None]
  /\ cpu' = None
  /\ UNCHANGED <<m, segp, hw, arg, req, swapbuf, swapper, panic>>

\* pexit releases the segments, the last one first; somebody is left to run.
pexit(p) ==
  /\ Ready(p) /\ pc[p] = "user"
  /\ \E q \in Procs \ {p} : pc[q] \notin {"off", "making"}
  /\ panic' = BadCount(p) /\ m' = IF BadCount(p) THEN m ELSE FreeAll(m, p)
  /\ segp' = [segp EXCEPT ![p] = [i \in Slots |-> NoSeg]]
  /\ flags' = [flags EXCEPT ![p] = {}]
  /\ hw' = [hw EXCEPT ![p] = [j \in 2 .. NUSEG |-> 0]]
  /\ Then(p, "off", 0, None)
  /\ UNCHANGED <<child, req, swapbuf, swapper>>

-----------------------------------------------------------------------------
(* Growth and raw transfers.                                               *)

\* The segmentation of p after segsize.
Resized(p) == hw' = [hw EXCEPT ![p] = sproto(m', p)]

\* Mutant: a segment that grows into the hole before it is not moved down.
InPlaceStays(s, n) ==
  LET k == CHOOSE j \in DOMAIN m.mq : m.mq[j] = s
      pb == Lo(m, m.mq, k)
      nb == Hi(m, m.mq, k + 1, coretop)
      b == m.seg[s].base
      e == End(m, s)
  IN  IF ~m.seg[s].down
      THEN IF n <= m.seg[s].size \/ nb - b >= n THEN {b}
           ELSE IF nb - pb >= n THEN {b} ELSE {}
      ELSE IF n <= m.seg[s].size \/ e - pb >= n THEN {e - n}
           ELSE IF nb - pb >= n THEN {nb - n} ELSE {}

(***************************************************************************)
(* seggrow without another segment: s gets smaller, or there is room for n *)
(* clicks around it.  The possible new bases.                              *)
(***************************************************************************)
InPlace(s, n) ==
  LET k == CHOOSE j \in DOMAIN m.mq : m.mq[j] = s
      pb == Lo(m, m.mq, k)
      nb == Hi(m, m.mq, k + 1, coretop)
      b == m.seg[s].base
      e == End(m, s)
  IN  IF ~m.seg[s].down
      THEN IF n <= m.seg[s].size \/ nb - b >= n THEN {b}
           ELSE IF nb - pb >= n THEN {pb} ELSE {}
      ELSE IF n <= m.seg[s].size \/ e - pb >= n THEN {e - n}
           ELSE IF nb - pb >= n THEN {nb - n} ELSE {}

\* seggrow, up to the wait for pnxgate.
seggrow(p, n) ==
  LET s == segp[p][SIPDATA]
      t == Lowest(Free(m))
  IN  /\ Ready(p) /\ pc[p] = "user" /\ n # m.seg[s].size
      /\ \/ /\ \E b \in InPlace(s, n) :
                 m' = [m EXCEPT !.seg[s].base = b, !.seg[s].size = n]
            /\ Resized(p) /\ UNCHANGED <<pc, arg, cpu>>
         \/ /\ InPlace(s, n) = {}
            /\ \E x \in NewCore(m, n, SIPDATA) : m' = satcopy(x, s, t, TRUE)
            /\ Resized(p) /\ UNCHANGED <<pc, arg, cpu>>
         \/ /\ InPlace(s, n) = {} /\ NewCore(m, n, SIPDATA) = {}
            /\ Then(p, "growpack", n, AtGate(p))
            /\ UNCHANGED <<m, hw>>
      /\ UNCHANGED <<segp, flags, child, req, swapbuf, swapper, panic>>

(***************************************************************************)
(* seggrow after segpack: the segment is copied, or swapped out to be      *)
(* swapped in with its new size (segsext), or cannot grow.                 *)
(***************************************************************************)
segsext(p) ==
  LET s == segp[p][SIPDATA]
      n == arg[p]
      r == segpack(m, n, p)
      core == IF r.moved = {} THEN {} ELSE NewCore(r.x, n, SIPDATA)
      disk == NewDisk(r.x, n)
      t == Lowest(Free(m))
  IN  /\ Goes(p) /\ pc[p] = "growpack" /\ ~pnxgate
      /\ \/ /\ \E x \in core : m' = satcopy(x, s, t, TRUE)
            /\ flags' = Marked(r.moved, p)
            /\ Resized(p)
            /\ Then(p, "user", 0, None)
            /\ UNCHANGED <<req, swapbuf>>
         \/ /\ core = {}
            /\ \E x \in disk :
                 /\ m' = Locked(x, s)
                 /\ swapio(p, Transfer(x, s, t, m.seg[s].size))
            /\ flags' = SwapFlags(Marked(r.moved, p), p)
            /\ Resized(p)
            /\ Then(p, "growio", 0, None)
         \/ /\ core = {} /\ disk = {}
            /\ m' = r.x /\ flags' = Marked(r.moved, p)
            /\ Resized(p)
            /\ Then(p, "user", 0, None)
            /\ UNCHANGED <<req, swapbuf>>
      /\ UNCHANGED <<segp, child, swapper, panic>>

\* The end of segsext: the segment is on the disk, and forced into memory.
segsextEnd(p) ==
  LET s == req[p].ms
      x == satcopy(m, s, req[p].ds, FALSE)
  IN  /\ Ready(p) /\ pc[p] = "growio" /\ Release(p)
      /\ m' = [x EXCEPT !.seg[s].lrefc = @ - 1]
      /\ flags' = [flags EXCEPT ![p] = @ \ {"PFSWIO", "PFCORE"}]
      /\ segfinm(p, s, "growfin")
      /\ UNCHANGED <<hw, child, swapper, panic>>

\* segsext returns, and segsize ends.
growfin(p) ==
  /\ Ready(p) /\ pc[p] = "growfin"
  /\ segp' = [segp EXCEPT ![p][SIAUXIL] = NoSeg]
  /\ hw' = [hw EXCEPT ![p] = sproto(m, p)]
  /\ Then(p, "user", 0, None)
  /\ UNCHANGED <<m, flags, child, req, swapbuf, swapper, panic>>

\* ioreq: a raw transfer to or from the data, at an address in memory.
ioreq(p) ==
  LET s == segp[p][SIPDATA]
  IN  /\ Ready(p) /\ pc[p] = "user"
      /\ m' = Locked(m, s)
      /\ Then(p, "raw", m.seg[s].base, None)
      /\ UNCHANGED <<segp, flags, hw, child, req, swapbuf, swapper, panic>>

\* bdone for it.
bdone(p) ==
  /\ pc[p] = "raw"
  /\ pc' = [pc EXCEPT ![p] = "rawdone"]
  /\ UNCHANGED <<m, segp, flags, hw, arg, child, req, swapbuf, swapper, cpu, panic>>

ioreqEnd(p) ==
  LET s == segp[p][SIPDATA]
  IN  /\ Ready(p) /\ pc[p] = "rawdone"
      /\ m' = [m EXCEPT !.seg[s].lrefc = @ - 1]
      /\ Then(p, "user", 0, None)
      /\ UNCHANGED <<segp, flags, hw, child, req, swapbuf, swapper, panic>>

-----------------------------------------------------------------------------
(* The swapper.                                                            *)

\* The processes on the chain, and those in state PSRUN.
Chain == {p \in Procs : pc[p] # "off"}
Runnable(p) ==
  \/ pc[p] \in {"making", "user", "forkfin", "growfin", "rawdone"}
  \/ req[p].st = "done" \/ (req[p].st = "wait" /\ swapbuf = None)
  \/ pc[p] \in {"duppack", "growpack", "rel"} /\ ~pnxgate

\* proccore and procdisk of p are called.
CallCore(w, p, fl) ==
  [w EXCEPT !.pc = "core", !.pp2 = p, !.i = 1, !.f = "PFSWAP" \in fl[p]]
CallDisk(w, p, from) ==
  [w EXCEPT !.pc = "disk", !.pp = p, !.i = 1, !.n = 0, !.f = "PFSWAP" \in flags[p],
            !.from = from]

\* swap: a process that could run is not in memory.
swap(p) ==
  /\ cpu = None /\ sw.pc = "sleep"
  /\ p \in Chain /\ "PFCORE" \notin flags[p] /\ Runnable(p)
  /\ sw' = CallCore(AtRest, p, flags)
  /\ cpu' = Swapper
  /\ UNCHANGED <<m, procs, req, swapbuf, pnxgate, panic>>

\* Mutant: the old segmentation is kept.
BackAsBefore(f) == (f \ {"PFSWAP"}) \union {"PFCORE"}

\* p_flags of a process whose segments are all in memory again.
Back(f) == (f \ {"PFSWAP"}) \union {"PFCORE", "PFSPROTO"}

\* s_lrefc of the segments in the slots i .. j of p changes by d.
Bump(p, i, j, d) ==
  [m EXCEPT !.seg = [s \in Segs |->
     [@[s] EXCEPT !.lrefc = @ + d * Cardinality({k \in i .. j : segp[p][k] = s})]]]

(***************************************************************************)
(* proccore of pp2 goes on, up to the next segment that segcore begins to  *)
(* read, or to its end: the process is in memory, or segments are missing  *)
(* for which there is no room, and procdisk of pp2 follows.                *)
(***************************************************************************)
proccore ==
  LET p == sw.pp2
      out(i) == segp[p][i] # NoSeg /\ ~m.seg[segp[p][i]].core
      reads == {i \in sw.i .. NUSEG + 1 : out(i) /\ xmalloc(m, m.seg[segp[p][i]].size) # {}}
      j == IF reads = {} THEN NUSEG + 1 ELSE Lowest(reads)
      s == segp[p][j]
      x == Bump(p, sw.i, j, IF sw.f THEN 1 ELSE 0)
      n == sw.n + Cardinality({i \in sw.i .. j : out(i) /\ i \notin reads})
  IN  /\ cpu = Swapper /\ sw.pc = "core"
      /\ \/ /\ reads # {}
            /\ \E y \in xmalloc(x, m.seg[s].size) :
                 /\ m' = Locked(y, s)
                 /\ swapio(Swapper, Transfer(y, segswap, s, m.seg[s].size))
            /\ sw' = [sw EXCEPT !.pc = "coreio", !.i = j, !.n = n]
            /\ cpu' = None
            /\ UNCHANGED flags
         \/ /\ reads = {} /\ n = 0
            /\ m' = x
            /\ flags' = [flags EXCEPT ![p] = Back(@)]
            /\ sw' = AtRest /\ cpu' = None
            /\ UNCHANGED <<req, swapbuf>>
         \/ /\ reads = {} /\ n # 0
            /\ m' = x
            /\ flags' = [flags EXCEPT ![p] = @ \ {"PFSWAP", "PFCORE"}]
            /\ sw' = [CallDisk(sw, p, "pp2") EXCEPT !.f = FALSE]
            /\ UNCHANGED <<req, swapbuf, cpu>>
      /\ UNCHANGED <<segp, hw, pc, arg, child, pnxgate, panic>>

\* The end of segcore: the segment takes the place of segswap.
segcore ==
  LET s == req[Swapper].ds
  IN  /\ cpu = None /\ sw.pc = "coreio" /\ Release(Swapper)
      /\ m' = [satcopy(m, s, segswap, TRUE) EXCEPT !.seg[s].lrefc = @ - 1]
      /\ sw' = [sw EXCEPT !.pc = "core", !.i = @ + 1]
      /\ cpu' = Swapper
      /\ UNCHANGED <<procs, pnxgate, panic>>

(***************************************************************************)
(* procdisk goes on, up to the next segment that segdisk begins to write,  *)
(* or to its end.  After pp2 the chain is looked through, with pnxgate;    *)
(* when that has freed memory, or pp3 is out, pp2 is tried again.          *)
(***************************************************************************)
procdisk ==
  LET p == sw.pp
      after(i) == Bump(p, sw.i, i, IF sw.f THEN 0 ELSE -1)
      writes == {i \in sw.i .. NUSEG + 1 :
                   LET s == segp[p][i]
                   IN  /\ s # NoSeg
                       /\ m.seg[s].core /\ after(i).seg[s].lrefc = 0
                       /\ xdalloc(m, m.seg[s].size) # {}}
      j == IF writes = {} THEN NUSEG + 1 ELSE Lowest(writes)
      s == segp[p][j]
      x == after(j)
      fl == [flags EXCEPT ![p] = @ \union {"PFSWAP"}]
  IN  /\ cpu = Swapper /\ sw.pc = "disk"
      /\ \/ /\ writes # {}
            /\ \E y \in xdalloc(x, m.seg[s].size) :
                 /\ m' = Locked(y, s)
                 /\ swapio(Swapper, Transfer(y, s, segswap, m.seg[s].size))
            /\ sw' = [sw EXCEPT !.pc = "diskio", !.i = j]
            /\ cpu' = None
            /\ UNCHANGED <<flags, pnxgate>>
         \/ /\ writes = {} /\ sw.from = "pp2"
            /\ m' = x /\ flags' = fl
            /\ pnxgate' = TRUE
            /\ sw' = [sw EXCEPT !.pc = "scan", !.left = Chain]
            /\ UNCHANGED <<req, swapbuf, cpu>>
         \/ /\ writes = {} /\ sw.from = "scan" /\ sw.n = 0
            /\ m' = x /\ flags' = fl
            /\ sw' = [sw EXCEPT !.pc = "scan"]
            /\ UNCHANGED <<pnxgate, req, swapbuf, cpu>>
         \/ /\ writes = {} /\ (sw.from = "pp3" \/ (sw.from = "scan" /\ sw.n # 0))
            /\ m' = x /\ flags' = fl
            /\ pnxgate' = FALSE
            /\ sw' = CallCore(AtRest, sw.pp2, fl)
            /\ UNCHANGED <<req, swapbuf, cpu>>
      /\ UNCHANGED <<segp, hw, pc, arg, child, panic>>

\* The end of segdisk.
segdisk ==
  LET s == req[Swapper].ms
  IN  /\ cpu = None /\ sw.pc = "diskio" /\ Release(Swapper)
      /\ m' = [satcopy(m, s, segswap, FALSE) EXCEPT !.seg[s].lrefc = @ - 1]
      /\ sw' = [sw EXCEPT !.pc = "disk", !.i = @ + 1, !.n = @ + 1]
      /\ cpu' = Swapper
      /\ UNCHANGED <<procs, pnxgate, panic>>

\* The chain: a process that is out is put out altogether.
Out(p) == {"PFSWIO", "PFCORE"} \intersect flags[p] = {}

scan(p) ==
  /\ cpu = Swapper /\ sw.pc = "scan" /\ p \in sw.left /\ Out(p)
  /\ sw' = CallDisk([sw EXCEPT !.left = @ \ {p}], p, "scan")
  /\ UNCHANGED <<m, procs, req, swapbuf, pnxgate, cpu, panic>>

\* The chain has been looked through: pp3 is put on the disk, or the swapper
\* waits (nobody to swap out, or PFDISP for somebody who shall run first).
scanEnd ==
  /\ cpu = Swapper /\ sw.pc = "scan" /\ \A p \in sw.left : ~Out(p)
  /\ pnxgate' = FALSE
  /\ \/ /\ sw' = AtRest /\ cpu' = None
        /\ UNCHANGED flags
     \/ \E pp3 \in sw.left :
          /\ "PFSWIO" \notin flags[pp3]
          /\ flags' = [flags EXCEPT ![pp3] = @ \ {"PFCORE"}]
          /\ sw' = [CallDisk(sw, pp3, "pp3") EXCEPT !.left = {}]
          /\ UNCHANGED cpu
  /\ UNCHANGED <<m, segp, hw, pc, arg, child, req, swapbuf, panic>>

-----------------------------------------------------------------------------
\* The system calls.
Calls(p) ==
  \/ \E c \in Procs : pfork(p, c)
  \/ \E n \in 1 .. MaxSize : seggrow(p, n)
  \/ ioreq(p) \/ pexit(p)

Steps(p) ==
  \/ segload(p) \/ swapioLock(p) \/ swapioDone(p)
  \/ segdupl(p) \/ segdupd(p) \/ segdupdEnd(p) \/ segadup(p) \/ forkfin(p)
  \/ undo(p) \/ relproc(p)
  \/ segsext(p) \/ segsextEnd(p) \/ growfin(p)
  \/ bdone(p) \/ ioreqEnd(p)
  \/ swap(p) \/ scan(p)

Swaps ==
  \/ swapioLock(Swapper) \/ swapioDone(Swapper)
  \/ proccore \/ segcore \/ procdisk \/ segdisk \/ scanEnd

Next ==
  /\ ~panic
  /\ \/ \E p \in Procs : Calls(p) /\ calls < MaxCalls /\ calls' = calls + 1
     \/ (Swaps \/ \E p \in Procs : Steps(p)) /\ UNCHANGED calls

Spec == Init /\ [][Next]_vars

-----------------------------------------------------------------------------
(* Properties.                                                             *)

\* A queue is in the order of the addresses, without overlap, below top.
Apart(q, top) ==
  /\ IsInjective(q)
  /\ \A k \in 1 .. Len(q) + 1 : Lo(m, q, k) <= Hi(m, q, k, top)

(***************************************************************************)
(* What segchk checks "for the paranoid", at every step of every routine   *)
(* that links, unlinks, grows or moves a segment while others sleep: the   *)
(* segments of each queue are apart, and a segment is in the queue of the  *)
(* medium it is on, and only there.                                        *)
(***************************************************************************)
SegmentsApart ==
  /\ Apart(m.mq, coretop) /\ Apart(m.dq, swaptop)
  /\ Range(m.mq) \intersect Range(m.dq) = {}
  /\ Range(m.mq) \union Range(m.dq) = {s \in Segs : m.seg[s].urefc > 0}
  /\ \A s \in 1 .. NSEG : m.seg[s].core => s \in Range(m.mq)

\* The transfers in progress, each from the moment its addresses were taken.
Transfers == {x \in Procs \union {Swapper} : req[x].st \in {"wait", "busy"}}

(***************************************************************************)
(* The owner of a transfer may be swapped, the segments around it moved and*)
(* freed, while it waits for swapbuf or for the disk: both segments stay in*)
(* their queues, the place on the disk stays theirs, and no segment is in  *)
(* two transfers.                                                          *)
(***************************************************************************)
TransfersApart ==
  /\ \A x \in Transfers :
       LET r == req[x]
       IN  /\ r.ms \in Range(m.mq) /\ r.ds \in Range(m.dq)
           /\ r.disk = m.seg[r.ds].base
           /\ r.n <= m.seg[r.ms].size /\ r.n <= m.seg[r.ds].size
  /\ \A x, y \in Transfers : x # y =>
       {req[x].ms, req[x].ds} \intersect {req[y].ms, req[y].ds} = {}

(***************************************************************************)
(* "an s_lrefc above that count means somebody holds the segment for I/O"  *)
(* (segmove), and such a segment is left alone: a transfer is to or from   *)
(* the memory that its segment has.                                        *)
(***************************************************************************)
TransfersSafe ==
  /\ \A x \in Transfers : req[x].mem = m.seg[req[x].ms].base
  /\ \A p \in Procs : pc[p] = "raw" => arg[p] = m.seg[segp[p][SIPDATA]].base

(***************************************************************************)
(* "The hardware segmentation of a process is only a cache" (segpack): a   *)
(* process that may be chosen to run in user mode has its segments in      *)
(* memory, and its registers point to them unless PFSPROTO has them loaded *)
(* again, whoever has moved, swapped or grown a segment meanwhile.         *)
(***************************************************************************)
MappingRight ==
  \A p \in Procs : pc[p] = "user" /\ "PFCORE" \in flags[p] =>
    /\ \A i \in 1 .. NUSEG : m.seg[segp[p][i]].core
    /\ "PFSPROTO" \notin flags[p] => hw[p] = sproto(m, p)

\* Whether s is the copy that a fork or a growth is still writing.
InMaking(s) == \E p \in Procs : req[p].st # "no" /\ req[p].ds = s

(***************************************************************************)
(* A fork that fails half way, a growth that goes by the disk and an exit  *)
(* give back what they have taken, and only that, while the swapper moves  *)
(* the same segments: s_urefc is the number of processes that have a       *)
(* segment, so that none is lost for good and none freed under its user.   *)
(* (sfree may have stopped the machine instead, with its work half done.)  *)
(***************************************************************************)
UsersCounted ==
  panic \/ \A s \in 1 .. NSEG :
    m.seg[s].urefc = Cardinality({h \in Holds(s) : h[2] <= NUSEG})
                     + (IF InMaking(s) THEN 1 ELSE 0)

(***************************************************************************)
(* s_lrefc goes down when a process goes out and up when it comes in, once *)
(* for each of its segments: when the last user of a segment frees it the  *)
(* count is zero, as sfree asserts by panic("Bad segment count").  From    *)
(* NSEG = 7 on this is refuted: the swapper may choose a child that fork   *)
(* is still making.                                                        *)
(***************************************************************************)
NoPanic == ~panic
=============================================================================
