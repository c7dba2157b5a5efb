-------------------------------- MODULE Bio --------------------------------
(***************************************************************************)
(* The buffer cache of the Coherent kernel (kernel/coh/bio.c), the block   *)
(* driver's completion of a transfer (bdone, at interrupt level) and the   *)
(* ways kernel/coh/fs3.c uses a buffer.                                    *)
(*                                                                         *)
(* Buffer gates are the mutexes of module Mutex: gate[b] is the owner.     *)
(* A process in the kernel keeps the processor until it sleeps (module     *)
(* Gate), so a stretch of code between two sleeps is one step, except      *)
(* where an interrupt in its middle matters: between the two scans of      *)
(* bclaim.  One device; a block stands for b_dev and b_bno together.  The  *)
(* victim bclaim takes (least recently released by b_seqn) is any free     *)
(* buffer here.  Contents are abstracted to whether they are the last      *)
(* modification of the block, "latest", or anything else, "stale".         *)
(***************************************************************************)
EXTENDS Naturals, FiniteSets

CONSTANTS
  Users,        \* processes that read and write blocks
  Syncers,      \* processes that call bsync or bflush
  NBUF,         \* the number of buffers
  Blocks,
  NODEV,        \* b_dev of a buffer that holds no block
  Device,       \* owner of a gate whose transfer is asynchronous
  Free,         \* owner of an open gate
  NoProc,       \* the processor is at nobody's disposal in the kernel
  WriteErrors   \* whether the disk may refuse a write

Procs == Users \union Syncers
Bufs == 1 .. NBUF
Flags == {"BFNTP", "BFERR", "BFMOD", "BFASY"}

ASSUME BioAssumption ==
  /\ NBUF \in Nat
  /\ WriteErrors \in BOOLEAN
  /\ NODEV \notin Blocks
  /\ Users \intersect Syncers = {}
  /\ {Device, Free, NoProc} \intersect Procs = {}
  /\ Device # Free

\* A syncer keeps a buffer from bclaim without waking bclaim afterwards: with
\* a buffer more than syncers, somebody else holds one when all are locked.
ASSUME SyncersAssumption == IsFiniteSet(Syncers) /\ Cardinality(Syncers) < NBUF

VARIABLES
  dev,      \* b_dev and b_bno
  flag,     \* b_flag
  req,      \* b_req
  data,     \* the contents at b_vaddr
  gate,     \* the owner of b_gate
  pending,  \* the buffers dblock has queued at the driver
  disk,     \* the contents of each block on the disk
  bufneed,
  cpu,      \* the process between two sleeps of a system call
  asleep,   \* processes on the queue of a buffer or of &bufneed
  pc, op, blk, bp,  \* each process: where it is, and its variables
  owed      \* blocks that were modified when a sync began, not yet written

bufvars == <<dev, flag, req, data, gate, pending, disk, bufneed>>
locals == <<op, blk, bp>>
vars == <<dev, flag, req, data, gate, pending, disk, bufneed,
          cpu, asleep, pc, op, blk, bp, owed>>

UserOps == {"read", "ahead", "update", "claim", "hole"}
SyncOps == {"bsync", "bflush"}
Contents == {"latest", "stale"}
Locs == {"user", "bclaim", "rescan", "bufneed", "gate", "got", "io", "have",
         "scan", "scangate", "scanio"}

TypeOK ==
  /\ dev \in [Bufs -> Blocks \union {NODEV}]
  /\ flag \in [Bufs -> SUBSET Flags]
  /\ req \in [Bufs -> {"BREAD", "BWRITE"}]
  /\ data \in [Bufs -> Contents]
  /\ gate \in [Bufs -> Procs \union {Device, Free}]
  /\ pending \in SUBSET Bufs
  /\ disk \in [Blocks -> Contents]
  /\ bufneed \in {0, 1}
  /\ cpu \in Procs \union {NoProc}
  /\ asleep \in SUBSET Procs
  /\ pc \in [Procs -> Locs]
  /\ op \in [Procs -> UserOps \union SyncOps]
  /\ blk \in [Procs -> Blocks \union {NODEV}]
  /\ bp \in [Procs -> 1 .. NBUF + 1]
  /\ owed \in [Syncers -> SUBSET Blocks]

Init ==
  /\ dev = [b \in Bufs |-> NODEV]
  /\ flag = [b \in Bufs |-> {}]
  /\ req = [b \in Bufs |-> "BREAD"]
  /\ data = [b \in Bufs |-> "stale"]
  /\ gate = [b \in Bufs |-> Free]
  /\ pending = {}
  /\ disk = [k \in Blocks |-> "latest"]
  /\ bufneed = 0
  /\ cpu = NoProc
  /\ asleep = {}
  /\ pc = [p \in Procs |-> "user"]
  /\ op = [p \in Procs |-> IF p \in Users THEN "read" ELSE "bsync"]
  /\ blk = [p \in Procs |-> NODEV]
  /\ bp = [p \in Procs |-> 1]
  /\ owed = [p \in Syncers |-> {}]

-----------------------------------------------------------------------------
(* Steps of a process: it runs, goes on running, sleeps or returns.        *)

Running(p, l) == cpu = p /\ pc[p] = l

\* p is dispatched at l: it was woken, or the gate it waits for is open.
Dispatched(p, l) == cpu = NoProc /\ pc[p] = l /\ p \notin asleep

Goto(p, l) == pc' = [pc EXCEPT ![p] = l] /\ cpu' = p

\* Leave the processor, to go on at l.
Yield(p, l) == pc' = [pc EXCEPT ![p] = l] /\ cpu' = NoProc

\* The system call ends, and its variables with it.
Return(p) ==
  /\ Yield(p, "user")
  /\ op' = [op EXCEPT ![p] = IF p \in Users THEN "read" ELSE "bsync"]
  /\ blk' = [blk EXCEPT ![p] = NODEV]
  /\ bp' = [bp EXCEPT ![p] = 1]

\* The processes that sleep on &bufneed, and on the buffer b.
OnBufneed == {p \in asleep : pc[p] = "bufneed"}
OnBuf(b) == {p \in asleep : pc[p] \in {"io", "scanio"} /\ bp[p] = b}

(***************************************************************************)
(* brelease: a buffer in error forgets its block, the gate opens, and all  *)
(* who need a buffer are woken.  f is b_flag on entry.                     *)
(***************************************************************************)
brelease(b, f) ==
  /\ flag' = [flag EXCEPT ![b] = f \ {"BFERR", "BFNTP"}]
  /\ dev' = [dev EXCEPT ![b] = IF "BFERR" \in f THEN NODEV ELSE @]
  /\ gate' = [gate EXCEPT ![b] = Free]
  /\ bufneed' = 0
  /\ asleep' = IF bufneed = 0 THEN asleep ELSE asleep \ OnBufneed

(***************************************************************************)
(* dblock: the driver queues the request.  drvmap finds no driver for      *)
(* NODEV, and then dblock returns having done nothing.                     *)
(***************************************************************************)
dblock(b) ==
  pending' = IF dev[b] = NODEV THEN pending ELSE pending \union {b}

\* Mutant: BFMOD is cleared when the write is queued, not when it is done.
bwriteEarly(b, f) ==
  /\ flag' = [flag EXCEPT ![b] = (f \ {"BFMOD"}) \union {"BFASY", "BFNTP"}]
  /\ req' = [req EXCEPT ![b] = "BWRITE"]
  /\ gate' = [gate EXCEPT ![b] = Device]
  /\ dblock(b)

\* bwrite(bp, 0): the driver will release the buffer.  f is b_flag on entry.
bwriteAsync(b, f) ==
  /\ flag' = [flag EXCEPT ![b] = f \union {"BFASY", "BFNTP"}]
  /\ req' = [req EXCEPT ![b] = "BWRITE"]
  /\ gate' = [gate EXCEPT ![b] = Device]
  /\ dblock(b)

\* bwrite(bp, 1), up to its sleep: the caller keeps the gate.
bwriteSync(p, b) ==
  /\ flag' = [flag EXCEPT ![b] = (@ \ {"BFASY"}) \union {"BFNTP"}]
  /\ req' = [req EXCEPT ![b] = "BWRITE"]
  /\ gate' = [gate EXCEPT ![b] = p]
  /\ dblock(b)
  /\ asleep' = asleep \union {p}

-----------------------------------------------------------------------------
(* bclaim.                                                                 *)

\* A system call needs the block k, or a buffer of zeros.
Begin(p, o, k) ==
  /\ Dispatched(p, "user")
  /\ o = "hole" <=> k = NODEV
  /\ op' = [op EXCEPT ![p] = o]
  /\ blk' = [blk EXCEPT ![p] = k]
  /\ Goto(p, "bclaim")
  /\ UNCHANGED <<bufvars, asleep, bp, owed>>

\* The buffer that holds p's block is taken; one in error is read again.
Hit(p, b) ==
  /\ gate' = [gate EXCEPT ![b] = p]
  /\ flag' = [flag EXCEPT
       ![b] = IF "BFERR" \in @ THEN @ \union {"BFNTP"} ELSE @]
  /\ bp' = [bp EXCEPT ![p] = b]
  /\ Goto(p, "got")
  /\ UNCHANGED <<dev, req, data, pending, disk, bufneed, asleep, op, blk, owed>>

\* Mutant: a modified buffer is taken as if it were clean.
RecycleDirty(p, b) ==
  /\ gate' = [gate EXCEPT ![b] = p]
  /\ flag' = [flag EXCEPT ![b] = {"BFNTP"}]
  /\ dev' = [dev EXCEPT ![b] = blk[p]]
  /\ data' = [data EXCEPT ![b] = "stale"]
  /\ bp' = [bp EXCEPT ![p] = b]
  /\ Goto(p, "got")
  /\ UNCHANGED <<req, pending, disk, bufneed, asleep, op, blk, owed>>

\* A free buffer that holds no modification is given to p's block.
Recycle(p, b) ==
  /\ "BFMOD" \notin flag[b]
  /\ gate' = [gate EXCEPT ![b] = p]
  /\ flag' = [flag EXCEPT ![b] = {"BFNTP"}]
  /\ dev' = [dev EXCEPT ![b] = blk[p]]
  /\ data' = [data EXCEPT ![b] = "stale"]
  /\ bp' = [bp EXCEPT ![p] = b]
  /\ Goto(p, "got")
  /\ UNCHANGED <<req, pending, disk, bufneed, asleep, op, blk, owed>>

\* A modified one is written first, and bclaim starts again.
Clean(p, b) ==
  /\ "BFMOD" \in flag[b]
  /\ bwriteAsync(b, flag[b])
  /\ Goto(p, "bclaim")
  /\ UNCHANGED <<dev, data, disk, bufneed, asleep, locals, owed>>

Victim(p, b) == gate[b] = Free /\ (Recycle(p, b) \/ Clean(p, b))

\* The first scan.
bclaim(p) ==
  /\ Running(p, "bclaim")
  /\ \/ \E b \in Bufs : dev[b] = blk[p] /\ gate[b] = Free /\ Hit(p, b)
     \/ \E b \in Bufs :
          /\ dev[b] = blk[p] /\ gate[b] # Free
          /\ bp' = [bp EXCEPT ![p] = b]
          /\ Yield(p, "gate")
          /\ UNCHANGED <<bufvars, asleep, op, blk, owed>>
     \/ /\ \A b \in Bufs : dev[b] = NODEV \/ dev[b] # blk[p]
        /\ \/ \E b \in Bufs : Victim(p, b)
           \/ /\ \A b \in Bufs : gate[b] # Free
              /\ Goto(p, "rescan")
              /\ UNCHANGED <<bufvars, asleep, locals, owed>>

\* Mutant: the block of the buffer is not looked at again.
gotgateBlind(p) ==
  /\ Dispatched(p, "gate")
  /\ gate[bp[p]] = Free
  /\ Hit(p, bp[p])

\* lock returns: the buffer may hold another block by now.
gotgate(p) ==
  /\ Dispatched(p, "gate")
  /\ gate[bp[p]] = Free
  /\ \/ dev[bp[p]] = blk[p] /\ Hit(p, bp[p])
     \/ /\ dev[bp[p]] # blk[p]
        /\ Goto(p, "bclaim")
        /\ UNCHANGED <<bufvars, asleep, locals, owed>>

\* Mutant: bufneed is not set.
rescanNoFlag(p) ==
  /\ Running(p, "rescan")
  /\ \/ \E b \in Bufs : Victim(p, b)
     \/ /\ \A b \in Bufs : gate[b] # Free
        /\ asleep' = asleep \union {p}
        /\ Yield(p, "bufneed")
        /\ UNCHANGED <<bufvars, locals, owed>>

\* Mutant: no second scan; a buffer may have been released since the first.
rescanNever(p) ==
  /\ Running(p, "rescan")
  /\ bufneed' = 1
  /\ asleep' = asleep \union {p}
  /\ Yield(p, "bufneed")
  /\ UNCHANGED <<dev, flag, req, data, gate, pending, disk, locals, owed>>

\* Mutant: after the sleep only a free buffer is looked for.
againVictim(p) ==
  /\ Dispatched(p, "bufneed")
  /\ Goto(p, "rescan")
  /\ UNCHANGED <<bufvars, asleep, locals, owed>>

\* The second scan, at high priority up to the sleep on &bufneed.
rescan(p) ==
  /\ Running(p, "rescan")
  /\ \/ \E b \in Bufs : Victim(p, b)
     \/ /\ \A b \in Bufs : gate[b] # Free
        /\ bufneed' = 1
        /\ asleep' = asleep \union {p}
        /\ Yield(p, "bufneed")
        /\ UNCHANGED <<dev, flag, req, data, gate, pending, disk, locals,
                       owed>>

again(p) ==
  /\ Dispatched(p, "bufneed")
  /\ Goto(p, "bclaim")
  /\ UNCHANGED <<bufvars, asleep, locals, owed>>

-----------------------------------------------------------------------------
(* bread, and what its callers do with the buffer.                         *)

\* The buffer is not valid: bread asks the driver for the block.
bread(p) ==
  /\ Running(p, "got")
  /\ "BFNTP" \in flag[bp[p]]
  /\ op[p] \notin {"claim", "hole"}
  /\ req' = [req EXCEPT ![bp[p]] = "BREAD"]
  /\ dblock(bp[p])
  /\ \/ /\ op[p] = "ahead"
        /\ flag' = [flag EXCEPT ![bp[p]] = @ \union {"BFASY"}]
        /\ gate' = [gate EXCEPT ![bp[p]] = Device]
        /\ Return(p)
        /\ UNCHANGED asleep
     \/ /\ op[p] # "ahead"
        /\ flag' = [flag EXCEPT ![bp[p]] = @ \ {"BFASY"}]
        /\ asleep' = asleep \union {p}
        /\ Yield(p, "io")
        /\ UNCHANGED <<gate, locals>>
  /\ UNCHANGED <<dev, data, disk, bufneed, owed>>

\* The buffer is valid: bread returns it, or releases it after a read ahead.
cached(p) ==
  /\ Running(p, "got")
  /\ "BFNTP" \notin flag[bp[p]]
  /\ op[p] \notin {"claim", "hole"}
  /\ \/ /\ op[p] = "ahead"
        /\ brelease(bp[p], flag[bp[p]])
        /\ Return(p)
     \/ /\ op[p] # "ahead"
        /\ Yield(p, "have")
        /\ UNCHANGED <<dev, flag, gate, bufneed, asleep, locals>>
  /\ UNCHANGED <<req, data, pending, disk, owed>>

\* sleep returns to bread: asleep again, an error, or the block.
breadDone(p) ==
  /\ Dispatched(p, "io")
  /\ LET f == flag[bp[p]] IN
     \/ /\ "BFNTP" \in f
        /\ asleep' = asleep \union {p}
        /\ Yield(p, "io")
        /\ UNCHANGED <<dev, flag, gate, bufneed, locals>>
     \/ /\ "BFNTP" \notin f /\ "BFERR" \in f
        /\ brelease(bp[p], f)
        /\ Return(p)
     \/ /\ {"BFNTP", "BFERR"} \intersect f = {}
        /\ Yield(p, "have")
        /\ UNCHANGED <<dev, flag, gate, bufneed, asleep, locals>>
  /\ UNCHANGED <<req, data, pending, disk, owed>>

\* New contents for the block k in b: every other copy is out of date.
Modify(b, k) ==
  /\ data' = [c \in Bufs |->
       IF c = b THEN "latest" ELSE IF dev[c] = k THEN "stale" ELSE data[c]]
  /\ disk' = [disk EXCEPT ![k] = "stale"]

\* The caller is through with the block, which it may have modified.
use(p) ==
  /\ Dispatched(p, "have")
  /\ LET b == bp[p] IN
     \/ /\ op[p] = "read"
        /\ brelease(b, flag[b])
        /\ UNCHANGED <<data, disk>>
     \/ /\ op[p] = "update"
        /\ Modify(b, blk[p])
        /\ brelease(b, flag[b] \union {"BFMOD"})
  /\ Return(p)
  /\ UNCHANGED <<req, pending, owed>>

\* A caller of bclaim overwrites the whole block, and releases or writes it.
fill(p) ==
  /\ Running(p, "got")
  /\ op[p] = "claim"
  /\ LET b == bp[p] IN
     /\ Modify(b, blk[p])
     /\ \/ /\ brelease(b, flag[b] \union {"BFMOD"})
           /\ UNCHANGED <<req, pending>>
        \/ /\ bwriteAsync(b, flag[b] \union {"BFMOD"})
           /\ UNCHANGED <<dev, bufneed, asleep>>
  /\ Return(p)
  /\ UNCHANGED owed

\* vread clears a buffer without a block for a hole in a sparse file; its
\* caller copies the zeros out and releases it.
hole(p) ==
  /\ Running(p, "got")
  /\ op[p] = "hole"
  /\ data' = [data EXCEPT ![bp[p]] = "stale"]
  /\ brelease(bp[p], flag[bp[p]])
  /\ Return(p)
  /\ UNCHANGED <<req, pending, disk, owed>>

-----------------------------------------------------------------------------
(* bsync and bflush: a loop over the buffers, bp[p] its variable.          *)

\* syngate keeps a second bsync out.
BeginScan(p, o) ==
  /\ Dispatched(p, "user")
  /\ o = "bsync" => \A q \in Syncers : pc[q] = "user" \/ op[q] = "bflush"
  /\ op' = [op EXCEPT ![p] = o]
  /\ bp' = [bp EXCEPT ![p] = 1]
  /\ owed' = [owed EXCEPT ![p] = {k \in Blocks : disk[k] = "stale"}]
  /\ Goto(p, "scan")
  /\ UNCHANGED <<bufvars, asleep, blk>>

\* Whether the scan is interested in b.
Wanted(p, b) ==
  IF op[p] = "bsync" THEN "BFMOD" \in flag[b] ELSE dev[b] # NODEV

\* p has the gate of b, or takes it now, and goes on to the next buffer.
NextBuf(p, b) ==
  /\ gate' = [gate EXCEPT ![b] = Free]
  /\ dev' = [dev EXCEPT ![b] = IF op[p] = "bflush" THEN NODEV ELSE @]
  /\ bp' = [bp EXCEPT ![p] = @ + 1]
  /\ Goto(p, "scan")

\* The gate is open: write b if it is modified.
Flush(p, b) ==
  \/ /\ Wanted(p, b) /\ "BFMOD" \in flag[b]
     /\ bwriteSync(p, b)
     /\ Yield(p, "scanio")
     /\ UNCHANGED <<dev, locals>>
  \/ /\ Wanted(p, b) /\ "BFMOD" \notin flag[b]
     /\ NextBuf(p, b)
     /\ UNCHANGED <<flag, req, pending, asleep, op, blk>>
  \/ /\ ~ Wanted(p, b)
     /\ bp' = [bp EXCEPT ![p] = @ + 1]
     /\ Goto(p, "scan")
     /\ UNCHANGED <<dev, flag, req, gate, pending, asleep, op, blk>>

scan(p) ==
  /\ Running(p, "scan")
  /\ \/ /\ bp[p] > NBUF
        /\ Return(p)
        /\ UNCHANGED <<dev, flag, req, gate, pending, asleep>>
     \/ /\ bp[p] <= NBUF
        /\ ~ Wanted(p, bp[p]) \/ gate[bp[p]] = Free
        /\ Flush(p, bp[p])
     \/ /\ bp[p] <= NBUF
        /\ Wanted(p, bp[p]) /\ gate[bp[p]] # Free
        /\ Yield(p, "scangate")
        /\ UNCHANGED <<dev, flag, req, gate, pending, asleep, locals>>
  /\ UNCHANGED <<data, disk, bufneed, owed>>

\* lock returns: look again, the buffer may have been written meanwhile.
scangate(p) ==
  /\ Dispatched(p, "scangate")
  /\ gate[bp[p]] = Free
  /\ Flush(p, bp[p])
  /\ UNCHANGED <<data, disk, bufneed, owed>>

\* sleep returns to bwrite.  unlock, not brelease, opens the gate.
scanio(p) ==
  /\ Dispatched(p, "scanio")
  /\ \/ /\ "BFNTP" \in flag[bp[p]]
        /\ asleep' = asleep \union {p}
        /\ Yield(p, "scanio")
        /\ UNCHANGED <<dev, gate, locals>>
     \/ /\ "BFNTP" \notin flag[bp[p]]
        /\ NextBuf(p, bp[p])
        /\ UNCHANGED <<asleep, op, blk>>
  /\ UNCHANGED <<flag, req, data, pending, disk, bufneed, owed>>

-----------------------------------------------------------------------------
(* Interrupt level.                                                        *)

(***************************************************************************)
(* bdone, with f the flags the driver leaves: a write is done, whatever    *)
(* became of it; a block that could not be read is forgotten; the gate of  *)
(* an asynchronous transfer opens; who waits for the buffer is woken.      *)
(***************************************************************************)
bdone(b, f) ==
  LET g == IF req[b] = "BWRITE" THEN f \ {"BFMOD"} ELSE f
      lost == req[b] = "BREAD" /\ "BFERR" \in f
      async == "BFASY" \in f
  IN  /\ flag' = [flag EXCEPT
           ![b] = IF async THEN g \ {"BFASY", "BFERR", "BFNTP"}
                           ELSE g \ {"BFNTP"}]
      /\ dev' = [dev EXCEPT
           ![b] = IF lost \/ (async /\ "BFERR" \in f) THEN NODEV ELSE @]
      /\ gate' = IF async THEN [gate EXCEPT ![b] = Free] ELSE gate
      /\ bufneed' = IF async THEN 0 ELSE bufneed
      /\ asleep' = (asleep \ OnBuf(b))
                     \ (IF async /\ bufneed = 1 THEN OnBufneed ELSE {})

\* The transfer of b ends well.
Done(b) ==
  /\ b \in pending
  /\ pending' = pending \ {b}
  /\ \/ /\ req[b] = "BREAD"
        /\ data' = [data EXCEPT ![b] = disk[dev[b]]]
        /\ UNCHANGED <<disk, owed>>
     \/ /\ req[b] = "BWRITE"
        /\ disk' = [disk EXCEPT ![dev[b]] = data[b]]
        /\ owed' = [p \in Syncers |-> owed[p] \ {dev[b]}]
        /\ UNCHANGED data
  /\ bdone(b, flag[b])
  /\ UNCHANGED <<req, cpu, pc, locals>>

\* The transfer of b fails.  A refused write is lost: nobody is told.
Fails(b) ==
  /\ b \in pending
  /\ req[b] = "BWRITE" => WriteErrors
  /\ pending' = pending \ {b}
  /\ \/ req[b] = "BREAD" /\ UNCHANGED <<data, disk, owed>>
     \/ /\ req[b] = "BWRITE"
        /\ disk' = [disk EXCEPT ![dev[b]] = "latest"]
        /\ data' = [data EXCEPT ![b] = "stale"]
        /\ owed' = [p \in Syncers |-> owed[p] \ {dev[b]}]
  /\ bdone(b, flag[b] \union {"BFERR"})
  /\ UNCHANGED <<req, cpu, pc, locals>>

\* A signal takes a process off its sleep queue.
Signal(p) ==
  /\ p \in asleep
  /\ asleep' = asleep \ {p}
  /\ UNCHANGED <<bufvars, cpu, pc, locals, owed>>

-----------------------------------------------------------------------------
Call(p) ==
  \/ p \in Users /\ \E o \in UserOps, k \in Blocks \union {NODEV} :
                      Begin(p, o, k)
  \/ p \in Syncers /\ \E o \in SyncOps : BeginScan(p, o)

\* The steps of p up to its return to user mode.
Step(p) ==
  \/ bclaim(p) \/ gotgate(p) \/ rescan(p) \/ again(p)
  \/ bread(p) \/ cached(p) \/ breadDone(p) \/ use(p) \/ fill(p) \/ hole(p)
  \/ scan(p) \/ scangate(p) \/ scanio(p)

Next ==
  \/ \E p \in Procs : Call(p) \/ Step(p) \/ Signal(p)
  \/ \E b \in Bufs : Done(b) \/ Fails(b)

Spec == Init /\ [][Next]_vars

(***************************************************************************)
(* Fairness: a process that is runnable, or whose gate opens time and      *)
(* again, is run (module Gate), and the driver ends every transfer.        *)
(***************************************************************************)
Fairness ==
  /\ \A p \in Procs : SF_vars(Step(p))
  /\ \A b \in Bufs : WF_vars(Done(b) \/ Fails(b))

FairSpec == Spec /\ Fairness

-----------------------------------------------------------------------------
(***************************************************************************)
(* A block is in at most one buffer: bclaim scans, finds nothing, picks a  *)
(* victim and names it with no sleep in between, and starts again after    *)
(* every sleep.                                                            *)
(***************************************************************************)
Unique ==
  TypeOK /\ \A a, b \in Bufs : a # b /\ dev[a] = dev[b] => dev[a] = NODEV

(***************************************************************************)
(* A valid buffer holds the last modification of its block, and a block    *)
(* whose buffers are all clean (or gone) has it on the disk.               *)
(***************************************************************************)
Coherent ==
  /\ \A b \in Bufs :
       dev[b] # NODEV /\ {"BFNTP", "BFERR"} \intersect flag[b] = {}
         => data[b] = "latest"
  /\ \A k \in Blocks :
       (\A b \in Bufs : dev[b] = k => "BFMOD" \notin flag[b])
         => disk[k] = "latest"

(***************************************************************************)
(* A process bread has given a buffer to owns it alone, and finds its      *)
(* block in it, current, whatever was evicted, read ahead, flushed or      *)
(* signalled while it slept.  A buffer whose gate is open has no transfer  *)
(* under way: bdone opens the gate of an asynchronous one when it ends.    *)
(***************************************************************************)
Served ==
  /\ \A p \in Users : pc[p] = "have" =>
       /\ gate[bp[p]] = p
       /\ dev[bp[p]] = blk[p]
       /\ "BFNTP" \notin flag[bp[p]]
       /\ data[bp[p]] = "latest"
  /\ \A b \in Bufs : gate[b] = Free =>
       b \notin pending /\ {"BFNTP", "BFASY"} \intersect flag[b] = {}

(***************************************************************************)
(* Whoever sleeps on &bufneed will be woken: the flag is set, and some     *)
(* buffer is in the hands of a user or of the driver, whose brelease sees  *)
(* the flag (bsync and bflush open a gate without looking at it).          *)
(***************************************************************************)
BufneedWakes ==
  OnBufneed # {} =>
    /\ bufneed = 1
    /\ \E b \in Bufs : gate[b] \in Users \union {Device}

(***************************************************************************)
(* When bsync or bflush comes to its end, every modification made before   *)
(* it began is on the disk, also those whose write somebody else started,  *)
(* or that a recycled buffer took along.                                   *)
(***************************************************************************)
SyncDurable ==
  \A p \in Syncers : pc[p] = "scan" /\ bp[p] > NBUF => owed[p] = {}

(***************************************************************************)
(* Nobody is stuck: once no new calls are made, all that are in progress   *)
(* return.  (While other calls keep coming, a gate may pass a waiter by.)  *)
(***************************************************************************)
CallsReturn ==
  (<>[][\A p \in Procs : ~ Call(p)]_vars)
    => <>[](\A p \in Procs : pc[p] = "user")

=============================================================================
