------------------------------- MODULE Filsys -------------------------------
(***************************************************************************)
(* One mounted file system of the Coherent kernel: the free block list of  *)
(* its super block (balloc and bfree of kernel/coh/fs2.c), the mark that   *)
(* tells a clean file system from a dirty one (smod, superwrite, mssync),  *)
(* sync (usync of kernel/coh/sys3.c, isync of kernel/coh/fs1.c), a crash,  *)
(* and the mount or remount that follows it (fsmount, fsremount).          *)
(*                                                                         *)
(* A process keeps the processor until it sleeps, so one step runs from    *)
(* one sleep to the next: at a gate, at bclaim and bread, and until a      *)
(* synchronous bwrite is on the disk.  Buffers are those of module Bio: a  *)
(* block has one contents in the cache, and the disk may receive it at any *)
(* time, when its buffer is taken for another block.  The files are open   *)
(* while the file system can be written, so their inodes stay in core      *)
(* (fsremount alone tells those that somebody has open from the others);   *)
(* each dinode has a block to itself.  A file's addresses are a sequence   *)
(* of blocks (no indirect blocks); file data is one value.  Medium errors  *)
(* and MFFORCE are left out.                                               *)
(***************************************************************************)
EXTENDS Integers, Sequences, FiniteSets, SequencesExt

CONSTANTS
  Procs,      \* processes that write and truncate files
  Files,
  NBLOCK,     \* the blocks the free list manages: s_isize .. s_fsize-1
  NICFREE,    \* the addresses a super block or a chain block holds
  ND,         \* the addresses an inode holds
  MaxCalls,   \* how many calls there are,
  MaxSyncs,   \* how many syncs,
  MaxCrash,   \* and how often the machine stops and starts again
  Free,       \* owner of an open gate
  NoProc,     \* the processor is at nobody's disposal in the kernel
  NoFile,     \* no inode
  DATA        \* what a chain block's first word is in a block of file data

Blocks == 1 .. NBLOCK
Syncer == "sync"      \* as the owner of the super block's buffer

ASSUME FilsysAssumption ==
  /\ NBLOCK \in Nat /\ NICFREE \in Nat \ {0} /\ ND \in Nat
  /\ MaxCalls \in Nat /\ MaxSyncs \in Nat /\ MaxCrash \in Nat
  /\ {Free, NoProc, Syncer} \intersect Procs = {} /\ Syncer # Free
  /\ DATA \notin Blocks /\ NoFile \notin Files /\ Files \intersect Blocks = {}

VARIABLES
  sup,      \* m_super: s_free, s_tfree, s_dirty
  fmod,     \* s_fmod
  ron,      \* MFRON of m_flag
  root,     \* whether m_dev is rootdev
  flock,    \* the owner of m_flock
  sgate,    \* the owner of the gate of the super block's buffer
  scopy,    \* the contents of that buffer
  mem,      \* i_addr of each inode in core
  imod,     \* the inodes with one of IFACC, IFMOD, IFCRT in i_flag
  ilock,    \* the owner of i_gate
  cino,     \* each dinode, as the buffer cache has it
  cblk,     \* each block, as the buffer cache has it
  disk,     \* the disk: the super block, the dinodes, the blocks
  cpu,      \* the process between two sleeps of a system call
  pc,       \* each process: where it is,
  fl,       \* its inode,
  bl,       \* the block balloc has taken,
  n,        \* how many blocks iclear has still to free,
  cont,     \* and where smod returns to
  spc,      \* where the process that calls sync is
  stodo,    \* what the loop it is in has still to visit
  scur,     \* the inode icopymd copies, and its dinode
  power,    \* whether the machine is up
  calls, syncs, crashes,  \* what there has been, up to the bounds
  raced     \* a sync and a call have met since the file system was mounted

superbuf == <<sgate, scopy>>
mount == <<ron, root>>
invars == <<mem, imod, ilock>>
cache == <<cino, cblk>>
callvars == <<fl, bl, n>>
syncvars == <<spc, stodo, scur>>
history == <<power, calls, syncs, crashes, raced>>
vars == <<sup, fmod, ron, root, flock, sgate, scopy, mem, imod, ilock, cino,
          cblk, disk, cpu, pc, fl, bl, n, cont, spc, stodo, scur, power,
          calls, syncs, crashes, raced>>

NoBlock == 0
Lists == UNION {[1 .. k -> Blocks] : k \in 0 .. NICFREE}
Addrs == UNION {[1 .. k -> Blocks] : k \in 0 .. ND}
Supers == [free : Lists, tfree : 0 .. NBLOCK, dirty : BOOLEAN]
Contents == Lists \union {<<DATA>>}

-----------------------------------------------------------------------------
(* The free list.                                                          *)

(***************************************************************************)
(* The blocks on a free list, in the order balloc takes them, when chain   *)
(* blocks hold what blk says: the first entry of a list, which is taken    *)
(* last, holds the next list.  A list longer than the disk has a loop, and *)
(* is cut there.                                                           *)
(***************************************************************************)
Chain(list, blk) ==
  LET from[k \in 0 .. NBLOCK] ==
        IF k = 0 THEN Reverse(list)
        ELSE LET s == from[k - 1]
             IN  IF s = <<>> \/ Len(s) > NBLOCK \/ Last(s) = DATA THEN s
                 ELSE s \o Reverse(blk[Last(s)])
  IN  from[NBLOCK]

\* A free list s and the addresses of the inodes a share the blocks out.
Partition(s, a) ==
  /\ Range(s) \subseteq Blocks /\ IsInjective(s)
  /\ \A f \in Files : IsInjective(a[f]) /\ Range(a[f]) \intersect Range(s) = {}
  /\ \A f, g \in Files : f # g => Range(a[f]) \intersect Range(a[g]) = {}
  /\ Range(s) \union UNION {Range(a[f]) : f \in Files} = Blocks

\* What icheck finds in order.
Consistent(d) ==
  LET s == Chain(d.sup.free, d.blk)
  IN  Partition(s, d.ino) /\ d.sup.tfree = Len(s)

(***************************************************************************)
(* makesuper of icheck: the blocks of idle are freed, the highest first,   *)
(* onto a new list.  A block that finds the list empty or full is written: *)
(* it holds that list, and begins the next.                                *)
(***************************************************************************)
makesuper(idle, blk) ==
  LET after[k \in 0 .. NBLOCK] ==
        IF k = 0 THEN [free |-> <<>>, tfree |-> 0, blk |-> blk]
        ELSE LET a == after[k - 1]
                 b == NBLOCK + 1 - k
             IN  IF b \notin idle THEN a
                 ELSE IF Len(a.free) \in {0, NICFREE}
                 THEN [free |-> <<b>>, tfree |-> a.tfree + 1,
                       blk |-> [a.blk EXCEPT ![b] = a.free]]
                 ELSE [a EXCEPT !.free = Append(@, b), !.tfree = @ + 1]
  IN  after[NBLOCK]

\* The disk with the inodes ino, and everything they do not have on a new list.
Made(ino, blk) ==
  LET list == makesuper(Blocks \ UNION {Range(ino[f]) : f \in Files}, blk)
  IN  [sup |-> [free |-> list.free, tfree |-> list.tfree, dirty |-> FALSE],
       ino |-> ino, blk |-> list.blk]

\* icheck finds a block of f in g, or twice in f, and repairs neither.
Dup(ino, f, g) ==
  IF f = g THEN ~IsInjective(ino[f]) ELSE Range(ino[f]) \intersect Range(ino[g]) # {}

(***************************************************************************)
(* The disk d after check -s, when the operator has cleared (clri) the     *)
(* inodes that are not in kept.  Nothing but the mark changes on a         *)
(* consistent disk.                                                        *)
(***************************************************************************)
Repaired(d, kept) ==
  IF Consistent(d) THEN [d EXCEPT !.sup.dirty = FALSE]
  ELSE Made([f \in Files |-> IF f \in kept THEN d.ino[f] ELSE <<>>], d.blk)

\* A file system whose files are empty, as check -s leaves it: every block is
\* free.  (mkfs shares the blocks out over its lists from the other end, which
\* makes the same lists when the last one is full.)
Fresh == Made([f \in Files |-> <<>>], [b \in Blocks |-> <<DATA>>])

TypeOK ==
  /\ sup \in Supers
  /\ fmod \in BOOLEAN /\ ron \in BOOLEAN /\ root \in BOOLEAN
  /\ flock \in Procs \union {Free}
  /\ sgate \in Procs \union {Free, Syncer}
  /\ scopy \in Supers
  /\ mem \in [Files -> Addrs] /\ imod \in SUBSET Files
  /\ ilock \in [Files -> Procs \union {Free}]
  /\ cino \in [Files -> Addrs] /\ cblk \in [Blocks -> Contents]
  /\ disk \in [sup : Supers, ino : [Files -> Addrs], blk : [Blocks -> Contents]]
  /\ cpu \in Procs \union {NoProc, Syncer}
  /\ pc \in [Procs -> {"user", "balloc", "take", "refill", "give", "bfree",
                       "chain", "put", "freed", "smod", "superwrite", "superio"}]
  /\ fl \in [Procs -> Files \union {NoFile}] /\ bl \in [Procs -> Blocks \union {NoBlock}]
  /\ n \in [Procs -> 0 .. ND] /\ cont \in [Procs -> {"take", "give", "freed"}]
  /\ spc \in {"user", "isync", "icopymd", "bsync", "mssync", "mssyncgate",
             "mssyncio"}
  /\ stodo \in SUBSET (Files \union Blocks)
  /\ scur \in (Files \union {NoFile}) \X Addrs
  /\ power \in {"up", "down", "damaged"}
  /\ calls \in 0 .. MaxCalls /\ syncs \in 0 .. MaxSyncs /\ crashes \in 0 .. MaxCrash
  /\ raced \in BOOLEAN

\* check has made the free list, and the file system is mounted for writing.
Init ==
  /\ disk = Fresh
  /\ sup = disk.sup /\ fmod = FALSE /\ ron = FALSE
  /\ root \in BOOLEAN
  /\ flock = Free /\ sgate = Free /\ scopy = disk.sup
  /\ mem = disk.ino /\ imod = {} /\ ilock = [f \in Files |-> Free]
  /\ cino = disk.ino /\ cblk = disk.blk
  /\ cpu = NoProc /\ pc = [p \in Procs |-> "user"]
  /\ fl = [p \in Procs |-> NoFile] /\ bl = [p \in Procs |-> NoBlock]
  /\ n = [p \in Procs |-> 0] /\ cont = [p \in Procs |-> "take"]
  /\ spc = "user" /\ stodo = {} /\ scur = <<NoFile, <<>>>>
  /\ power = "up" /\ calls = 0 /\ syncs = 0 /\ crashes = 0 /\ raced = FALSE

-----------------------------------------------------------------------------
(* Steps of a process: it runs, goes on running, sleeps or returns.        *)

\* p goes on at l, after a sleep or without one.
Running(p, l) == power = "up" /\ cpu \in {p, NoProc} /\ pc[p] = l

Goto(p, l) == pc' = [pc EXCEPT ![p] = l] /\ cpu' = p
Yield(p, l) == pc' = [pc EXCEPT ![p] = l] /\ cpu' = NoProc

\* Go to l, where the gate is locked: sleep if it is not open.
GotoGate(p, l, gate) == IF gate = Free THEN Goto(p, l) ELSE Yield(p, l)

\* The call ends: the inode's gate opens, and the call's variables are gone.
Return(p) ==
  /\ Yield(p, "user")
  /\ ilock' = [ilock EXCEPT ![fl[p]] = Free]
  /\ fl' = [fl EXCEPT ![p] = NoFile]
  /\ bl' = [bl EXCEPT ![p] = NoBlock]
  /\ n' = [n EXCEPT ![p] = 0]
  /\ cont' = [cont EXCEPT ![p] = "take"]

\* smod is called, and returns to l.
CallSmod(p, l) == Goto(p, "smod") /\ cont' = [cont EXCEPT ![p] = l]

(***************************************************************************)
(* smod: the first modification after a sync sleeps in superwrite, any     *)
(* other costs nothing.                                                    *)
(***************************************************************************)
smod(p) ==
  /\ Running(p, "smod")
  /\ IF fmod THEN Goto(p, cont[p]) /\ UNCHANGED <<sup, fmod>>
     ELSE /\ fmod' = TRUE
          /\ sup' = [sup EXCEPT !.dirty = TRUE]
          /\ Yield(p, "superwrite")
  /\ UNCHANGED <<mount, flock, superbuf, invars, cache, disk, callvars, cont,
                 syncvars, history>>

\* superwrite: the buffer is claimed, and has the super block as it is then.
superwrite(p) ==
  /\ Running(p, "superwrite") /\ sgate = Free
  /\ sgate' = p /\ scopy' = sup
  /\ Yield(p, "superio")
  /\ UNCHANGED <<sup, fmod, mount, flock, invars, cache, disk, callvars, cont,
                 syncvars, history>>

\* bwrite is done, and the buffer released.
superio(p) ==
  /\ Running(p, "superio")
  /\ disk' = [disk EXCEPT !.sup = scopy]
  /\ sgate' = Free /\ scopy' = scopy
  /\ Goto(p, cont[p])
  /\ UNCHANGED <<sup, fmod, mount, flock, invars, cache, callvars, cont,
                 syncvars, history>>

-----------------------------------------------------------------------------
(* A process writes a new block of a file.                                 *)

\* iwrite: the inode is marked first; getment refuses a read only file system.
iwrite(p, f) ==
  /\ Running(p, "user") /\ ilock[f] = Free /\ Len(mem[f]) < ND
  /\ calls < MaxCalls /\ calls' = calls + 1
  /\ imod' = imod \union {f}
  /\ IF ron THEN UNCHANGED <<cpu, pc, fl, ilock, raced>>
     ELSE /\ ilock' = [ilock EXCEPT ![f] = p]
          /\ fl' = [fl EXCEPT ![p] = f]
          /\ GotoGate(p, "balloc", flock)
          /\ raced' = (raced \/ spc # "user")
  /\ UNCHANGED <<sup, fmod, mount, flock, superbuf, mem, cache, disk, bl, n,
                 cont, syncvars, power, syncs, crashes>>

\* balloc, from lock(m_flock) on.
balloc(p) ==
  /\ Running(p, "balloc") /\ flock = Free
  /\ IF sup.free = <<>> THEN Return(p) /\ UNCHANGED flock
     ELSE /\ flock' = p
          /\ CallSmod(p, "take")
          /\ UNCHANGED <<ilock, callvars>>
  /\ UNCHANGED <<sup, fmod, mount, superbuf, mem, imod, cache, disk, syncvars,
                 history>>

(***************************************************************************)
(* The block is the last of the list; when it was the only one, it holds   *)
(* the next list, and bread sleeps.  smod is called a second time.         *)
(***************************************************************************)
take(p) ==
  LET s == [sup EXCEPT !.free = Front(@)]
  IN  /\ Running(p, "take")
      /\ bl' = [bl EXCEPT ![p] = Last(sup.free)]
      /\ IF s.free = <<>> THEN sup' = s /\ Yield(p, "refill") /\ UNCHANGED cont
         ELSE sup' = [s EXCEPT !.tfree = @ - 1] /\ CallSmod(p, "give")
      /\ UNCHANGED <<fmod, mount, flock, superbuf, invars, cache, disk, fl, n,
                     syncvars, history>>

\* Mutant: no second smod after the list has been filled again.
refillUnmarked(p) ==
  /\ Running(p, "refill")
  /\ sup' = [sup EXCEPT !.free = cblk[bl[p]], !.tfree = @ - 1]
  /\ Goto(p, "give")
  /\ UNCHANGED <<fmod, mount, flock, superbuf, invars, cache, disk, callvars,
                 cont, syncvars, history>>

refill(p) ==
  /\ Running(p, "refill")
  /\ sup' = [sup EXCEPT !.free = cblk[bl[p]], !.tfree = @ - 1]
  /\ CallSmod(p, "give")
  /\ UNCHANGED <<fmod, mount, flock, superbuf, invars, cache, disk, callvars,
                 syncvars, history>>

\* balloc returns; aread puts the block into the inode and clears it.
give(p) ==
  /\ Running(p, "give")
  /\ flock' = Free
  /\ mem' = [mem EXCEPT ![fl[p]] = Append(@, bl[p])]
  /\ cblk' = [cblk EXCEPT ![bl[p]] = <<DATA>>]
  /\ Return(p)
  /\ UNCHANGED <<sup, fmod, mount, superbuf, imod, cino, disk, syncvars, history>>

-----------------------------------------------------------------------------
(* A process truncates a file.                                             *)

\* ucreat of a file that exists, as far as iclear.
ucreat(p, f) ==
  /\ Running(p, "user") /\ ~ron /\ ilock[f] = Free /\ mem[f] # <<>>
  /\ calls < MaxCalls /\ calls' = calls + 1
  /\ ilock' = [ilock EXCEPT ![f] = p]
  /\ fl' = [fl EXCEPT ![p] = f]
  /\ n' = [n EXCEPT ![p] = Len(mem[f])]
  /\ GotoGate(p, "bfree", flock)
  /\ raced' = (raced \/ spc # "user")
  /\ UNCHANGED <<sup, fmod, mount, flock, superbuf, mem, imod, cache, disk, bl,
                 cont, syncvars, power, syncs, crashes>>

\* bfree, from lock(m_flock) on; bclaim sleeps when the block is to hold a list.
bfree(p) ==
  /\ Running(p, "bfree") /\ flock = Free
  /\ flock' = p
  /\ IF Len(sup.free) \in {0, NICFREE} THEN Yield(p, "chain") ELSE Goto(p, "put")
  /\ UNCHANGED <<sup, fmod, mount, superbuf, invars, cache, disk, callvars,
                 cont, syncvars, history>>

\* The list goes into the block, which begins a new one.
chain(p) ==
  /\ Running(p, "chain")
  /\ cblk' = [cblk EXCEPT ![mem[fl[p]][n[p]]] = sup.free]
  /\ sup' = [sup EXCEPT !.free = <<>>]
  /\ Goto(p, "put")
  /\ UNCHANGED <<fmod, mount, flock, superbuf, invars, cino, disk, callvars,
                 cont, syncvars, history>>

put(p) ==
  /\ Running(p, "put")
  /\ sup' = [sup EXCEPT !.free = Append(@, mem[fl[p]][n[p]]), !.tfree = @ + 1]
  /\ n' = [n EXCEPT ![p] = @ - 1]
  /\ CallSmod(p, "freed")
  /\ UNCHANGED <<fmod, mount, flock, superbuf, invars, cache, disk, fl, bl,
                 syncvars, history>>

\* bfree returns.  iclear removes the addresses after the last block is free.
freed(p) ==
  /\ Running(p, "freed")
  /\ flock' = Free
  /\ IF n[p] > 0 THEN Goto(p, "bfree") /\ UNCHANGED <<invars, callvars, cont>>
     ELSE /\ mem' = [mem EXCEPT ![fl[p]] = <<>>]
          /\ imod' = imod \union {fl[p]}
          /\ Return(p)
  /\ UNCHANGED <<sup, fmod, mount, superbuf, cache, disk, syncvars, history>>

-----------------------------------------------------------------------------
(* usync: the inodes, then the buffers, then the super block.              *)

SyncAt(l) == power = "up" /\ cpu \in {NoProc, Syncer} /\ spc = l

Calls == <<pc, fl, bl, n, cont>>

\* The buffers the disk has not received yet: those with BFMOD.
Modified == {f \in Files : cino[f] # disk.ino[f]}
              \union {b \in Blocks : cblk[b] # disk.blk[b]}

\* What each loop of usync visits.  (A buffer that is modified while bsync runs
\* may be met or not: flush writes it, or not.)
Visits == [isync |-> Files, bsync |-> Modified, mssync |-> {}, user |-> {}]

\* Mutant: the super block before the buffers, as it used to be.
usyncEarly ==
  [user |-> "isync", isync |-> "mssync", mssync |-> "bsync", bsync |-> "user"]

\* The stages of usync in their order.
usync ==
  [user |-> "isync", isync |-> "bsync", bsync |-> "mssync", mssync |-> "user"]

\* The next stage; bsync sleeps if there is anything to write.
Stage(l) ==
  /\ spc' = l /\ stodo' = Visits[l]
  /\ cpu' = IF l = "user" \/ (l = "bsync" /\ Modified # {}) THEN NoProc ELSE Syncer

\* sync is called; on a read only file system it does nothing.
syncBegin ==
  /\ SyncAt("user") /\ ~ron
  /\ syncs < MaxSyncs /\ syncs' = syncs + 1
  /\ Stage(usync["user"])
  /\ raced' = (raced \/ \E p \in Procs : pc[p] # "user")
  /\ UNCHANGED <<sup, fmod, mount, flock, superbuf, invars, cache, disk, Calls,
                 scur, power, calls, crashes>>

(***************************************************************************)
(* isync looks at an inode, without its gate.  icopymd makes the dinode of *)
(* a modified one, and then sleeps in bread.                               *)
(***************************************************************************)
isync(f) ==
  /\ SyncAt("isync") /\ f \in stodo
  /\ stodo' = stodo \ {f}
  /\ IF f \in imod THEN spc' = "icopymd" /\ scur' = <<f, mem[f]>> /\ cpu' = NoProc
     ELSE cpu' = Syncer /\ UNCHANGED <<spc, scur>>
  /\ UNCHANGED <<sup, fmod, mount, flock, superbuf, invars, cache, disk, Calls,
                 history>>

icopymd ==
  /\ SyncAt("icopymd")
  /\ cino' = [cino EXCEPT ![scur[1]] = scur[2]]
  /\ imod' = imod \ {scur[1]}
  /\ spc' = "isync" /\ scur' = <<NoFile, <<>>>> /\ cpu' = Syncer
  /\ UNCHANGED <<sup, fmod, mount, flock, superbuf, mem, ilock, cblk, disk,
                 Calls, stodo, history>>

\* The contents the cache has of the buffer x reach the disk.
Written(x) ==
  disk' = IF x \in Files THEN [disk EXCEPT !.ino[x] = cino[x]]
          ELSE [disk EXCEPT !.blk[x] = cblk[x]]

\* bsync writes the buffers one after the other, and sleeps for each.
bsync(x) ==
  /\ SyncAt("bsync") /\ x \in stodo
  /\ stodo' = stodo \ {x}
  /\ Written(x)
  /\ cpu' = IF stodo' = {} THEN Syncer ELSE NoProc
  /\ UNCHANGED <<sup, fmod, mount, flock, superbuf, invars, cache, Calls, spc,
                 scur, history>>

\* A loop has visited everything.
syncNext ==
  /\ spc \in {"isync", "bsync"} /\ SyncAt(spc) /\ stodo = {}
  /\ Stage(usync[spc])
  /\ UNCHANGED <<sup, fmod, mount, flock, superbuf, invars, cache, disk, Calls,
                 scur, history>>

\* mssync: nothing to do, or bclaim of the super block's buffer.
mssync ==
  /\ SyncAt("mssync")
  /\ IF fmod \/ root THEN spc' = "mssyncgate" /\ cpu' = NoProc /\ UNCHANGED stodo
     ELSE Stage(usync["mssync"])
  /\ UNCHANGED <<sup, fmod, mount, flock, superbuf, invars, cache, disk, Calls,
                 scur, history>>

mssyncClaim ==
  /\ SyncAt("mssyncgate") /\ sgate = Free
  /\ fmod' = FALSE
  /\ sup' = [sup EXCEPT !.dirty = FALSE]
  /\ sgate' = Syncer /\ scopy' = sup'
  /\ spc' = "mssyncio" /\ cpu' = NoProc
  /\ UNCHANGED <<mount, flock, invars, cache, disk, Calls, stodo, scur, history>>

mssyncDone ==
  /\ SyncAt("mssyncio")
  /\ disk' = [disk EXCEPT !.sup = scopy]
  /\ sgate' = Free /\ scopy' = scopy
  /\ Stage(usync["mssync"])
  /\ UNCHANGED <<sup, fmod, mount, flock, invars, cache, Calls, scur, history>>

-----------------------------------------------------------------------------
(* The disk, and the machine.                                              *)

\* A modified buffer is written because bclaim takes it for another block.  A
\* read only file system has none.
flush(x) ==
  /\ power = "up" /\ cpu = NoProc /\ ~ron /\ x \in Modified
  /\ Written(x)
  /\ stodo' = IF spc = "bsync" THEN stodo \ {x} ELSE stodo
  /\ UNCHANGED <<sup, fmod, mount, flock, superbuf, invars, cache, cpu, Calls, spc,
                 scur, history>>

\* The machine stops: only the disk is left.  (What is in core has no meaning
\* until fsmount; here it is as if a fresh file system were mounted.)
Crash ==
  /\ power = "up" /\ crashes < MaxCrash
  /\ power' = "down" /\ crashes' = crashes + 1
  /\ sup' = Fresh.sup /\ fmod' = FALSE /\ ron' = FALSE
  /\ flock' = Free /\ sgate' = Free /\ scopy' = Fresh.sup
  /\ mem' = Fresh.ino /\ imod' = {} /\ ilock' = [f \in Files |-> Free]
  /\ cino' = Fresh.ino /\ cblk' = Fresh.blk
  /\ cpu' = NoProc /\ pc' = [p \in Procs |-> "user"]
  /\ fl' = [p \in Procs |-> NoFile] /\ bl' = [p \in Procs |-> NoBlock]
  /\ n' = [p \in Procs |-> 0] /\ cont' = [p \in Procs |-> "take"]
  /\ spc' = "user" /\ stodo' = {} /\ scur' = <<NoFile, <<>>>>
  /\ UNCHANGED <<root, disk, calls, syncs, raced>>

(***************************************************************************)
(* The file system is mounted again, read only unless it is marked clean.  *)
(* One that is marked clean and is not consistent is damaged: the model    *)
(* follows it no further than to check.                                    *)
(***************************************************************************)
fsmount ==
  /\ power = "down"
  /\ sup' = disk.sup /\ fmod' = FALSE /\ ron' = disk.sup.dirty
  /\ mem' = disk.ino
  /\ cino' = disk.ino /\ cblk' = disk.blk
  /\ raced' = ~(disk.sup.dirty \/ Consistent(disk))
  /\ power' = IF raced' THEN "damaged" ELSE "up"
  /\ UNCHANGED <<root, flock, superbuf, imod, ilock, disk, cpu, Calls, syncvars,
                 calls, syncs, crashes>>

(***************************************************************************)
(* check -s repairs the file system on the raw device.  It gives up when a *)
(* block is in two files; the operator clears files until none is.         *)
(***************************************************************************)
check ==
  /\ power = "damaged" \/ (power = "up" /\ ron)
  /\ \E kept \in SUBSET Files :
       /\ \A f, g \in kept : ~Dup(disk.ino, f, g)
       /\ \A f \in Files \ kept : \E g \in Files : Dup(disk.ino, f, g)
       /\ disk' = Repaired(disk, kept)
  /\ power' = IF power = "damaged" THEN "down" ELSE "up"
  /\ UNCHANGED <<sup, fmod, mount, flock, superbuf, invars, cache, cpu, Calls,
                 syncvars, calls, syncs, crashes, raced>>

\* Mutant: the inodes that have a reference stay as they are, too, unnoticed.
fsremountStale ==
  /\ SyncAt("user") /\ ron /\ ~disk.sup.dirty
  /\ sup' = disk.sup /\ fmod' = FALSE /\ ron' = FALSE
  /\ cino' = disk.ino /\ cblk' = disk.blk
  /\ \E unused \in SUBSET Files :
       power' = IF \A f \in unused : mem[f] = disk.ino[f] THEN "up" ELSE "damaged"
  /\ UNCHANGED <<root, flock, superbuf, invars, disk, cpu, Calls, syncvars,
                 calls, syncs, crashes, raced>>

(***************************************************************************)
(* mount -w: the buffers are flushed, the super block is read again, and   *)
(* the file system becomes writable if it is marked clean.  iremap reads   *)
(* the inodes that have a reference again, but not the structures that     *)
(* nobody uses, which iattach finds later and takes as they are.  (Writes  *)
(* are refused until the end, so iremap's sleeps are not seen.)  If check  *)
(* has changed an inode that is kept so, the file system is damaged, which *)
(* nothing in the code knows: the model does not follow it.                *)
(***************************************************************************)
fsremount ==
  /\ SyncAt("user") /\ ron /\ ~disk.sup.dirty
  /\ sup' = disk.sup /\ fmod' = FALSE /\ ron' = FALSE
  /\ cino' = disk.ino /\ cblk' = disk.blk
  /\ \E unused \in SUBSET Files :
       /\ mem' = [f \in Files |-> IF f \in unused THEN mem[f] ELSE disk.ino[f]]
       /\ imod' = imod \intersect unused
       /\ power' = IF \A f \in unused : mem[f] = disk.ino[f] THEN "up" ELSE "damaged"
  /\ UNCHANGED <<root, flock, superbuf, ilock, disk, cpu, Calls, syncvars,
                 calls, syncs, crashes, raced>>

\* Nothing more is asked of the file system (the bounds end every behaviour so;
\* a process that waits for ever is a deadlock).
rest ==
  /\ spc = "user" /\ \A p \in Procs : pc[p] = "user"
  /\ UNCHANGED vars

Write(p) ==
  \/ \E f \in Files : iwrite(p, f)
  \/ balloc(p)
  \/ take(p)
  \/ refill(p)
  \/ give(p)

Truncate(p) ==
  \/ \E f \in Files : ucreat(p, f)
  \/ bfree(p)
  \/ chain(p)
  \/ put(p)
  \/ freed(p)

Super(p) == smod(p) \/ superwrite(p) \/ superio(p)

Sync ==
  \/ syncBegin
  \/ \E f \in Files : isync(f)
  \/ icopymd
  \/ \E x \in Files \union Blocks : bsync(x)
  \/ syncNext
  \/ mssync
  \/ mssyncClaim
  \/ mssyncDone

Next ==
  \/ \E p \in Procs : Write(p) \/ Truncate(p) \/ Super(p)
  \/ Sync
  \/ \E x \in Files \union Blocks : flush(x)
  \/ Crash
  \/ fsmount
  \/ check
  \/ fsremount
  \/ rest

Spec == Init /\ [][Next]_vars

-----------------------------------------------------------------------------
(* Properties.                                                             *)

\* The file system can be written, and nobody is between two sleeps.
Writable == power = "up" /\ ~ron /\ cpu = NoProc

\* The addresses of f that are still its own while iclear frees its blocks.
Held(f) ==
  IF ilock[f] # Free THEN
    LET p == ilock[f]
    IN  IF n[p] > 0 \/ pc[p] \in {"chain", "put", "freed"}
           \/ (pc[p] \in {"smod", "superwrite", "superio"} /\ cont[p] = "freed")
        THEN SubSeq(mem[f], 1, n[p])
        ELSE IF bl[p] # NoBlock THEN Append(mem[f], bl[p]) ELSE mem[f]
  ELSE mem[f]

\* The list in core; while balloc reads a chain block, the list in that block.
FreeNow ==
  IF \E p \in Procs : pc[p] = "refill"
  THEN cblk[bl[CHOOSE p \in Procs : pc[p] = "refill"]]
  ELSE sup.free

(***************************************************************************)
(* Every block is in one place: once on the free list that balloc follows  *)
(* through the cached chain blocks, or once in one inode, or in the hands  *)
(* of the process that is moving it.  So no two files are given one block, *)
(* and none is lost, whatever balloc, bfree, sync and a remount after      *)
(* check do between each other's sleeps.  s_tfree is exact whenever        *)
(* m_flock is open.  (A remount that keeps an inode that check has         *)
(* changed, because nobody had the file open, ends this: see fsremount.)   *)
(***************************************************************************)
OneOwner ==
  /\ TypeOK
  /\ Writable =>
       LET s == Chain(FreeNow, cblk)
       IN  /\ Partition(s, [f \in Files |-> Held(f)])
           /\ flock = Free => sup.tfree = Len(s)

(***************************************************************************)
(* A sync that lands while balloc sleeps clears s_fmod; what balloc then   *)
(* does to the free list must not stay in core only.  When s_fmod is clear *)
(* and nobody is changing or writing the super block, the disk has the     *)
(* free list that is in core (balloc's second smod, smod at the end of     *)
(* bfree).                                                                 *)
(***************************************************************************)
FreeListSaved ==
  Writable /\ ~fmod /\ flock = Free /\ sgate = Free =>
    disk.sup = sup

(***************************************************************************)
(* What the clean mark is for: a disk that is marked clean is consistent,  *)
(* whenever the machine stops, if no sync met a call since the file system *)
(* was mounted, and no remount kept an inode that check has changed (see   *)
(* fsremount).  Calls may meet each other, and the cache may write any     *)
(* block at any time.                                                      *)
(***************************************************************************)
CleanWhenSerial == ~raced /\ ~disk.sup.dirty => Consistent(disk)

=============================================================================
