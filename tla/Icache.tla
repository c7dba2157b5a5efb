------------------------------- MODULE Icache -------------------------------
(***************************************************************************)
(* The inodes in core of the Coherent kernel (iattach, idetach, icopydm,   *)
(* icopymd and isync of kernel/coh/fs1.c) and the list of free inodes      *)
(* (ialloc, ifree and bad of kernel/coh/fs2.c), as open, creat, write,     *)
(* unlink, close and sync use them.                                        *)
(*                                                                         *)
(* A process keeps the processor until it sleeps: at a closed gate, at     *)
(* bread and bclaim, and in smod when it writes the super block.  One file *)
(* system, whose inodes are in one block; each file has a directory of its *)
(* own, so namer[i] is the gate of the directory that names inode i.  What *)
(* is in an inode is abstracted to whether it is in use, its links and a   *)
(* version.  iattach takes any unreferenced structure for the least        *)
(* recently used.  Medium errors and mounted directories are left out.     *)
(***************************************************************************)
EXTENDS Integers, Sequences, FiniteSets, SequencesExt

CONSTANTS
  Procs,
  NINODE,     \* the structures in core
  NINO,       \* the inodes of the file system: 1 is the bad block file
  NICINOD,    \* how many free inodes the super block lists
  MaxCalls,   \* how many calls there are, and how many writes to an inode
  MaxVer,
  Free,       \* owner of an open gate
  NoProc      \* the processor is at nobody's disposal in the kernel

Slots == 1 .. NINODE
Inos == 1 .. NINO
BADFIN == 1
Files == Inos \ {BADFIN}
Syncer == "sync"

ASSUME IcacheAssumption ==
  /\ NINODE \in Nat \ {0} /\ NINO \in Nat \ {0} /\ NICINOD \in Nat \ {0}
  /\ MaxCalls \in Nat /\ MaxVer \in Nat
  /\ IsFiniteSet(Procs) /\ {Free, NoProc} \intersect Procs = {}

VARIABLES
  ino, refc, gate, flag, val,  \* each structure: i_ino, i_refc, the owner of
                \* i_gate, whether i_flag has IFACC, IFMOD or IFCRT, the rest
  dino,         \* each dinode, as the buffer cache has it
  list,         \* s_inode[0 .. s_ninode-1]
  mlock,        \* the owner of m_ilock
  names,        \* how many directory entries name an inode
  namer,        \* the owner of the gate of the directory they are in
  unnamed,      \* the inodes creat has made and could not name
  cpu,          \* the process between two sleeps of a system call
  pc, op,       \* each process: where it is, its call,
  want, ip,     \* the inode number it looks for and the structure it has,
  aret, dret,   \* where iattach and idetach return to,
  fd,           \* and the structure of the file it has open, or 0
  spc, stodo,   \* sync: where it is and the structures isync has to visit,
  scur,         \* the structure, the number and the dinode icopymd copies
  calls,
  overtaken     \* icopymd of sync has overtaken the user of an inode

core == <<ino, refc, gate, flag, val>>
super == <<list, mlock>>
dirs == <<names, namer, unnamed>>
locals == <<op, want, ip, aret, dret, fd>>
syncvars == <<spc, stodo, scur, overtaken>>
vars == <<ino, refc, gate, flag, val, dino, list, mlock, names, namer, unnamed,
          cpu, pc, op, want, ip, aret, dret, fd, spc, stodo, scur, calls,
          overtaken>>

Inode(m, l, v) == [mode |-> m, nlink |-> l, ver |-> v]
Clear == Inode(FALSE, 0, 0)
Values == [mode : BOOLEAN, nlink : 0 .. 1, ver : 0 .. MaxVer]

Init ==
  /\ ino = [s \in Slots |-> 0] /\ refc = [s \in Slots |-> 0]
  /\ gate = [s \in Slots |-> Free] /\ flag = [s \in Slots |-> FALSE]
  /\ val = [s \in Slots |-> Clear]
  /\ dino = [i \in Inos |-> IF i = BADFIN THEN Inode(TRUE, 1, 0) ELSE Clear]
  /\ list = <<>> /\ mlock = Free
  /\ names = [i \in Files |-> 0] /\ namer = [i \in Files |-> Free]
  /\ unnamed = {}
  /\ cpu = NoProc
  /\ pc = [p \in Procs |-> "user"] /\ op = [p \in Procs |-> "none"]
  /\ want = [p \in Procs |-> 0] /\ ip = [p \in Procs |-> 0]
  /\ aret = [p \in Procs |-> "user"] /\ dret = [p \in Procs |-> "user"]
  /\ fd = [p \in Procs |-> 0]
  /\ spc = "user" /\ stodo = {} /\ scur = <<0, 0, Clear>>
  /\ calls = 0 /\ overtaken = FALSE

-----------------------------------------------------------------------------
(* Steps of a process: it runs, goes on running, sleeps or returns.        *)

\* p goes on at l, after a sleep or without one.
Running(p, l) == cpu \in {p, NoProc} /\ pc[p] = l
Goto(p, l) == pc' = [pc EXCEPT ![p] = l] /\ cpu' = p
Yield(p, l) == pc' = [pc EXCEPT ![p] = l] /\ cpu' = NoProc

\* The gate p is about to lock is closed, and p sleeps.
lock(p) ==
  /\ cpu = p
  /\ \/ pc[p] \in {"ilock", "victim", "wlock", "clock"} /\ gate[ip[p]] # Free
     \/ pc[p] \in {"ifree", "ialloc", "badblock", "goodblock"} /\ mlock # Free
  /\ cpu' = NoProc
  /\ UNCHANGED <<core, dino, super, dirs, pc, locals, syncvars, calls>>

Return(p) ==
  /\ Yield(p, "user")
  /\ op' = [op EXCEPT ![p] = "none"]
  /\ want' = [want EXCEPT ![p] = 0]
  /\ ip' = [ip EXCEPT ![p] = 0]
  /\ aret' = [aret EXCEPT ![p] = "user"]
  /\ dret' = [dret EXCEPT ![p] = "user"]

\* Call iattach(i); it returns to l, with no structure if there is none left.
CallIattach(p, i, l) ==
  /\ Goto(p, "iattach")
  /\ want' = [want EXCEPT ![p] = i]
  /\ aret' = [aret EXCEPT ![p] = l]

\* Call idetach of the structure p has; it returns to l.
CallIdetach(p, l) ==
  /\ Goto(p, "idetach")
  /\ dret' = [dret EXCEPT ![p] = l]

-----------------------------------------------------------------------------
(* iattach.                                                                *)

\* The search of the table: the inode, or a structure nobody refers to.
iattach(p) ==
  LET found == {s \in Slots : ino[s] = want[p]}
      unused == {s \in Slots : refc[s] = 0}
  IN  /\ Running(p, "iattach")
      /\ \/ \E s \in found :
              ip' = [ip EXCEPT ![p] = s] /\ Goto(p, "ilock")
         \/ /\ found = {}
            /\ \E s \in unused :
                 ip' = [ip EXCEPT ![p] = s] /\ Goto(p, "victim")
         \/ /\ found = {} /\ unused = {}
            /\ ip' = [ip EXCEPT ![p] = 0] /\ Goto(p, aret[p])
      /\ UNCHANGED <<core, dino, super, dirs, op, want, aret, dret, fd, syncvars,
                     calls>>

\* It was in the table, and is it still?
ilock(p) ==
  LET s == ip[p]
  IN  /\ Running(p, "ilock") /\ gate[s] = Free
      /\ IF ino[s] # want[p] THEN Goto(p, "iattach") /\ UNCHANGED <<gate, refc>>
         ELSE /\ gate' = [gate EXCEPT ![s] = p]
              /\ refc' = [refc EXCEPT ![s] = @ + 1]
              /\ Goto(p, aret[p])
      /\ UNCHANGED <<ino, flag, val, dino, super, dirs, locals, syncvars, calls>>

\* The structure is for inode want[p] now; icopydm sleeps in bread.
Install(p) ==
  LET s == ip[p]
  IN  /\ gate' = [gate EXCEPT ![s] = p]
      /\ ino' = [ino EXCEPT ![s] = want[p]]
      /\ refc' = [refc EXCEPT ![s] = 1]
      /\ flag' = [flag EXCEPT ![s] = FALSE]
      /\ Yield(p, "icopydm")

\* Mutant: no second search after the sleep.
victimNoRescan(p) ==
  /\ Running(p, "victim") /\ gate[ip[p]] = Free
  /\ IF refc[ip[p]] # 0
     THEN Goto(p, "iattach") /\ UNCHANGED <<gate, ino, refc, flag>>
     ELSE Install(p)
  /\ UNCHANGED <<val, dino, super, dirs, locals, syncvars, calls>>

\* Mutant: a structure that was unused before the sleep is unused after it.
victimNoTest(p) ==
  /\ Running(p, "victim") /\ gate[ip[p]] = Free
  /\ IF \E s \in Slots : ino[s] = want[p]
     THEN Goto(p, "iattach") /\ UNCHANGED <<gate, ino, refc, flag>>
     ELSE Install(p)
  /\ UNCHANGED <<val, dino, super, dirs, locals, syncvars, calls>>

\* The unused structure is locked; if anything has changed, search again.
victim(p) ==
  /\ Running(p, "victim") /\ gate[ip[p]] = Free
  /\ IF refc[ip[p]] # 0 \/ \E s \in Slots : ino[s] = want[p]
     THEN Goto(p, "iattach") /\ UNCHANGED <<gate, ino, refc, flag>>
     ELSE Install(p)
  /\ UNCHANGED <<val, dino, super, dirs, locals, syncvars, calls>>

icopydm(p) ==
  /\ Running(p, "icopydm")
  /\ val' = [val EXCEPT ![ip[p]] = dino[want[p]]]
  /\ Goto(p, aret[p])
  /\ UNCHANGED <<ino, refc, gate, flag, dino, super, dirs, locals, syncvars,
                 calls>>

-----------------------------------------------------------------------------
(* idetach.                                                                *)

\* The last user writes back an inode that is modified or has no links.
idetach(p) ==
  LET s == ip[p]
  IN  /\ Running(p, "idetach")
      /\ refc' = [refc EXCEPT ![s] = @ - 1]
      /\ IF refc[s] = 1 /\ (flag[s] \/ val[s].nlink = 0)
         THEN /\ IF val[s].nlink = 0 /\ ino[s] # BADFIN
                 THEN Yield(p, "iclear") ELSE Goto(p, "icopymd")
              /\ UNCHANGED gate
         ELSE gate' = [gate EXCEPT ![s] = Free] /\ Goto(p, dret[p])
      /\ UNCHANGED <<ino, flag, val, dino, super, dirs, locals, syncvars, calls>>

\* icopymd of an inode with no links: its blocks are freed, with sleeps, and
\* then it is free itself.
iclear(p) ==
  LET s == ip[p]
  IN  /\ Running(p, "iclear")
      /\ val' = [val EXCEPT ![s].mode = FALSE]
      /\ flag' = [flag EXCEPT ![s] = @ \/ val[s].mode]
      /\ Goto(p, "ifree")
      /\ UNCHANGED <<ino, refc, gate, dino, super, dirs, locals, syncvars, calls>>

\* ifree locks m_ilock and sleeps in smod.
ifree(p) ==
  /\ Running(p, "ifree") /\ mlock = Free
  /\ mlock' = p
  /\ Yield(p, "ifreed")
  /\ UNCHANGED <<core, dino, list, dirs, locals, syncvars, calls>>

\* The inode that is freed is ip's, or the one ialloc could not attach.
ifreed(p) ==
  LET i == IF ip[p] = 0 THEN want[p] ELSE ino[ip[p]]
  IN  /\ Running(p, "ifreed")
      /\ list' = IF Len(list) < NICINOD THEN Append(list, i) ELSE list
      /\ mlock' = Free
      /\ IF ip[p] = 0 THEN Goto(p, "failed") ELSE Goto(p, "icopymd")
      /\ UNCHANGED <<core, dino, dirs, locals, syncvars, calls>>

\* The dinode is made, bread sleeps, and it is put into the buffer.  The gate
\* is closed all the time, so the inode cannot change between.
icopymd(p) ==
  /\ Running(p, "icopymd")
  /\ Yield(p, "idone")
  /\ UNCHANGED <<core, dino, super, dirs, locals, syncvars, calls>>

idone(p) ==
  LET s == ip[p]
  IN  /\ Running(p, "idone")
      /\ dino' = [dino EXCEPT ![ino[s]] = val[s]]
      /\ flag' = [flag EXCEPT ![s] = FALSE]
      /\ gate' = [gate EXCEPT ![s] = Free]
      /\ Goto(p, dret[p])
      /\ UNCHANGED <<ino, refc, val, super, dirs, locals, syncvars, calls>>

-----------------------------------------------------------------------------
(* ialloc.                                                                 *)

\* lock(m_ilock), and smod sleeps.
ialloc(p) ==
  /\ Running(p, "ialloc") /\ mlock = Free
  /\ mlock' = p
  /\ Yield(p, "have")
  /\ UNCHANGED <<core, dino, list, dirs, locals, syncvars, calls>>

\* The list is empty: bad looks at the bad block file, with m_ilock open.
have(p) ==
  /\ Running(p, "have")
  /\ IF list # <<>> THEN Goto(p, "take") /\ UNCHANGED <<mlock, want, aret>>
     ELSE mlock' = Free /\ CallIattach(p, BADFIN, "bad")
  /\ UNCHANGED <<core, dino, list, dirs, op, ip, dret, fd, syncvars, calls>>

\* bad has the inode, and releases it; or there was no structure for it.
bad(p) ==
  /\ Running(p, "bad")
  /\ IF ip[p] = 0 THEN Goto(p, "badblock") /\ UNCHANGED dret
     ELSE CallIdetach(p, "goodblock")
  /\ UNCHANGED <<core, dino, super, dirs, op, want, ip, aret, fd, syncvars,
                 calls>>

\* m_ilock again.  A list that is not empty is used; a bad block has no inodes;
\* else the block is read.
relock(p) ==
  /\ \/ Running(p, "badblock") \/ Running(p, "goodblock")
  /\ mlock = Free
  /\ IF list # <<>> THEN mlock' = p /\ Yield(p, "have")
     ELSE IF pc[p] = "goodblock" THEN mlock' = p /\ Yield(p, "scan")
     ELSE UNCHANGED mlock /\ Goto(p, "failed")
  /\ UNCHANGED <<core, dino, list, dirs, locals, syncvars, calls>>

\* The inodes that are not in use in the block are the new list, in their order.
scan(p) ==
  LET idle == {i \in Inos : ~dino[i].mode}
      n == IF Cardinality(idle) < NICINOD THEN Cardinality(idle) ELSE NICINOD
  IN  /\ Running(p, "scan")
      /\ list' \in {s \in [1 .. n -> idle] :
                     \A k \in 1 .. n : Cardinality({i \in idle : i < s[k]}) = k - 1}
      /\ IF idle = {} THEN mlock' = Free /\ Goto(p, "failed")
         ELSE UNCHANGED mlock /\ Goto(p, "take")
      /\ UNCHANGED <<core, dino, dirs, locals, syncvars, calls>>

\* The last of the list; the second smod may sleep.
take(p) ==
  /\ Running(p, "take")
  /\ want' = [want EXCEPT ![p] = Last(list)]
  /\ list' = Front(list)
  /\ Yield(p, "taken")
  /\ UNCHANGED <<core, dino, mlock, dirs, op, ip, aret, dret, fd, syncvars, calls>>

taken(p) ==
  /\ Running(p, "taken")
  /\ mlock' = Free
  /\ CallIattach(p, want[p], "attached")
  /\ UNCHANGED <<core, dino, list, dirs, op, ip, dret, fd, syncvars, calls>>

\* Mutant: whatever ialloc finds on the list is not in use.
attachedBusy(p) ==
  LET s == ip[p]
  IN  /\ Running(p, "attached")
      /\ IF s = 0 THEN Goto(p, "ifree") /\ UNCHANGED <<flag, val, dret>>
         ELSE /\ val' = [val EXCEPT ![s] = Inode(TRUE, 1, val[s].ver)]
              /\ flag' = [flag EXCEPT ![s] = FALSE]
              /\ Yield(p, "idirent")
              /\ UNCHANGED dret
      /\ UNCHANGED <<ino, refc, gate, dino, super, dirs, op, want, ip, aret, fd,
                     syncvars, calls>>

\* ialloc has a structure for it, or none.  An inode that is in use after all
\* is passed over.
attached(p) ==
  LET s == ip[p]
  IN  /\ Running(p, "attached")
      /\ IF s = 0 THEN Goto(p, "ifree") /\ UNCHANGED <<flag, val, dret>>
         ELSE IF val[s].mode THEN CallIdetach(p, "ialloc") /\ UNCHANGED <<flag, val>>
         ELSE /\ val' = [val EXCEPT ![s] = Inode(TRUE, 1, val[s].ver)]
              /\ flag' = [flag EXCEPT ![s] = FALSE]
              /\ Yield(p, "idirent")
              /\ UNCHANGED dret
      /\ UNCHANGED <<ino, refc, gate, dino, super, dirs, op, want, ip, aret, fd,
                     syncvars, calls>>

-----------------------------------------------------------------------------
(* The system calls.                                                       *)

Call(p, o) ==
  /\ Running(p, "user") /\ calls < MaxCalls
  /\ calls' = calls + 1
  /\ op' = [op EXCEPT ![p] = o]

\* creat of a new file: the directory entry is written, then the times are set.
ucreat(p) ==
  /\ Call(p, "creat") /\ fd[p] = 0
  /\ Goto(p, "ialloc")
  /\ UNCHANGED <<core, dino, super, dirs, want, ip, aret, dret, fd, syncvars>>

idirent(p) ==
  LET s == ip[p]
  IN  /\ Running(p, "idirent")
      /\ names' = [names EXCEPT ![ino[s]] = @ + 1]
      /\ flag' = [flag EXCEPT ![s] = TRUE]
      /\ gate' = [gate EXCEPT ![s] = Free]
      /\ fd' = [fd EXCEPT ![p] = s]
      /\ Return(p)
      /\ UNCHANGED <<ino, refc, val, dino, super, namer, unnamed, syncvars, calls>>

\* The directory has no room and cannot grow, for the disk is full.  imake does
\* not see it; fdopen does, by u_error, and ucreat detaches the inode.
idirentFailed(p) ==
  LET s == ip[p]
  IN  /\ Running(p, "idirent")
      /\ unnamed' = unnamed \union {ino[s]}
      /\ flag' = [flag EXCEPT ![s] = TRUE]
      /\ CallIdetach(p, "failed")
      /\ UNCHANGED <<ino, refc, gate, val, dino, super, names, namer, op, want, ip,
                     aret, fd, syncvars, calls>>

failed(p) ==
  /\ Running(p, "failed")
  /\ Return(p)
  /\ UNCHANGED <<core, dino, super, dirs, fd, syncvars, calls>>

\* ftoi finds the inode number, and releases the directory, before iattach.
ftoi(p, i) ==
  /\ Call(p, "open") /\ fd[p] = 0
  /\ names[i] > 0 /\ namer[i] = Free
  /\ want' = [want EXCEPT ![p] = i]
  /\ Yield(p, "ftoi")
  /\ UNCHANGED <<core, dino, super, dirs, ip, aret, dret, fd, syncvars>>

ftoiEnd(p) ==
  /\ Running(p, "ftoi")
  /\ CallIattach(p, want[p], "open")
  /\ UNCHANGED <<core, dino, super, dirs, op, ip, dret, fd, syncvars, calls>>

\* An inode that was freed meanwhile has no mode: only the super user opens it.
uopen(p) ==
  LET s == ip[p]
  IN  /\ Running(p, "open")
      /\ \/ /\ s = 0
            /\ Return(p) /\ UNCHANGED <<gate, fd>>
         \/ /\ s # 0
            /\ fd' = [fd EXCEPT ![p] = s]
            /\ gate' = [gate EXCEPT ![s] = Free]
            /\ Return(p)
         \/ /\ s # 0 /\ ~val[s].mode
            /\ CallIdetach(p, "failed")
            /\ UNCHANGED <<gate, op, want, ip, aret, fd>>
      /\ UNCHANGED <<ino, refc, flag, val, dino, super, dirs, syncvars, calls>>

\* write: the inode is marked first, and changes after the sleeps of fwrite.
uwrite(p) ==
  /\ Call(p, "write") /\ fd[p] # 0 /\ val[fd[p]].ver < MaxVer
  /\ ip' = [ip EXCEPT ![p] = fd[p]]
  /\ Goto(p, "wlock")
  /\ UNCHANGED <<core, dino, super, dirs, want, aret, dret, fd, syncvars>>

iwrite(p) ==
  LET s == ip[p]
  IN  /\ Running(p, "wlock") /\ gate[s] = Free
      /\ gate' = [gate EXCEPT ![s] = p]
      /\ flag' = [flag EXCEPT ![s] = TRUE]
      /\ Yield(p, "fwrite")
      /\ UNCHANGED <<ino, refc, val, dino, super, dirs, locals, syncvars, calls>>

fwrite(p) ==
  LET s == ip[p]
  IN  /\ Running(p, "fwrite")
      /\ val' = IF val[s].mode /\ val[s].ver < MaxVer
                THEN [val EXCEPT ![s].ver = @ + 1] ELSE val
      /\ gate' = [gate EXCEPT ![s] = Free]
      /\ Return(p)
      /\ UNCHANGED <<ino, refc, flag, dino, super, dirs, fd, syncvars, calls>>

\* close: iclose locks the inode and detaches it.
uclose(p) ==
  /\ Call(p, "close") /\ fd[p] # 0
  /\ ip' = [ip EXCEPT ![p] = fd[p]]
  /\ fd' = [fd EXCEPT ![p] = 0]
  /\ Goto(p, "clock")
  /\ UNCHANGED <<core, dino, super, dirs, want, aret, dret, syncvars>>

iclose(p) ==
  /\ Running(p, "clock") /\ gate[ip[p]] = Free
  /\ gate' = [gate EXCEPT ![ip[p]] = p]
  /\ CallIdetach(p, "failed")
  /\ UNCHANGED <<ino, refc, flag, val, dino, super, dirs, op, want, ip, aret, fd,
                 syncvars, calls>>

\* unlink holds the directory, attaches the inode, then removes the entry.
uunlink(p, i) ==
  /\ Call(p, "unlink")
  /\ names[i] > 0 /\ namer[i] = Free
  /\ namer' = [namer EXCEPT ![i] = p]
  /\ CallIattach(p, i, "unlink")
  /\ UNCHANGED <<core, dino, super, names, unnamed, ip, dret, fd, syncvars>>

unlinkAttached(p) ==
  /\ Running(p, "unlink")
  /\ IF ip[p] # 0 THEN Yield(p, "unname") /\ UNCHANGED namer
     ELSE namer' = [namer EXCEPT ![want[p]] = Free] /\ Goto(p, "failed")
  /\ UNCHANGED <<core, dino, super, names, unnamed, locals, syncvars, calls>>

unname(p) ==
  LET s == ip[p]
  IN  /\ Running(p, "unname")
      /\ names' = [names EXCEPT ![want[p]] = @ - 1]
      /\ namer' = [namer EXCEPT ![want[p]] = Free]
      /\ val' = [val EXCEPT ![s].nlink = IF @ > 0 THEN @ - 1 ELSE @]
      /\ flag' = [flag EXCEPT ![s] = TRUE]
      /\ CallIdetach(p, "failed")
      /\ UNCHANGED <<ino, refc, gate, dino, super, unnamed, op, want, ip, aret, fd,
                     syncvars, calls>>

-----------------------------------------------------------------------------
(* sync: isync copies the modified inodes, without their gates.            *)

SyncAt(l) == cpu \in {NoProc, Syncer} /\ spc = l

usync ==
  /\ SyncAt("user") /\ calls < MaxCalls
  /\ calls' = calls + 1
  /\ spc' = "isync" /\ stodo' = Slots /\ cpu' = Syncer
  /\ UNCHANGED <<core, dino, super, dirs, pc, locals, scur, overtaken>>

isync(s) ==
  /\ SyncAt("isync") /\ s \in stodo
  /\ stodo' = stodo \ {s}
  /\ IF refc[s] # 0 /\ flag[s]
     THEN spc' = "icopymd" /\ scur' = <<s, ino[s], val[s]>> /\ cpu' = NoProc
     ELSE cpu' = Syncer /\ UNCHANGED <<spc, scur>>
  /\ UNCHANGED <<core, dino, super, dirs, pc, locals, calls, overtaken>>

isyncDone ==
  LET s == scur[1]
  IN  /\ SyncAt("icopymd")
      /\ dino' = [dino EXCEPT ![scur[2]] = scur[3]]
      /\ flag' = [flag EXCEPT ![s] = FALSE]
      /\ overtaken' = (overtaken \/ gate[s] # Free \/ <<s, ino[s], val[s]>> # scur)
      /\ scur' = <<0, 0, Clear>> /\ spc' = "isync" /\ cpu' = Syncer
      /\ UNCHANGED <<ino, refc, gate, val, super, dirs, pc, locals, stodo, calls>>

isyncEnd ==
  /\ SyncAt("isync") /\ stodo = {}
  /\ spc' = "user" /\ cpu' = NoProc
  /\ UNCHANGED <<core, dino, super, dirs, pc, locals, stodo, scur, calls,
                 overtaken>>

\* Nothing more is asked (the bounds end every behaviour so; a process that
\* waits for ever is a deadlock).
rest ==
  /\ spc = "user" /\ \A p \in Procs : pc[p] = "user"
  /\ UNCHANGED vars

Attach(p) == iattach(p) \/ ilock(p) \/ victim(p) \/ icopydm(p)

Detach(p) ==
  idetach(p) \/ iclear(p) \/ ifree(p) \/ ifreed(p) \/ icopymd(p) \/ idone(p)

Alloc(p) ==
  \/ ialloc(p) \/ have(p) \/ bad(p) \/ relock(p) \/ scan(p) \/ take(p)
  \/ taken(p) \/ attached(p)

Creat(p) == ucreat(p) \/ idirent(p) \/ idirentFailed(p) \/ failed(p)
Open(p) == (\E i \in Files : ftoi(p, i)) \/ ftoiEnd(p) \/ uopen(p)
Write(p) == uwrite(p) \/ iwrite(p) \/ fwrite(p)
Close(p) == uclose(p) \/ iclose(p)
Unlink(p) == (\E i \in Files : uunlink(p, i)) \/ unlinkAttached(p) \/ unname(p)
Sync == usync \/ (\E s \in Slots : isync(s)) \/ isyncDone \/ isyncEnd

Next ==
  \/ \E p \in Procs : \/ lock(p) \/ Attach(p) \/ Detach(p) \/ Alloc(p) \/ Creat(p)
                      \/ Open(p) \/ Write(p) \/ Close(p) \/ Unlink(p)
  \/ Sync
  \/ rest

Spec == Init /\ [][Next]_vars

-----------------------------------------------------------------------------
(* Properties.                                                             *)

TypeOK ==
  /\ ino \in [Slots -> 0 .. NINO] /\ refc \in [Slots -> Nat]
  /\ gate \in [Slots -> Procs \union {Free}]
  /\ flag \in [Slots -> BOOLEAN] /\ val \in [Slots -> Values]
  /\ dino \in [Inos -> Values]
  /\ list \in Seq(Files) /\ Len(list) <= NICINOD
  /\ mlock \in Procs \union {Free}
  /\ names \in [Files -> Nat] /\ namer \in [Files -> Procs \union {Free}]
  /\ unnamed \in SUBSET Files
  /\ cpu \in Procs \union {NoProc, Syncer}
  /\ want \in [Procs -> 0 .. NINO]
  /\ ip \in [Procs -> 0 .. NINODE] /\ fd \in [Procs -> 0 .. NINODE]

(***************************************************************************)
(* iattach sleeps at the gate of the structure it has chosen, and others   *)
(* attach and detach inodes meanwhile: still an inode is never in two      *)
(* structures, or two processes would change two copies of one file.       *)
(***************************************************************************)
OneSlot ==
  TypeOK /\ \A s, t \in Slots : s # t /\ ino[s] # 0 => ino[s] # ino[t]

\* A process that has attached ip[p] and not detached it yet.
Attached(p) ==
  /\ ip[p] # 0
  /\ pc[p] \in {"icopydm", "idetach", "bad", "attached", "idirent", "open",
                "clock", "unlink", "unname"}

(***************************************************************************)
(* i_refc of a structure is the number of open files and of calls that     *)
(* have it: when it is too small the structure is taken from its users for *)
(* another inode or its blocks are freed, when too large it is never free. *)
(***************************************************************************)
RefsCounted ==
  \A s \in Slots :
    refc[s] = Cardinality({p \in Procs : fd[p] = s})
              + Cardinality({p \in Procs : Attached(p) /\ ip[p] = s})

\* What inode i is: as it is in core, or on the disk.
Current(i) ==
  IF \E s \in Slots : ino[s] = i THEN val[CHOOSE s \in Slots : ino[s] = i]
  ELSE dino[i]

InUse(i) == \E s \in Slots : ino[s] = i /\ gate[s] # Free

(***************************************************************************)
(* ialloc takes inodes from a list that another process fills from dinodes *)
(* which do not show what is in core only, and ifree adds to it what may   *)
(* be there already; an open may attach an inode that is freed under it.   *)
(* Still every inode has as many links as names, so none is given to two   *)
(* files and none with a name is free; an inode which creat could not name *)
(* has one link more for ever, and is never anybody's again.  (As long as  *)
(* sync, which takes no inode's gate, has not written an inode somebody    *)
(* was about to change.)                                                   *)
(***************************************************************************)
Links == [i \in Files |-> names[i] + (IF i \in unnamed THEN 1 ELSE 0)]

NamesRight ==
  ~overtaken =>
    \A i \in Files : namer[i] = Free /\ ~InUse(i) =>
      /\ Current(i).nlink = Links[i]
      /\ Links[i] > 0 => Current(i).mode

=============================================================================
