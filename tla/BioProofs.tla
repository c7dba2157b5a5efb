------------------------------ MODULE BioProofs ------------------------------
(***************************************************************************)
(* Proofs about the buffer cache, for any number of processes, buffers and *)
(* blocks.  The first invariant, SInv, is about who has which buffer and   *)
(* holds whatever the disk does; the second, CInv, is about what is in the *)
(* buffers and needs a disk that refuses no write.                         *)
(***************************************************************************)
EXTENDS Bio, FiniteSetTheorems, TLAPS

\* Where a process holds the gate of the buffer bp.
Holding == {"got", "io", "have", "scanio"}

\* Where a process keeps the processor.
OnCpu == {"bclaim", "rescan", "got", "scan"}

\* Where each kind of process may be, and with which variables.
PlaceInv ==
  /\ \A p \in Users :
       /\ pc[p] \notin {"scan", "scangate", "scanio"}
       /\ op[p] \in UserOps
       /\ pc[p] \in {"gate", "got", "io", "have"} => bp[p] \in Bufs
       /\ pc[p] # "user" => (op[p] = "hole" <=> blk[p] = NODEV)
       /\ pc[p] \in {"io", "have"} => op[p] \in {"read", "update"}
  /\ \A p \in Syncers :
       /\ pc[p] \in {"user", "scan", "scangate", "scanio"}
       /\ op[p] \in SyncOps
       /\ pc[p] \in {"scangate", "scanio"} => bp[p] \in Bufs
  /\ \A p \in Procs :
       /\ pc[p] \in OnCpu => cpu = p
       /\ p \in asleep => pc[p] \in {"bufneed", "io", "scanio"}

\* A gate belongs to the process that is at work on its buffer.
OwnInv ==
  /\ \A p \in Procs : pc[p] \in Holding => gate[bp[p]] = p
  /\ \A p \in Procs, b \in Bufs : gate[b] = p => pc[p] \in Holding /\ bp[p] = b

\* The driver owns the asynchronous transfers, and a process waits for each
\* of the others.
TransferInv ==
  \A b \in Bufs :
    /\ "BFASY" \in flag[b] <=> gate[b] = Device
    /\ gate[b] = Free => "BFNTP" \notin flag[b]
    /\ b \in pending =>
         /\ "BFNTP" \in flag[b]
         /\ dev[b] # NODEV
         /\ gate[b] \in Procs => pc[gate[b]] \in {"io", "scanio"}

\* The first scan found no buffer with the block, and none has got it since.
RescanInv ==
  \A p \in Procs, b \in Bufs :
    pc[p] = "rescan" => dev[b] = NODEV \/ dev[b] # blk[p]

SInv ==
  /\ Unique /\ PlaceInv /\ OwnInv /\ TransferInv /\ RescanInv /\ BufneedWakes

\* b holds valid contents, or contents on their way to the disk.
Valid(b) ==
  /\ dev[b] # NODEV /\ "BFERR" \notin flag[b]
  /\ "BFNTP" \notin flag[b] \/ (b \in pending /\ req[b] = "BWRITE")

\* What a process that holds a buffer knows of it.
HeldInv ==
  \A p \in Procs :
    /\ pc[p] = "got" =>
         /\ dev[bp[p]] = blk[p] /\ "BFERR" \notin flag[bp[p]]
         /\ "BFNTP" \in flag[bp[p]] => "BFMOD" \notin flag[bp[p]]
    /\ pc[p] = "io" =>
         /\ "BFNTP" \in flag[bp[p]] => bp[p] \in pending /\ req[bp[p]] = "BREAD"
         /\ "BFERR" \in flag[bp[p]] \/ dev[bp[p]] = blk[p]
    /\ pc[p] = "have" => dev[bp[p]] = blk[p] /\ Valid(bp[p])
                         /\ "BFNTP" \notin flag[bp[p]]
    /\ pc[p] = "scanio" =>
         /\ "BFERR" \notin flag[bp[p]]
         /\ "BFNTP" \in flag[bp[p]] => bp[p] \in pending /\ req[bp[p]] = "BWRITE"
         /\ "BFNTP" \notin flag[bp[p]] => "BFMOD" \notin flag[bp[p]]

\* What is in a buffer, and in whose hands it is while that is not known.
BufInv ==
  \A b \in Bufs :
    /\ Valid(b) => data[b] = "latest"
    /\ "BFMOD" \in flag[b] => Valid(b)
    /\ gate[b] = Device => b \in pending
    /\ "BFERR" \in flag[b] =>
         dev[b] = NODEV /\ gate[b] \in Procs /\ pc[gate[b]] = "io"

\* What is on the disk.
DiskInv ==
  \A k \in Blocks :
    (\A b \in Bufs : dev[b] = k => "BFMOD" \notin flag[b]) => disk[k] = "latest"

\* What a scan still owes is in a buffer it has yet to come to.
OwedInv ==
  \A p \in Syncers : pc[p] # "user" =>
    \A k \in owed[p] : \E b \in bp[p] .. NBUF : dev[b] = k /\ "BFMOD" \in flag[b]

CInv == HeldInv /\ BufInv /\ DiskInv /\ OwedInv

-----------------------------------------------------------------------------
(***************************************************************************)
(* The initial state satisfies both invariants.                            *)
(***************************************************************************)
LEMMA InitSInv == Init => SInv
  <1> SUFFICES ASSUME Init PROVE SInv
    OBVIOUS
  <1>1. TypeOK
    BY BioAssumption DEF Init, TypeOK, Flags, Contents, Locs, UserOps, SyncOps, Procs
  <1>2. Unique
    BY <1>1 DEF Init, Unique
  <1>3. PlaceInv /\ OwnInv
    BY BioAssumption DEF Init, PlaceInv, OwnInv, OnCpu, Holding, Procs, UserOps, SyncOps
  <1>4. TransferInv /\ RescanInv /\ BufneedWakes
    BY BioAssumption DEF Init, TransferInv, RescanInv, BufneedWakes, OnBufneed
  <1> QED
    BY <1>2, <1>3, <1>4 DEF SInv

(***************************************************************************)
(* A system call begins.                                                   *)
(***************************************************************************)
LEMMA BeginSInv ==
  ASSUME SInv, NEW p \in Users, NEW o \in UserOps,
         NEW k \in Blocks \union {NODEV}, Begin(p, o, k)
  PROVE  SInv'
  <1> USE BioAssumption DEF SInv, Unique, Procs, Begin, Dispatched, Goto, bufvars
  <1>1. Unique'
    BY DEF TypeOK, Locs
  <1>2. PlaceInv'
    BY DEF PlaceInv, TypeOK, OnCpu, UserOps
  <1>3. OwnInv'
    BY DEF OwnInv, TypeOK, Holding
  <1>4. TransferInv' /\ RescanInv'
    BY DEF TransferInv, RescanInv, TypeOK
  <1>5. BufneedWakes'
    BY DEF BufneedWakes, OnBufneed, TypeOK
  <1> QED
    BY <1>1, <1>2, <1>3, <1>4, <1>5

LEMMA BeginScanSInv ==
  ASSUME SInv, NEW p \in Syncers, NEW o \in SyncOps, BeginScan(p, o)
  PROVE  SInv'
  <1> USE BioAssumption DEF SInv, Unique, Procs, BeginScan, Dispatched, Goto, bufvars
  <1>1. Unique'
    BY DEF TypeOK, Locs
  <1>2. PlaceInv'
    BY DEF PlaceInv, TypeOK, OnCpu, SyncOps
  <1>3. OwnInv'
    BY DEF OwnInv, TypeOK, Holding
  <1>4. TransferInv' /\ RescanInv'
    BY DEF TransferInv, RescanInv, TypeOK
  <1>5. BufneedWakes'
    BY DEF BufneedWakes, OnBufneed, TypeOK
  <1> QED
    BY <1>1, <1>2, <1>3, <1>4, <1>5

(***************************************************************************)
(* bclaim takes the buffer that holds its block.                           *)
(***************************************************************************)
LEMMA HitSInv ==
  ASSUME SInv, NEW p \in Users, NEW b \in Bufs, Hit(p, b),
         pc[p] \in {"bclaim", "gate"}, cpu \in {p, NoProc},
         gate[b] = Free, dev[b] = blk[p]
  PROVE  SInv'
  <1> USE BioAssumption DEF SInv, Unique, Procs, Hit, Goto
  <1>1. Unique'
    BY DEF TypeOK, Locs, Flags, Bufs
  <1>2. PlaceInv'
    BY DEF PlaceInv, TypeOK, OnCpu
  <1>3. OwnInv'
    BY DEF OwnInv, TypeOK, Holding
  <1>4. TransferInv'
    BY DEF TransferInv, TypeOK, OwnInv, Holding
  <1>5. RescanInv'
    BY DEF RescanInv, TypeOK
  <1>6. BufneedWakes'
    BY DEF BufneedWakes, OnBufneed, TypeOK
  <1> QED
    BY <1>1, <1>2, <1>3, <1>4, <1>5, <1>6

(***************************************************************************)
(* With every buffer locked, the syncers hold at most one each: some buffer *)
(* is held by a user or by the driver.                                     *)
(***************************************************************************)
LEMMA OthersHold ==
  ASSUME SInv, \A b \in Bufs : gate[b] # Free
  PROVE  \E b \in Bufs : gate[b] \in Users \union {Device}
  <1> SUFFICES ASSUME \A b \in Bufs : gate[b] \in Syncers PROVE FALSE
    BY DEF SInv, Unique, TypeOK, Procs
  <1>1. IsFiniteSet(Bufs) /\ Cardinality(Bufs) = NBUF
    <2>1. Cardinality(Syncers) \in Nat
      BY SyncersAssumption, FS_CardinalityType
    <2>2. NBUF \in Nat /\ NBUF >= 1
      BY <2>1, SyncersAssumption, BioAssumption
    <2>3. /\ IsFiniteSet(1 .. NBUF)
          /\ Cardinality(1 .. NBUF) = IF 1 > NBUF THEN 0 ELSE NBUF - 1 + 1
      BY <2>2, FS_Interval
    <2> QED
      BY <2>2, <2>3 DEF Bufs
  <1>2. gate \in [Bufs -> Syncers]
    BY DEF SInv, Unique, TypeOK
  <1>3. \E a, b \in Bufs : a # b /\ gate[a] = gate[b]
    BY <1>1, <1>2, SyncersAssumption, FS_PigeonHole
  <1> QED
    BY <1>3 DEF SInv, OwnInv, Procs

(***************************************************************************)
(* A buffer changes hands: nobody else holds its new block.                *)
(***************************************************************************)
LEMMA RecycleSInv ==
  ASSUME SInv, NEW p \in Users, NEW b \in Bufs, Recycle(p, b), gate[b] = Free,
         pc[p] \in {"bclaim", "rescan"}, cpu = p,
         \A c \in Bufs : dev[c] = NODEV \/ dev[c] # blk[p]
  PROVE  SInv'
  <1> USE BioAssumption DEF SInv, Unique, Procs, Recycle, Goto
  <1>1. Unique'
    BY DEF TypeOK, Locs, Flags, Contents, Bufs, UserOps, SyncOps
  <1>2. PlaceInv'
    BY DEF PlaceInv, TypeOK, OnCpu, UserOps, SyncOps, Bufs
  <1>3. OwnInv'
    BY DEF OwnInv, PlaceInv, TypeOK, Holding, Bufs
  <1>4. TransferInv'
    BY DEF TransferInv, OwnInv, PlaceInv, TypeOK, Holding, Flags, Bufs
  <1>5. RescanInv'
    BY DEF RescanInv, PlaceInv, TypeOK, OnCpu
  <1>6. BufneedWakes'
    BY DEF BufneedWakes, OnBufneed, OwnInv, TypeOK
  <1> QED
    BY <1>1, <1>2, <1>3, <1>4, <1>5, <1>6

(***************************************************************************)
(* A modified victim goes to the driver.                                   *)
(***************************************************************************)
LEMMA CleanSInv ==
  ASSUME SInv, NEW p \in Users, NEW b \in Bufs, Clean(p, b), gate[b] = Free,
         pc[p] \in {"bclaim", "rescan"}, cpu = p
  PROVE  SInv'
  <1> USE BioAssumption DEF SInv, Unique, Procs, Clean, bwriteAsync,
         dblock, Goto, locals
  <1>1. Unique'
    BY DEF TypeOK, Locs, Flags, Contents, Bufs, UserOps, SyncOps
  <1>2. PlaceInv'
    BY DEF PlaceInv, TypeOK, OnCpu, UserOps, SyncOps, Bufs
  <1>3. OwnInv'
    BY DEF OwnInv, PlaceInv, TypeOK, Holding, Bufs
  <1>4. TransferInv'
    BY DEF TransferInv, OwnInv, PlaceInv, TypeOK, Holding, Flags, Bufs
  <1>5. RescanInv'
    BY DEF RescanInv, PlaceInv, TypeOK, OnCpu
  <1>6. BufneedWakes'
    BY DEF BufneedWakes, OnBufneed, OwnInv, TypeOK
  <1> QED
    BY <1>1, <1>2, <1>3, <1>4, <1>5, <1>6

(***************************************************************************)
(* bclaim finds its block in a buffer that is locked.                      *)
(***************************************************************************)
LEMMA gateYieldSInv ==
  ASSUME SInv, NEW p \in Users, NEW b \in Bufs, Running(p, "bclaim"),
         bp' = [bp EXCEPT ![p] = b], Yield(p, "gate"),
         UNCHANGED <<bufvars, asleep, op, blk, owed>>
  PROVE  SInv'
  <1> USE BioAssumption DEF SInv, Unique, Procs, Running, Yield, bufvars
  <1>1. Unique'
    BY DEF TypeOK, Locs, Flags, Contents, Bufs, UserOps, SyncOps
  <1>2. PlaceInv'
    BY DEF PlaceInv, TypeOK, OnCpu, UserOps, SyncOps, Bufs
  <1>3. OwnInv'
    BY DEF OwnInv, PlaceInv, TypeOK, Holding, Bufs
  <1>4. TransferInv'
    BY DEF TransferInv, OwnInv, PlaceInv, TypeOK, Holding, Flags, Bufs
  <1>5. RescanInv'
    BY DEF RescanInv, PlaceInv, TypeOK, OnCpu
  <1>6. BufneedWakes'
    BY DEF BufneedWakes, OnBufneed, OwnInv, TypeOK
  <1> QED
    BY <1>1, <1>2, <1>3, <1>4, <1>5, <1>6

(***************************************************************************)
(* A process runs on to a scan of the buffers, from a scan or a sleep.     *)
(***************************************************************************)
LEMMA GotoQuietSInv ==
  ASSUME SInv, NEW p \in Users, NEW l \in {"bclaim", "rescan"}, Goto(p, l),
         pc[p] \in {"bclaim", "gate", "bufneed"}, p \notin asleep,
         cpu \in {p, NoProc},
         l = "rescan" => \A b \in Bufs : dev[b] = NODEV \/ dev[b] # blk[p],
         UNCHANGED <<bufvars, asleep, locals, owed>>
  PROVE  SInv'
  <1> USE BioAssumption DEF SInv, Unique, Procs, Goto, bufvars, locals
  <1>1. Unique'
    BY DEF TypeOK, Locs, Flags, Contents, Bufs, UserOps, SyncOps
  <1>2. PlaceInv'
    BY DEF PlaceInv, TypeOK, OnCpu, UserOps, SyncOps, Bufs
  <1>3. OwnInv'
    BY DEF OwnInv, PlaceInv, TypeOK, Holding, Bufs
  <1>4. TransferInv'
    BY DEF TransferInv, OwnInv, PlaceInv, TypeOK, Holding, Flags, Bufs
  <1>5. RescanInv'
    BY DEF RescanInv, PlaceInv, TypeOK, OnCpu
  <1>6. BufneedWakes'
    BY DEF BufneedWakes, OnBufneed, OwnInv, TypeOK
  <1> QED
    BY <1>1, <1>2, <1>3, <1>4, <1>5, <1>6

(***************************************************************************)
(* bclaim sleeps on &bufneed: every buffer is locked, and one of them by a *)
(* user or the driver.                                                     *)
(***************************************************************************)
LEMMA bufneedSInv ==
  ASSUME SInv, NEW p \in Users, Running(p, "rescan"),
         \A b \in Bufs : gate[b] # Free,
         bufneed' = 1, asleep' = asleep \union {p}, Yield(p, "bufneed"),
         UNCHANGED <<dev, flag, req, data, gate, pending, disk, locals, owed>>
  PROVE  SInv'
  <1> USE BioAssumption DEF SInv, Unique, Procs, Running, Yield, locals
  <1>1. Unique'
    BY DEF TypeOK, Locs, Flags, Contents, Bufs, UserOps, SyncOps
  <1>2. PlaceInv'
    BY DEF PlaceInv, TypeOK, OnCpu, UserOps, SyncOps, Bufs
  <1>3. OwnInv'
    BY DEF OwnInv, PlaceInv, TypeOK, Holding, Bufs
  <1>4. TransferInv'
    BY DEF TransferInv, OwnInv, PlaceInv, TypeOK, Holding, Flags, Bufs
  <1>5. RescanInv'
    BY DEF RescanInv, PlaceInv, TypeOK, OnCpu
  <1>6. BufneedWakes'
    BY OthersHold DEF BufneedWakes
  <1> QED
    BY <1>1, <1>2, <1>3, <1>4, <1>5, <1>6

(***************************************************************************)
(* What a process that holds a buffer may count on.                        *)
(***************************************************************************)
LEMMA Holder ==
  ASSUME SInv, NEW p \in Procs, pc[p] \in Holding
  PROVE  /\ bp[p] \in Bufs /\ gate[bp[p]] = p
         /\ flag[bp[p]] \in SUBSET Flags /\ "BFASY" \notin flag[bp[p]]
         /\ pc[p] \notin {"io", "scanio"} => bp[p] \notin pending
         /\ "BFNTP" \notin flag[bp[p]] => bp[p] \notin pending
         /\ p \in asleep => pc[p] \in {"io", "scanio"}
  <1> USE DEF SInv, Unique
  <1>1. bp[p] \in Bufs
    BY DEF PlaceInv, Holding, Procs
  <1>2. gate[bp[p]] = p /\ p # Device
    BY BioAssumption DEF OwnInv
  <1> QED
    BY <1>1, <1>2 DEF TransferInv, TypeOK, PlaceInv, Holding

(***************************************************************************)
(* brelease of the buffer b that p holds, at the end of its call.  f is    *)
(* b_flag, perhaps with BFMOD.                                             *)
(***************************************************************************)
LEMMA ReleaseSInv ==
  ASSUME SInv, NEW p \in Users, NEW b \in Bufs, NEW f \in SUBSET Flags,
         pc[p] \in Holding, bp[p] = b, gate[b] = p, p \notin asleep,
         cpu \in {p, NoProc}, b \notin pending, "BFASY" \notin f,
         brelease(b, f), Return(p), data' \in [Bufs -> Contents],
         disk' \in [Blocks -> Contents], UNCHANGED <<req, pending, owed>>
  PROVE  SInv'
  <1> USE BioAssumption DEF SInv, Unique, Procs, brelease, Return, Yield
  <1>1. Unique'
    BY DEF TypeOK, Locs, Flags, Contents, Bufs, UserOps, SyncOps
  <1>2. PlaceInv'
    BY DEF PlaceInv, TypeOK, OnCpu, UserOps, SyncOps, Bufs
  <1>3. OwnInv'
    BY DEF OwnInv, PlaceInv, TypeOK, Holding, Bufs
  <1>4. TransferInv'
    BY DEF TransferInv, OwnInv, PlaceInv, TypeOK, Holding, Flags, Bufs
  <1>5. RescanInv'
    BY DEF RescanInv, PlaceInv, TypeOK, OnCpu
  <1>6. BufneedWakes'
    BY DEF BufneedWakes, OnBufneed, OwnInv, TypeOK
  <1> QED
    BY <1>1, <1>2, <1>3, <1>4, <1>5, <1>6

(***************************************************************************)
(* bread returns the buffer b to its caller.                               *)
(***************************************************************************)
LEMMA HaveSInv ==
  ASSUME SInv, NEW p \in Users, NEW b \in Bufs, pc[p] \in Holding, bp[p] = b,
         gate[b] = p, p \notin asleep, cpu \in {p, NoProc}, b \notin pending,
         op[p] \in {"read", "update"}, Yield(p, "have"),
         UNCHANGED <<bufvars, asleep, locals, owed>>
  PROVE  SInv'
  <1> USE BioAssumption DEF SInv, Unique, Procs, Yield, bufvars, locals
  <1>1. Unique'
    BY DEF TypeOK, Locs, Flags, Contents, Bufs, UserOps, SyncOps
  <1>2. PlaceInv'
    BY DEF PlaceInv, TypeOK, OnCpu, Holding
  <1>3. OwnInv'
    BY DEF OwnInv, PlaceInv, TypeOK, Holding, Bufs
  <1>4. TransferInv'
    BY DEF TransferInv, OwnInv, PlaceInv, TypeOK, Holding, Flags, Bufs
  <1>5. RescanInv'
    BY DEF RescanInv, PlaceInv, TypeOK, OnCpu
  <1>6. BufneedWakes'
    BY DEF BufneedWakes, OnBufneed, OwnInv, TypeOK
  <1> QED
    BY <1>1, <1>2, <1>3, <1>4, <1>5, <1>6

(***************************************************************************)
(* The sleep for a transfer ended too early.                               *)
(***************************************************************************)
LEMMA SleepAgainSInv ==
  ASSUME SInv, NEW p \in Procs, NEW l \in {"io", "scanio"}, pc[p] = l,
         cpu = NoProc, asleep' = asleep \union {p}, Yield(p, l),
         UNCHANGED <<bufvars, locals, owed>>
  PROVE  SInv'
  <1> USE BioAssumption DEF SInv, Unique, Procs, Yield, bufvars, locals
  <1>1. Unique'
    BY DEF TypeOK, Locs, Flags, Contents, Bufs, UserOps, SyncOps
  <1>2. PlaceInv'
    BY DEF PlaceInv, TypeOK, OnCpu, UserOps, SyncOps, Bufs
  <1>3. OwnInv'
    BY DEF OwnInv, PlaceInv, TypeOK, Holding, Bufs
  <1>4. TransferInv'
    BY DEF TransferInv, OwnInv, PlaceInv, TypeOK, Holding, Flags, Bufs
  <1>5. RescanInv'
    BY DEF RescanInv, PlaceInv, TypeOK, OnCpu
  <1>6. BufneedWakes'
    BY DEF BufneedWakes, OnBufneed, OwnInv, TypeOK
  <1> QED
    BY <1>1, <1>2, <1>3, <1>4, <1>5, <1>6

(***************************************************************************)
(* p leaves its buffer b to the driver, at the end of its call.            *)
(***************************************************************************)
LEMMA AsyncSInv ==
  ASSUME SInv, NEW p \in Users, NEW b \in Bufs, NEW f \in SUBSET Flags,
         pc[p] \in Holding, bp[p] = b, gate[b] = p, p \notin asleep,
         cpu \in {p, NoProc}, {"BFASY", "BFNTP"} \subseteq f,
         flag' = [flag EXCEPT ![b] = f], gate' = [gate EXCEPT ![b] = Device],
         req' \in [Bufs -> {"BREAD", "BWRITE"}], dblock(b), Return(p),
         data' \in [Bufs -> Contents], disk' \in [Blocks -> Contents],
         UNCHANGED <<dev, bufneed, asleep, owed>>
  PROVE  SInv'
  <1> USE BioAssumption DEF SInv, Unique, Procs, dblock, Return, Yield
  <1>1. Unique'
    BY DEF TypeOK, Locs, Flags, Contents, Bufs, UserOps, SyncOps
  <1>2. PlaceInv'
    BY DEF PlaceInv, TypeOK, OnCpu, UserOps, SyncOps, Bufs
  <1>3. OwnInv'
    BY DEF OwnInv, PlaceInv, TypeOK, Holding, Bufs
  <1>4. TransferInv'
    BY DEF TransferInv, OwnInv, PlaceInv, TypeOK, Holding, Flags, Bufs
  <1>5. RescanInv'
    BY DEF RescanInv, PlaceInv, TypeOK, OnCpu
  <1>6. BufneedWakes'
    BY DEF BufneedWakes, OnBufneed, OwnInv, TypeOK
  <1> QED
    BY <1>1, <1>2, <1>3, <1>4, <1>5, <1>6

(***************************************************************************)
(* p starts a transfer of its buffer b and sleeps until it is done.        *)
(***************************************************************************)
LEMMA WaitSInv ==
  ASSUME SInv, NEW p \in Procs, NEW b \in Bufs, NEW f \in SUBSET Flags,
         bp[p] = b, gate[b] \in {p, Free}, "BFNTP" \in f, "BFASY" \notin f,
         \/ p \in Users /\ pc[p] = "got" /\ Yield(p, "io") /\ op[p] \in {"read", "update"}
         \/ p \in Syncers /\ pc[p] \in {"scan", "scangate"} /\ Yield(p, "scanio"),
         flag' = [flag EXCEPT ![b] = f], gate' = [gate EXCEPT ![b] = p],
         cpu \in {p, NoProc}, asleep' = asleep \union {p},
         req' \in [Bufs -> {"BREAD", "BWRITE"}], dblock(b),
         UNCHANGED <<dev, data, disk, bufneed, locals, owed>>
  PROVE  SInv'
  <1> USE BioAssumption DEF SInv, Unique, Procs, dblock, Yield, locals
  <1>1. Unique'
    <2>1. TypeOK'
      <3>1. pc' \in [Procs -> Locs] /\ cpu' \in Procs \union {NoProc}
        BY DEF TypeOK, Locs
      <3>2. pending' \in SUBSET Bufs /\ asleep' \in SUBSET Procs
        BY DEF TypeOK
      <3> QED
        BY <3>1, <3>2 DEF TypeOK
    <2> QED
      BY <2>1
  <1>2. PlaceInv'
    BY DEF PlaceInv, TypeOK, OnCpu, UserOps, SyncOps, Bufs
  <1>3. OwnInv'
    BY DEF OwnInv, PlaceInv, TypeOK, Holding, Bufs
  <1>4. TransferInv'
    BY DEF TransferInv, OwnInv, PlaceInv, TypeOK, Holding, Flags, Bufs
  <1>5. RescanInv'
    BY DEF RescanInv, PlaceInv, TypeOK, OnCpu
  <1>6. BufneedWakes'
    BY DEF BufneedWakes, OnBufneed, OwnInv, TypeOK
  <1> QED
    BY <1>1, <1>2, <1>3, <1>4, <1>5, <1>6

(***************************************************************************)
(* bsync or bflush gives up the gate of b and goes on.                     *)
(***************************************************************************)
LEMMA NextBufSInv ==
  ASSUME SInv, NEW p \in Syncers, NEW b \in Bufs, bp[p] = b, gate[b] \in {p, Free},
         pc[p] \in {"scan", "scangate", "scanio"}, p \notin asleep,
         cpu \in {p, NoProc}, b \notin pending,
         {"BFNTP", "BFASY"} \intersect flag[b] = {}, NextBuf(p, b),
         UNCHANGED <<flag, req, data, pending, disk, bufneed, asleep, op, blk, owed>>
  PROVE  SInv'
  <1> USE BioAssumption DEF SInv, Unique, Procs, NextBuf, Goto
  <1>1. Unique'
    BY DEF TypeOK, Locs, Flags, Contents, Bufs, UserOps, SyncOps
  <1>2. PlaceInv'
    BY DEF PlaceInv, TypeOK, OnCpu, UserOps, SyncOps, Bufs
  <1>3. OwnInv'
    BY DEF OwnInv, PlaceInv, TypeOK, Holding, Bufs
  <1>4. TransferInv'
    BY DEF TransferInv, OwnInv, PlaceInv, TypeOK, Holding, Flags, Bufs
  <1>5. RescanInv'
    BY DEF RescanInv, PlaceInv, TypeOK, OnCpu
  <1>6. BufneedWakes'
    BY DEF BufneedWakes, OnBufneed, OwnInv, TypeOK
  <1> QED
    BY <1>1, <1>2, <1>3, <1>4, <1>5, <1>6

(***************************************************************************)
(* The loop of bsync and bflush ends.                                      *)
(***************************************************************************)
LEMMA ScanReturnSInv ==
  ASSUME SInv, NEW p \in Syncers, pc[p] = "scan", cpu = p, Return(p),
         UNCHANGED <<bufvars, asleep, owed>>
  PROVE  SInv'
  <1> USE BioAssumption DEF SInv, Unique, Procs, Return, Yield, bufvars
  <1>1. Unique'
    BY DEF TypeOK, Locs, Flags, Contents, Bufs, UserOps, SyncOps
  <1>2. PlaceInv'
    BY DEF PlaceInv, TypeOK, OnCpu, UserOps, SyncOps, Bufs
  <1>3. OwnInv'
    BY DEF OwnInv, PlaceInv, TypeOK, Holding, Bufs
  <1>4. TransferInv'
    BY DEF TransferInv, OwnInv, PlaceInv, TypeOK, Holding, Flags, Bufs
  <1>5. RescanInv'
    BY DEF RescanInv, PlaceInv, TypeOK, OnCpu
  <1>6. BufneedWakes'
    BY DEF BufneedWakes, OnBufneed, OwnInv, TypeOK
  <1> QED
    BY <1>1, <1>2, <1>3, <1>4, <1>5, <1>6

(***************************************************************************)
(* It passes over a buffer.                                                *)
(***************************************************************************)
LEMMA ScanSkipSInv ==
  ASSUME SInv, NEW p \in Syncers, pc[p] \in {"scan", "scangate"}, cpu \in {p, NoProc},
         bp[p] \in Bufs, Goto(p, "scan"), bp' = [bp EXCEPT ![p] = @ + 1],
         UNCHANGED <<bufvars, asleep, op, blk, owed>>
  PROVE  SInv'
  <1> USE BioAssumption DEF SInv, Unique, Procs, Goto, bufvars
  <1>1. Unique'
    BY DEF TypeOK, Locs, Flags, Contents, Bufs, UserOps, SyncOps
  <1>2. PlaceInv'
    BY DEF PlaceInv, TypeOK, OnCpu, UserOps, SyncOps, Bufs
  <1>3. OwnInv'
    BY DEF OwnInv, PlaceInv, TypeOK, Holding, Bufs
  <1>4. TransferInv'
    BY DEF TransferInv, OwnInv, PlaceInv, TypeOK, Holding, Flags, Bufs
  <1>5. RescanInv'
    BY DEF RescanInv, PlaceInv, TypeOK, OnCpu
  <1>6. BufneedWakes'
    BY DEF BufneedWakes, OnBufneed, OwnInv, TypeOK
  <1> QED
    BY <1>1, <1>2, <1>3, <1>4, <1>5, <1>6

(***************************************************************************)
(* It waits for the gate of a buffer.                                      *)
(***************************************************************************)
LEMMA ScanLockSInv ==
  ASSUME SInv, NEW p \in Syncers, pc[p] = "scan", cpu = p, bp[p] \in Bufs,
         Yield(p, "scangate"), UNCHANGED <<bufvars, asleep, locals, owed>>
  PROVE  SInv'
  <1> USE BioAssumption DEF SInv, Unique, Procs, Yield, bufvars, locals
  <1>1. Unique'
    BY DEF TypeOK, Locs, Flags, Contents, Bufs, UserOps, SyncOps
  <1>2. PlaceInv'
    BY DEF PlaceInv, TypeOK, OnCpu, UserOps, SyncOps, Bufs
  <1>3. OwnInv'
    BY DEF OwnInv, PlaceInv, TypeOK, Holding, Bufs
  <1>4. TransferInv'
    BY DEF TransferInv, OwnInv, PlaceInv, TypeOK, Holding, Flags, Bufs
  <1>5. RescanInv'
    BY DEF RescanInv, PlaceInv, TypeOK, OnCpu
  <1>6. BufneedWakes'
    BY DEF BufneedWakes, OnBufneed, OwnInv, TypeOK
  <1> QED
    BY <1>1, <1>2, <1>3, <1>4, <1>5, <1>6

(***************************************************************************)
(* A transfer ends.                                                        *)
(***************************************************************************)
LEMMA CompletesSInv ==
  ASSUME SInv, NEW b \in pending, NEW f \in SUBSET Flags, bdone(b, f),
         flag[b] \subseteq f, f \subseteq flag[b] \union {"BFERR"},
         pending' = pending \ {b}, data' \in [Bufs -> Contents],
         disk' \in [Blocks -> Contents], owed' \in [Syncers -> SUBSET Blocks],
         UNCHANGED <<req, cpu, pc, locals>>
  PROVE  SInv'
  <1> USE BioAssumption DEF SInv, Unique, Procs, bdone, OnBuf, locals
  <1>1. Unique'
    BY DEF TypeOK, Locs, Flags, Contents, Bufs, UserOps, SyncOps
  <1>2. PlaceInv'
    BY DEF PlaceInv, TypeOK, OnCpu, UserOps, SyncOps, Bufs
  <1>3. OwnInv'
    BY DEF OwnInv, TransferInv, TypeOK, Flags
  <1>4. TransferInv'
    BY DEF TransferInv, OwnInv, PlaceInv, TypeOK, Holding, Flags, Bufs
  <1>5. RescanInv'
    BY DEF RescanInv, PlaceInv, TypeOK, OnCpu
  <1>6. BufneedWakes'
    BY DEF BufneedWakes, OnBufneed, OwnInv, TypeOK
  <1> QED
    BY <1>1, <1>2, <1>3, <1>4, <1>5, <1>6

(***************************************************************************)
(* A signal.                                                               *)
(***************************************************************************)
LEMMA SignalSInv ==
  ASSUME SInv, NEW p \in Procs, Signal(p)
  PROVE  SInv'
  <1> USE BioAssumption DEF SInv, Unique, Procs, Signal, bufvars, locals
  <1>1. Unique'
    BY DEF TypeOK, Locs, Flags, Contents, Bufs, UserOps, SyncOps
  <1>2. PlaceInv'
    BY DEF PlaceInv, TypeOK, OnCpu, UserOps, SyncOps, Bufs
  <1>3. OwnInv'
    BY DEF OwnInv, PlaceInv, TypeOK, Holding, Bufs
  <1>4. TransferInv'
    BY DEF TransferInv, OwnInv, PlaceInv, TypeOK, Holding, Flags, Bufs
  <1>5. RescanInv'
    BY DEF RescanInv, PlaceInv, TypeOK, OnCpu
  <1>6. BufneedWakes'
    BY DEF BufneedWakes, OnBufneed, OwnInv, TypeOK
  <1> QED
    BY <1>1, <1>2, <1>3, <1>4, <1>5, <1>6

(***************************************************************************)
(* The scans of bclaim.                                                    *)
(***************************************************************************)
LEMMA VictimSInv ==
  ASSUME SInv, NEW p \in Users, pc[p] \in {"bclaim", "rescan"}, cpu = p,
         \A c \in Bufs : dev[c] = NODEV \/ dev[c] # blk[p],
         \E b \in Bufs : Victim(p, b)
  PROVE  SInv'
  BY RecycleSInv, CleanSInv DEF Victim

LEMMA bclaimSInv ==
  ASSUME SInv, NEW p \in Users, bclaim(p)
  PROVE  SInv'
  <1>1. pc[p] = "bclaim" /\ cpu = p /\ p \notin asleep
    BY DEF bclaim, Running, SInv, PlaceInv, Procs
  <1>2. CASE \E b \in Bufs : dev[b] = blk[p] /\ gate[b] = Free /\ Hit(p, b)
    BY <1>1, <1>2, HitSInv
  <1>3. CASE \E b \in Bufs :
               /\ bp' = [bp EXCEPT ![p] = b] /\ Yield(p, "gate")
               /\ UNCHANGED <<bufvars, asleep, op, blk, owed>>
    BY <1>1, <1>3, gateYieldSInv DEF Running
  <1>4. CASE /\ \A b \in Bufs : dev[b] = NODEV \/ dev[b] # blk[p]
             /\ \E b \in Bufs : Victim(p, b)
    BY <1>1, <1>4, VictimSInv
  <1>5. CASE /\ \A b \in Bufs : dev[b] = NODEV \/ dev[b] # blk[p]
             /\ Goto(p, "rescan") /\ UNCHANGED <<bufvars, asleep, locals, owed>>
    BY <1>1, <1>5, GotoQuietSInv
  <1> QED
    BY <1>2, <1>3, <1>4, <1>5 DEF bclaim

LEMMA gotgateSInv ==
  ASSUME SInv, NEW p \in Users, gotgate(p)
  PROVE  SInv'
  <1>1. pc[p] = "gate" /\ cpu = NoProc /\ p \notin asleep /\ bp[p] \in Bufs
    BY DEF gotgate, Dispatched, SInv, PlaceInv
  <1>2. CASE gate[bp[p]] = Free /\ dev[bp[p]] = blk[p] /\ Hit(p, bp[p])
    BY <1>1, <1>2, HitSInv
  <1>3. CASE Goto(p, "bclaim") /\ UNCHANGED <<bufvars, asleep, locals, owed>>
    BY <1>1, <1>3, GotoQuietSInv
  <1> QED
    BY <1>2, <1>3 DEF gotgate

LEMMA rescanSInv ==
  ASSUME SInv, NEW p \in Users, rescan(p)
  PROVE  SInv'
  <1>1. /\ pc[p] = "rescan" /\ cpu = p
        /\ \A c \in Bufs : dev[c] = NODEV \/ dev[c] # blk[p]
    BY DEF rescan, Running, SInv, RescanInv, Procs
  <1>2. CASE \E b \in Bufs : Victim(p, b)
    BY <1>1, <1>2, VictimSInv
  <1>3. CASE /\ \A b \in Bufs : gate[b] # Free
             /\ bufneed' = 1 /\ asleep' = asleep \union {p} /\ Yield(p, "bufneed")
             /\ UNCHANGED <<dev, flag, req, data, gate, pending, disk, locals, owed>>
    BY <1>1, <1>3, bufneedSInv DEF Running
  <1> QED
    BY <1>2, <1>3 DEF rescan

LEMMA againSInv ==
  ASSUME SInv, NEW p \in Users, again(p)
  PROVE  SInv'
  BY GotoQuietSInv DEF again, Dispatched

(***************************************************************************)
(* bread and its callers.                                                  *)
(***************************************************************************)
LEMMA breadSInv ==
  ASSUME SInv, NEW p \in Users, bread(p)
  PROVE  SInv'
  <1> DEFINE b == bp[p]
  <1>1. pc[p] = "got" /\ cpu = p /\ pc[p] \in Holding /\ op[p] \notin {"claim", "hole"}
    BY DEF bread, Running, Holding
  <1>2. /\ b \in Bufs /\ gate[b] = p /\ p \notin asleep
        /\ flag[b] \in SUBSET Flags /\ "BFASY" \notin flag[b] /\ "BFNTP" \in flag[b]
    BY <1>1, Holder DEF bread, Procs
  <1>3. req' \in [Bufs -> {"BREAD", "BWRITE"}]
    BY <1>2 DEF bread, SInv, Unique, TypeOK
  <1>4. data' \in [Bufs -> Contents] /\ disk' \in [Blocks -> Contents]
    BY DEF bread, SInv, Unique, TypeOK
  <1> HIDE DEF b
  <1>5. CASE /\ flag' = [flag EXCEPT ![b] = @ \union {"BFASY"}]
             /\ gate' = [gate EXCEPT ![b] = Device]
             /\ Return(p) /\ UNCHANGED asleep
    <2> DEFINE f == flag[b] \union {"BFASY"}
    <2>1. f \in SUBSET Flags /\ {"BFASY", "BFNTP"} \subseteq f
      BY <1>2 DEF Flags
    <2>2. flag' = [flag EXCEPT ![b] = f]
      BY <1>5, <1>2 DEF SInv, Unique, TypeOK
    <2> HIDE DEF f
    <2> QED
      BY <1>1, <1>2, <1>3, <1>4, <1>5, <2>1, <2>2, AsyncSInv DEF bread, b
  <1>6. CASE /\ op[p] # "ahead"
             /\ flag' = [flag EXCEPT ![b] = @ \ {"BFASY"}]
             /\ asleep' = asleep \union {p}
             /\ Yield(p, "io") /\ UNCHANGED <<gate, locals>>
    <2> DEFINE f == flag[b] \ {"BFASY"}
    <2>1. f \in SUBSET Flags /\ "BFNTP" \in f /\ "BFASY" \notin f
      BY <1>2
    <2>2. flag' = [flag EXCEPT ![b] = f] /\ gate' = [gate EXCEPT ![b] = p]
      BY <1>6, <1>2 DEF SInv, Unique, TypeOK
    <2>3. op[p] \in {"read", "update"}
      BY <1>1, <1>6 DEF SInv, PlaceInv, UserOps
    <2> HIDE DEF f
    <2> QED
      BY <1>1, <1>2, <1>3, <1>6, <2>1, <2>2, <2>3, WaitSInv DEF bread, b, Procs
  <1> QED
    BY <1>5, <1>6 DEF bread, b

LEMMA cachedSInv ==
  ASSUME SInv, NEW p \in Users, cached(p)
  PROVE  SInv'
  <1>1. pc[p] = "got" /\ cpu = p /\ pc[p] \in Holding /\ op[p] \notin {"claim", "hole"}
    BY DEF cached, Running, Holding
  <1>2. /\ bp[p] \in Bufs /\ gate[bp[p]] = p /\ p \notin asleep /\ bp[p] \notin pending
        /\ flag[bp[p]] \in SUBSET Flags /\ "BFASY" \notin flag[bp[p]]
    BY <1>1, Holder DEF Procs
  <1>3. data' \in [Bufs -> Contents] /\ disk' \in [Blocks -> Contents]
    BY DEF cached, SInv, Unique, TypeOK
  <1>4. CASE brelease(bp[p], flag[bp[p]]) /\ Return(p)
    BY <1>1, <1>2, <1>3, <1>4, ReleaseSInv DEF cached
  <1>5. CASE /\ op[p] # "ahead" /\ Yield(p, "have")
             /\ UNCHANGED <<dev, flag, gate, bufneed, asleep, locals>>
    <2>1. op[p] \in {"read", "update"}
      BY <1>1, <1>5 DEF SInv, PlaceInv, UserOps
    <2>2. UNCHANGED <<bufvars, asleep, locals, owed>>
      BY <1>5 DEF cached, bufvars
    <2> QED
      BY <1>1, <1>2, <1>5, <2>1, <2>2, HaveSInv
  <1> QED
    BY <1>4, <1>5 DEF cached

LEMMA breadDoneSInv ==
  ASSUME SInv, NEW p \in Users, breadDone(p)
  PROVE  SInv'
  <1>1. pc[p] = "io" /\ cpu = NoProc /\ pc[p] \in Holding /\ p \notin asleep
    BY DEF breadDone, Dispatched, Holding
  <1>2. /\ bp[p] \in Bufs /\ gate[bp[p]] = p
        /\ "BFNTP" \notin flag[bp[p]] => bp[p] \notin pending
        /\ flag[bp[p]] \in SUBSET Flags /\ "BFASY" \notin flag[bp[p]]
    BY <1>1, Holder DEF Procs
  <1>3. data' \in [Bufs -> Contents] /\ disk' \in [Blocks -> Contents]
    BY DEF breadDone, SInv, Unique, TypeOK
  <1>4. CASE /\ asleep' = asleep \union {p} /\ Yield(p, "io")
             /\ UNCHANGED <<dev, flag, gate, bufneed, locals>>
    <2>1. UNCHANGED <<bufvars, locals, owed>>
      BY <1>4 DEF breadDone, bufvars
    <2> QED
      BY <1>1, <1>4, <2>1, SleepAgainSInv DEF Procs
  <1>5. CASE "BFNTP" \notin flag[bp[p]] /\ brelease(bp[p], flag[bp[p]]) /\ Return(p)
    BY <1>1, <1>2, <1>3, <1>5, ReleaseSInv DEF breadDone
  <1>6. CASE /\ {"BFNTP", "BFERR"} \intersect flag[bp[p]] = {}
             /\ Yield(p, "have")
             /\ UNCHANGED <<dev, flag, gate, bufneed, asleep, locals>>
    <2>1. op[p] \in {"read", "update"} /\ "BFNTP" \notin flag[bp[p]]
      BY <1>1, <1>6 DEF SInv, PlaceInv
    <2>2. UNCHANGED <<bufvars, asleep, locals, owed>>
      BY <1>6 DEF breadDone, bufvars
    <2> QED
      BY <1>1, <1>2, <1>6, <2>1, <2>2, HaveSInv
  <1> QED
    BY <1>4, <1>5, <1>6 DEF breadDone

(***************************************************************************)
(* New contents are contents.                                              *)
(***************************************************************************)
LEMMA ModifyType ==
  ASSUME SInv, NEW b, NEW k, Modify(b, k)
  PROVE  data' \in [Bufs -> Contents] /\ disk' \in [Blocks -> Contents]
  BY DEF Modify, SInv, Unique, TypeOK, Contents

LEMMA useSInv ==
  ASSUME SInv, NEW p \in Users, use(p)
  PROVE  SInv'
  <1>1. pc[p] = "have" /\ cpu = NoProc /\ pc[p] \in Holding /\ p \notin asleep
    BY DEF use, Dispatched, Holding
  <1>2. /\ bp[p] \in Bufs /\ gate[bp[p]] = p /\ bp[p] \notin pending
        /\ flag[bp[p]] \in SUBSET Flags /\ "BFASY" \notin flag[bp[p]]
    BY <1>1, Holder DEF Procs
  <1>3. data' \in [Bufs -> Contents] /\ disk' \in [Blocks -> Contents]
    BY ModifyType DEF use, SInv, Unique, TypeOK
  <1>4. PICK f \in {flag[bp[p]], flag[bp[p]] \union {"BFMOD"}} : brelease(bp[p], f)
    BY DEF use
  <1>5. f \in SUBSET Flags /\ "BFASY" \notin f
    BY <1>2 DEF Flags
  <1> QED
    BY <1>1, <1>2, <1>3, <1>4, <1>5, ReleaseSInv DEF use

LEMMA fillSInv ==
  ASSUME SInv, NEW p \in Users, fill(p)
  PROVE  SInv'
  <1> DEFINE f == flag[bp[p]] \union {"BFMOD"}
  <1>1. pc[p] = "got" /\ cpu = p /\ pc[p] \in Holding
    BY DEF fill, Running, Holding
  <1>2. /\ bp[p] \in Bufs /\ gate[bp[p]] = p /\ p \notin asleep /\ bp[p] \notin pending
        /\ flag[bp[p]] \in SUBSET Flags /\ "BFASY" \notin flag[bp[p]]
    BY <1>1, Holder DEF Procs
  <1>3. data' \in [Bufs -> Contents] /\ disk' \in [Blocks -> Contents]
    BY ModifyType DEF fill
  <1>4. f \in SUBSET Flags /\ "BFASY" \notin f
    BY <1>2 DEF Flags
  <1> HIDE DEF f
  <1>5. CASE brelease(bp[p], f) /\ UNCHANGED <<req, pending>>
    BY <1>1, <1>2, <1>3, <1>4, <1>5, ReleaseSInv DEF fill
  <1>6. CASE bwriteAsync(bp[p], f) /\ UNCHANGED <<dev, bufneed, asleep>>
    <2> DEFINE g == f \union {"BFASY", "BFNTP"}
    <2>1. g \in SUBSET Flags /\ {"BFASY", "BFNTP"} \subseteq g
      BY <1>4 DEF Flags
    <2>2. req' \in [Bufs -> {"BREAD", "BWRITE"}]
      BY <1>2, <1>6 DEF bwriteAsync, SInv, Unique, TypeOK
    <2>3. /\ flag' = [flag EXCEPT ![bp[p]] = g]
          /\ gate' = [gate EXCEPT ![bp[p]] = Device] /\ dblock(bp[p])
      BY <1>6 DEF bwriteAsync
    <2> HIDE DEF g
    <2> QED
      BY <1>1, <1>2, <1>3, <1>6, <2>1, <2>2, <2>3, AsyncSInv DEF fill
  <1> QED
    BY <1>5, <1>6 DEF fill, f

LEMMA holeSInv ==
  ASSUME SInv, NEW p \in Users, hole(p)
  PROVE  SInv'
  <1>1. pc[p] = "got" /\ cpu = p /\ pc[p] \in Holding
    BY DEF hole, Running, Holding
  <1>2. /\ bp[p] \in Bufs /\ gate[bp[p]] = p /\ p \notin asleep /\ bp[p] \notin pending
        /\ flag[bp[p]] \in SUBSET Flags /\ "BFASY" \notin flag[bp[p]]
    BY <1>1, Holder DEF Procs
  <1>3. data' \in [Bufs -> Contents] /\ disk' \in [Blocks -> Contents]
    BY DEF hole, SInv, Unique, TypeOK, Contents
  <1> QED
    BY <1>1, <1>2, <1>3, ReleaseSInv DEF hole

(***************************************************************************)
(* bsync and bflush.                                                       *)
(***************************************************************************)
LEMMA FlushSInv ==
  ASSUME SInv, NEW p \in Syncers, NEW b \in Bufs, bp[p] = b, Flush(p, b),
         pc[p] \in {"scan", "scangate"}, cpu \in {p, NoProc},
         ~ Wanted(p, b) \/ gate[b] = Free,
         UNCHANGED <<data, disk, bufneed, owed>>
  PROVE  SInv'
  <1>0. /\ p \notin asleep /\ flag[b] \in SUBSET Flags
        /\ gate[b] = Free => /\ b \notin pending
                             /\ {"BFNTP", "BFASY"} \intersect flag[b] = {}
    <2>1. p \notin asleep /\ flag[b] \in SUBSET Flags /\ gate[b] \in Procs \union {Device, Free}
      BY DEF SInv, Unique, TypeOK, PlaceInv, Procs
    <2>2. gate[b] = Free => "BFNTP" \notin flag[b] /\ "BFASY" \notin flag[b] /\ b \notin pending
      BY BioAssumption DEF SInv, TransferInv
    <2> QED
      BY <2>1, <2>2
  <1>1. CASE /\ Wanted(p, b) /\ bwriteSync(p, b) /\ Yield(p, "scanio")
             /\ UNCHANGED <<dev, locals>>
    <2> DEFINE f == (flag[b] \ {"BFASY"}) \union {"BFNTP"}
    <2>1. f \in SUBSET Flags /\ "BFNTP" \in f /\ "BFASY" \notin f
      BY <1>0 DEF Flags
    <2>2. /\ flag' = [flag EXCEPT ![b] = f] /\ gate' = [gate EXCEPT ![b] = p]
          /\ asleep' = asleep \union {p} /\ dblock(b)
          /\ req' \in [Bufs -> {"BREAD", "BWRITE"}]
      BY <1>1 DEF bwriteSync, SInv, Unique, TypeOK
    <2> HIDE DEF f
    <2> QED
      BY <1>1, <2>1, <2>2, WaitSInv DEF Procs
  <1>2. CASE /\ Wanted(p, b) /\ NextBuf(p, b)
             /\ UNCHANGED <<flag, req, pending, asleep, op, blk>>
    BY <1>0, <1>2, NextBufSInv
  <1>3. CASE /\ bp' = [bp EXCEPT ![p] = @ + 1] /\ Goto(p, "scan")
             /\ UNCHANGED <<dev, flag, req, gate, pending, asleep, op, blk>>
    <2>1. UNCHANGED <<bufvars, asleep, op, blk, owed>>
      BY <1>3 DEF bufvars
    <2> QED
      BY <1>3, <2>1, ScanSkipSInv
  <1> QED
    BY <1>1, <1>2, <1>3 DEF Flush

LEMMA scanSInv ==
  ASSUME SInv, NEW p \in Syncers, scan(p)
  PROVE  SInv'
  <1>1. pc[p] = "scan" /\ cpu = p /\ UNCHANGED <<data, disk, bufneed, owed>>
    BY DEF scan, Running
  <1>2. bp[p] <= NBUF => bp[p] \in Bufs
    BY BioAssumption DEF SInv, Unique, TypeOK, Bufs, Procs
  <1>3. CASE Return(p) /\ UNCHANGED <<dev, flag, req, gate, pending, asleep>>
    BY <1>1, <1>3, ScanReturnSInv DEF bufvars
  <1>4. CASE /\ bp[p] <= NBUF
             /\ ~ Wanted(p, bp[p]) \/ gate[bp[p]] = Free
             /\ Flush(p, bp[p])
    BY <1>1, <1>2, <1>4, FlushSInv
  <1>5. CASE /\ bp[p] <= NBUF /\ Yield(p, "scangate")
             /\ UNCHANGED <<dev, flag, req, gate, pending, asleep, locals>>
    BY <1>1, <1>2, <1>5, ScanLockSInv DEF bufvars
  <1> QED
    BY <1>3, <1>4, <1>5 DEF scan

LEMMA scangateSInv ==
  ASSUME SInv, NEW p \in Syncers, scangate(p)
  PROVE  SInv'
  <1>1. bp[p] \in Bufs
    BY DEF scangate, Dispatched, SInv, PlaceInv
  <1> QED
    BY <1>1, FlushSInv DEF scangate, Dispatched

LEMMA scanioSInv ==
  ASSUME SInv, NEW p \in Syncers, scanio(p)
  PROVE  SInv'
  <1>1. /\ pc[p] = "scanio" /\ cpu = NoProc /\ pc[p] \in Holding /\ p \notin asleep
        /\ UNCHANGED <<flag, req, data, pending, disk, bufneed, owed>>
    BY DEF scanio, Dispatched, Holding
  <1>2. /\ bp[p] \in Bufs /\ gate[bp[p]] = p
        /\ "BFNTP" \notin flag[bp[p]] => bp[p] \notin pending
        /\ "BFASY" \notin flag[bp[p]]
    BY <1>1, Holder DEF Procs
  <1>3. CASE /\ asleep' = asleep \union {p} /\ Yield(p, "scanio")
             /\ UNCHANGED <<dev, gate, locals>>
    <2>1. UNCHANGED <<bufvars, locals, owed>>
      BY <1>1, <1>3 DEF bufvars
    <2> QED
      BY <1>1, <1>3, <2>1, SleepAgainSInv DEF Procs
  <1>4. CASE /\ "BFNTP" \notin flag[bp[p]] /\ NextBuf(p, bp[p])
             /\ UNCHANGED <<asleep, op, blk>>
    <2>1. {"BFNTP", "BFASY"} \intersect flag[bp[p]] = {}
      BY <1>2, <1>4
    <2> QED
      BY <1>1, <1>2, <1>4, <2>1, NextBufSInv
  <1> QED
    BY <1>3, <1>4 DEF scanio

(***************************************************************************)
(* The driver's interrupts.                                                *)
(***************************************************************************)
LEMMA DoneSInv ==
  ASSUME SInv, NEW b \in Bufs, Done(b)
  PROVE  SInv'
  <1>1. b \in pending /\ flag[b] \in SUBSET Flags /\ dev[b] \in Blocks
    BY DEF Done, SInv, Unique, TypeOK, TransferInv
  <1>2. /\ data' \in [Bufs -> Contents] /\ disk' \in [Blocks -> Contents]
        /\ owed' \in [Syncers -> SUBSET Blocks]
    <2>1. CASE req[b] = "BREAD"
      BY <1>1, <2>1 DEF Done, SInv, Unique, TypeOK
    <2>2. CASE req[b] = "BWRITE"
      BY <1>1, <2>2 DEF Done, SInv, Unique, TypeOK
    <2> QED
      BY <2>1, <2>2 DEF Done
  <1> QED
    BY <1>1, <1>2, CompletesSInv DEF Done

LEMMA FailsSInv ==
  ASSUME SInv, NEW b \in Bufs, Fails(b)
  PROVE  SInv'
  <1>1. b \in pending /\ flag[b] \in SUBSET Flags /\ dev[b] \in Blocks
    BY DEF Fails, SInv, Unique, TypeOK, TransferInv
  <1>2. /\ data' \in [Bufs -> Contents] /\ disk' \in [Blocks -> Contents]
        /\ owed' \in [Syncers -> SUBSET Blocks]
    <2>1. CASE req[b] = "BREAD"
      BY <1>1, <2>1 DEF Fails, SInv, Unique, TypeOK
    <2>2. CASE req[b] = "BWRITE"
      BY <1>1, <2>2 DEF Fails, SInv, Unique, TypeOK, Contents
    <2> QED
      BY <2>1, <2>2 DEF Fails
  <1>3. flag[b] \union {"BFERR"} \in SUBSET Flags
    BY <1>1 DEF Flags
  <1> QED
    BY <1>1, <1>2, <1>3, CompletesSInv DEF Fails

(***************************************************************************)
(* The steps of users and those of syncers are apart.                      *)
(***************************************************************************)
LEMMA StepKinds ==
  ASSUME SInv, NEW p \in Procs, Step(p)
  PROVE  \/ /\ p \in Users
            /\ \/ bclaim(p) \/ gotgate(p) \/ rescan(p) \/ again(p)
               \/ bread(p) \/ cached(p) \/ breadDone(p) \/ use(p) \/ fill(p) \/ hole(p)
         \/ p \in Syncers /\ (scan(p) \/ scangate(p) \/ scanio(p))
  <1>1. /\ p \in Syncers => pc[p] \in {"user", "scan", "scangate", "scanio"}
        /\ p \in Users => pc[p] \notin {"scan", "scangate", "scanio"}
        /\ p \in Users \/ p \in Syncers
    BY DEF SInv, PlaceInv, Procs
  <1>2. CASE bclaim(p) \/ gotgate(p) \/ rescan(p) \/ again(p)
    BY <1>1, <1>2 DEF bclaim, gotgate, rescan, again, Running, Dispatched
  <1>3. CASE bread(p) \/ cached(p) \/ breadDone(p) \/ use(p) \/ fill(p) \/ hole(p)
    BY <1>1, <1>3 DEF bread, cached, breadDone, use, fill, hole, Running, Dispatched
  <1>4. CASE scan(p) \/ scangate(p) \/ scanio(p)
    BY <1>1, <1>4 DEF scan, scangate, scanio, Running, Dispatched
  <1> QED
    BY <1>2, <1>3, <1>4 DEF Step

LEMMA NextSInv == SInv /\ [Next]_vars => SInv'
  <1> SUFFICES ASSUME SInv, [Next]_vars PROVE SInv'
    OBVIOUS
  <1>1. CASE UNCHANGED vars
    BY <1>1 DEF vars, SInv, Unique, TypeOK, PlaceInv, OwnInv, TransferInv, RescanInv,
       BufneedWakes, OnBufneed
  <1>2. ASSUME NEW p \in Procs, Call(p) PROVE SInv'
    BY <1>2, BeginSInv, BeginScanSInv DEF Call
  <1>3. ASSUME NEW p \in Procs, Step(p) PROVE SInv'
    BY <1>3, StepKinds, bclaimSInv, gotgateSInv, rescanSInv, againSInv, breadSInv,
       cachedSInv, breadDoneSInv, useSInv, fillSInv, holeSInv, scanSInv,
       scangateSInv, scanioSInv
  <1>4. ASSUME NEW p \in Procs, Signal(p) PROVE SInv'
    BY <1>4, SignalSInv
  <1>5. ASSUME NEW b \in Bufs, Done(b) \/ Fails(b) PROVE SInv'
    BY <1>5, DoneSInv, FailsSInv
  <1> QED
    BY <1>1, <1>2, <1>3, <1>4, <1>5 DEF Next

LEMMA SpecSInv == Spec => []SInv
  BY InitSInv, NextSInv, PTL DEF Spec

(***************************************************************************)
(* bclaim never gives a block a second buffer, although it sleeps for      *)
(* gates and for buffers and interrupts release buffers between its scans. *)
(***************************************************************************)
THEOREM BioUnique == Spec => []Unique
  <1>1. SInv => Unique
    BY DEF SInv
  <1> QED
    BY SpecSInv, <1>1, PTL

(***************************************************************************)
(* Whoever sleeps in bclaim on &bufneed has been noted there, and some     *)
(* buffer is held by one whose brelease or bdone will look at bufneed.     *)
(***************************************************************************)
THEOREM BioBufneedWakes == Spec => []BufneedWakes
  <1>1. SInv => BufneedWakes
    BY DEF SInv
  <1> QED
    BY SpecSInv, <1>1, PTL

-----------------------------------------------------------------------------
(* The contents, on a disk that refuses no write.                          *)

(***************************************************************************)
(* The initial contents.                                                   *)
(***************************************************************************)
LEMMA InitCInv == Init => CInv
  <1> SUFFICES ASSUME Init PROVE CInv
    OBVIOUS
  <1> QED
    BY BioAssumption DEF Init, CInv, HeldInv, BufInv, DiskInv, OwedInv, Valid, Procs

(***************************************************************************)
(* Moves of a process that holds no buffer and ends up with none.          *)
(***************************************************************************)
LEMMA MoveCInv ==
  ASSUME SInv, CInv, NEW p \in Users, NEW l \in Locs \ Holding, pc[p] \notin Holding,
         pc' = [pc EXCEPT ![p] = l],
         \A q \in Procs : q # p => bp'[q] = bp[q] /\ blk'[q] = blk[q],
         UNCHANGED <<dev, flag, req, data, gate, pending, disk, owed>>
  PROVE  CInv'
  <1> USE BioAssumption DEF CInv, Procs, Holding
  <1>1. HeldInv'
    BY DEF HeldInv, BufInv, Valid, SInv, Unique, TypeOK, PlaceInv, OwnInv,
       TransferInv, Holding, Bufs
  <1>2. BufInv'
    BY DEF BufInv, Valid, HeldInv, SInv, Unique, TypeOK, PlaceInv, OwnInv,
       TransferInv, Holding
  <1>3. DiskInv'
    BY DEF DiskInv, BufInv, Valid, SInv, Unique, TypeOK
  <1>4. OwedInv'
    BY DEF OwedInv, SInv, Unique, TypeOK, PlaceInv
  <1> QED
    BY <1>1, <1>2, <1>3, <1>4

(***************************************************************************)
(* bsync or bflush begins: what is not on the disk is in a modified buffer. *)
(***************************************************************************)
LEMMA BeginScanCInv ==
  ASSUME SInv, CInv, NEW p \in Syncers, NEW o \in SyncOps, BeginScan(p, o)
  PROVE  CInv'
  <1> USE BioAssumption DEF CInv, Procs, BeginScan, Dispatched, Goto,
         bufvars
  <1>1. HeldInv'
    BY DEF HeldInv, BufInv, Valid, SInv, Unique, TypeOK, PlaceInv, OwnInv,
       TransferInv, Holding, Bufs
  <1>2. BufInv'
    BY DEF BufInv, Valid, HeldInv, SInv, Unique, TypeOK, PlaceInv, OwnInv,
       TransferInv, Holding
  <1>3. DiskInv'
    BY DEF DiskInv, BufInv, Valid, SInv, Unique, TypeOK
  <1>4. OwedInv'
    <2>1. ASSUME NEW q \in Syncers, q # p, pc[q] # "user", NEW k \in owed'[q]
          PROVE  \E b \in bp[q] .. NBUF : dev[b] = k /\ "BFMOD" \in flag[b]
      BY <2>1 DEF OwedInv, SInv, Unique, TypeOK
    <2>2. ASSUME NEW k \in owed'[p]
          PROVE  \E b \in 1 .. NBUF : dev[b] = k /\ "BFMOD" \in flag[b]
      BY <2>2 DEF DiskInv, Bufs, SInv, Unique, TypeOK
    <2> QED
      BY <2>1, <2>2 DEF OwedInv, SInv, Unique, TypeOK
  <1> QED
    BY <1>1, <1>2, <1>3, <1>4

(***************************************************************************)
(* What a scan owes stays in its buffers while no modified buffer changes. *)
(***************************************************************************)
LEMMA OwedKept ==
  ASSUME SInv, CInv, owed' = owed,
         \A q \in Syncers : pc'[q] = pc[q] /\ bp'[q] = bp[q],
         \A c \in Bufs : "BFMOD" \in flag[c] => "BFMOD" \in flag'[c] /\ dev'[c] = dev[c]
  PROVE  OwedInv'
  <1> SUFFICES ASSUME NEW q \in Syncers, pc[q] # "user", NEW k \in owed[q]
               PROVE  \E b \in bp[q] .. NBUF : dev'[b] = k /\ "BFMOD" \in flag'[b]
    BY DEF OwedInv
  <1>1. PICK b \in bp[q] .. NBUF : dev[b] = k /\ "BFMOD" \in flag[b]
    BY DEF CInv, OwedInv
  <1>2. b \in Bufs
    BY BioAssumption DEF SInv, Unique, TypeOK, Bufs, Procs
  <1> QED
    BY <1>1, <1>2

(***************************************************************************)
(* bclaim takes the buffer that holds its block.                           *)
(***************************************************************************)
LEMMA HitCInv ==
  ASSUME SInv, CInv, NEW p \in Users, NEW b \in Bufs, Hit(p, b),
         pc[p] \in {"bclaim", "gate"}, gate[b] = Free, dev[b] = blk[p]
  PROVE  CInv'
  <1> USE BioAssumption DEF CInv, Procs, Hit, Goto
  <1>0. "BFERR" \notin flag[b] /\ "BFNTP" \notin flag[b] /\ flag' = flag
    BY DEF BufInv, SInv, TransferInv, Unique, TypeOK
  <1>1. HeldInv'
    BY <1>0 DEF HeldInv, Valid, SInv, Unique, TypeOK, OwnInv, Holding
  <1>2. BufInv'
    BY <1>0 DEF BufInv, Valid, SInv, Unique, TypeOK
  <1>3. DiskInv'
    BY <1>0 DEF DiskInv
  <1>4. OwedInv'
    BY <1>0, OwedKept DEF SInv, Unique, TypeOK
  <1> QED
    BY <1>1, <1>2, <1>3, <1>4

(***************************************************************************)
(* bclaim gives a clean buffer to a block no other buffer holds.           *)
(***************************************************************************)
LEMMA RecycleCInv ==
  ASSUME SInv, CInv, NEW p \in Users, NEW b \in Bufs, Recycle(p, b), gate[b] = Free,
         pc[p] \in {"bclaim", "rescan"}, cpu = p,
         \A c \in Bufs : dev[c] = NODEV \/ dev[c] # blk[p]
  PROVE  CInv'
  <1> USE BioAssumption DEF CInv, Procs, Recycle, Goto
  <1>0. b \notin pending /\ \A q \in Procs : pc[q] \in Holding => bp[q] # b
    BY DEF SInv, TransferInv, OwnInv
  <1>1. HeldInv'
    BY <1>0 DEF HeldInv, Valid, SInv, Unique, TypeOK, Holding
  <1>2. BufInv'
    BY <1>0 DEF BufInv, Valid, SInv, Unique, TypeOK
  <1>3. DiskInv'
    BY DEF DiskInv, SInv, Unique, TypeOK
  <1>4. OwedInv'
    BY OwedKept DEF SInv, Unique, TypeOK
  <1> QED
    BY <1>1, <1>2, <1>3, <1>4

(***************************************************************************)
(* A modified victim goes to the driver: its contents stay valid.          *)
(***************************************************************************)
LEMMA CleanCInv ==
  ASSUME SInv, CInv, NEW p \in Users, NEW b \in Bufs, Clean(p, b), gate[b] = Free,
         pc[p] \in {"bclaim", "rescan"}
  PROVE  CInv'
  <1> USE BioAssumption DEF CInv, Procs, Clean, bwriteAsync, dblock, Goto, locals
  <1>0. /\ dev[b] # NODEV /\ "BFERR" \notin flag[b] /\ data[b] = "latest"
        /\ pending' = pending \union {b} /\ b \notin pending
        /\ \A q \in Procs : pc[q] \in Holding => bp[q] # b
    BY DEF BufInv, Valid, SInv, TransferInv, OwnInv
  <1>1. HeldInv'
    BY <1>0 DEF HeldInv, Valid, SInv, Unique, TypeOK, PlaceInv, Holding
  <1>2. BufInv'
    BY <1>0 DEF BufInv, Valid, SInv, Unique, TypeOK
  <1>3. DiskInv'
    BY DEF DiskInv, SInv, Unique, TypeOK
  <1>4. OwedInv'
    BY OwedKept DEF SInv, Unique, TypeOK
  <1> QED
    BY <1>1, <1>2, <1>3, <1>4

(***************************************************************************)
(* The scans of bclaim.                                                    *)
(***************************************************************************)
LEMMA VictimCInv ==
  ASSUME SInv, CInv, NEW p \in Users, pc[p] \in {"bclaim", "rescan"}, cpu = p,
         \A c \in Bufs : dev[c] = NODEV \/ dev[c] # blk[p],
         \E b \in Bufs : Victim(p, b)
  PROVE  CInv'
  BY RecycleCInv, CleanCInv DEF Victim

LEMMA bclaimCInv ==
  ASSUME SInv, CInv, NEW p \in Users, bclaim(p)
  PROVE  CInv'
  <1>1. pc[p] = "bclaim" /\ cpu = p /\ pc[p] \notin Holding
    BY DEF bclaim, Running, Holding
  <1>2. CASE \E b \in Bufs : dev[b] = blk[p] /\ gate[b] = Free /\ Hit(p, b)
    BY <1>1, <1>2, HitCInv
  <1>3. CASE \E b \in Bufs :
               /\ bp' = [bp EXCEPT ![p] = b] /\ Yield(p, "gate")
               /\ UNCHANGED <<bufvars, asleep, op, blk, owed>>
    <2>1. "gate" \in Locs \ Holding
      BY DEF Locs, Holding
    <2>2. /\ pc' = [pc EXCEPT ![p] = "gate"] /\ blk' = blk
          /\ \A q \in Procs : q # p => bp'[q] = bp[q]
          /\ UNCHANGED <<dev, flag, req, data, gate, pending, disk, owed>>
      BY <1>3 DEF Yield, bufvars, SInv, Unique, TypeOK
    <2> QED
      BY <1>1, <2>1, <2>2, MoveCInv
  <1>4. CASE /\ \A b \in Bufs : dev[b] = NODEV \/ dev[b] # blk[p]
             /\ \E b \in Bufs : Victim(p, b)
    BY <1>1, <1>4, VictimCInv
  <1>5. CASE Goto(p, "rescan") /\ UNCHANGED <<bufvars, asleep, locals, owed>>
    BY <1>1, <1>5, MoveCInv DEF Goto, bufvars, locals, Locs, Holding
  <1> QED
    BY <1>2, <1>3, <1>4, <1>5 DEF bclaim

LEMMA gotgateCInv ==
  ASSUME SInv, CInv, NEW p \in Users, gotgate(p)
  PROVE  CInv'
  <1>1. pc[p] = "gate" /\ pc[p] \notin Holding /\ bp[p] \in Bufs
    BY DEF gotgate, Dispatched, Holding, SInv, PlaceInv
  <1>2. CASE gate[bp[p]] = Free /\ dev[bp[p]] = blk[p] /\ Hit(p, bp[p])
    BY <1>1, <1>2, HitCInv
  <1>3. CASE Goto(p, "bclaim") /\ UNCHANGED <<bufvars, asleep, locals, owed>>
    BY <1>1, <1>3, MoveCInv DEF Goto, bufvars, locals, Locs, Holding
  <1> QED
    BY <1>2, <1>3 DEF gotgate

LEMMA rescanCInv ==
  ASSUME SInv, CInv, NEW p \in Users, rescan(p)
  PROVE  CInv'
  <1>1. /\ pc[p] = "rescan" /\ cpu = p /\ pc[p] \notin Holding
        /\ \A c \in Bufs : dev[c] = NODEV \/ dev[c] # blk[p]
    BY DEF rescan, Running, SInv, RescanInv, Procs, Holding
  <1>2. CASE \E b \in Bufs : Victim(p, b)
    BY <1>1, <1>2, VictimCInv
  <1>3. CASE /\ Yield(p, "bufneed")
             /\ UNCHANGED <<dev, flag, req, data, gate, pending, disk, locals, owed>>
    BY <1>1, <1>3, MoveCInv DEF Yield, locals, Locs, Holding
  <1> QED
    BY <1>2, <1>3 DEF rescan

LEMMA againCInv ==
  ASSUME SInv, CInv, NEW p \in Users, again(p)
  PROVE  CInv'
  <1>1. "bclaim" \in Locs \ Holding /\ pc[p] \notin Holding
    BY DEF again, Dispatched, Locs, Holding
  <1> QED
    BY <1>1, MoveCInv DEF again, Goto, bufvars, locals

LEMMA BeginCInv ==
  ASSUME SInv, CInv, NEW p \in Users, NEW o \in UserOps,
         NEW k \in Blocks \union {NODEV}, Begin(p, o, k)
  PROVE  CInv'
  <1>1. "bclaim" \in Locs \ Holding /\ pc[p] \notin Holding
    BY DEF Begin, Dispatched, Locs, Holding
  <1> QED
    BY <1>1, MoveCInv DEF Begin, Goto, bufvars, SInv, Unique, TypeOK

(***************************************************************************)
(* bread asks the driver for a block that no buffer has modified.          *)
(***************************************************************************)
LEMMA breadCInv ==
  ASSUME SInv, CInv, NEW p \in Users, bread(p)
  PROVE  CInv'
  <1> DEFINE b == bp[p]
  <1> USE BioAssumption DEF CInv, Procs
  <1>0. /\ pc[p] = "got" /\ b \in Bufs /\ gate[b] = p /\ b \notin pending
        /\ flag[b] \in SUBSET Flags /\ "BFASY" \notin flag[b]
        /\ "BFNTP" \in flag[b] /\ "BFMOD" \notin flag[b] /\ "BFERR" \notin flag[b]
        /\ dev[b] = blk[p] /\ dev[b] # NODEV
        /\ \A q \in Procs : q # p /\ pc[q] \in Holding => bp[q] # b
    <2>1. pc[p] = "got" /\ pc[p] \in Holding /\ op[p] # "hole" /\ "BFNTP" \in flag[b]
      BY DEF bread, Running, Holding
    <2>2. /\ b \in Bufs /\ gate[b] = p /\ b \notin pending
          /\ flag[b] \in SUBSET Flags /\ "BFASY" \notin flag[b]
      BY <2>1, Holder
    <2>3. "BFMOD" \notin flag[b] /\ "BFERR" \notin flag[b] /\ dev[b] = blk[p]
      BY <2>1 DEF HeldInv
    <2>4. blk[p] # NODEV
      BY <2>1 DEF SInv, PlaceInv
    <2>5. \A q \in Procs : q # p /\ pc[q] \in Holding => bp[q] # b
      BY <2>2 DEF SInv, OwnInv
    <2> QED
      BY <2>1, <2>2, <2>3, <2>4, <2>5
  <1> HIDE DEF b
  <1>1. /\ req' = [req EXCEPT ![b] = "BREAD"] /\ pending' = pending \union {b}
        /\ UNCHANGED <<dev, data, disk, bufneed, owed>>
    BY <1>0 DEF bread, dblock, b
  <1>2. \/ /\ flag' = [flag EXCEPT ![b] = @ \union {"BFASY"}]
           /\ gate' = [gate EXCEPT ![b] = Device]
           /\ pc' = [pc EXCEPT ![p] = "user"]
           /\ \A q \in Procs : q # p => blk'[q] = blk[q] /\ bp'[q] = bp[q]
        \/ /\ flag' = flag /\ gate' = gate /\ pc' = [pc EXCEPT ![p] = "io"]
           /\ blk' = blk /\ bp' = bp
    <2>1. CASE Return(p) /\ flag' = [flag EXCEPT ![b] = @ \union {"BFASY"}]
               /\ gate' = [gate EXCEPT ![b] = Device]
      BY <2>1 DEF Return, Yield, SInv, Unique, TypeOK
    <2>2. CASE /\ flag' = [flag EXCEPT ![b] = @ \ {"BFASY"}]
               /\ Yield(p, "io") /\ UNCHANGED <<gate, locals>>
      BY <2>2, <1>0 DEF Yield, locals, SInv, Unique, TypeOK
    <2> QED
      BY <2>1, <2>2 DEF bread, b
  <1>3. \A c \in Bufs : /\ "BFMOD" \in flag'[c] <=> "BFMOD" \in flag[c]
                        /\ "BFERR" \in flag'[c] <=> "BFERR" \in flag[c]
                        /\ "BFNTP" \in flag'[c] <=> "BFNTP" \in flag[c]
    BY <1>0, <1>2 DEF SInv, Unique, TypeOK
  <1>4. HeldInv'
    <2>1. \A q \in Procs : q # p => pc'[q] = pc[q] /\ bp'[q] = bp[q] /\ blk'[q] = blk[q]
      BY <1>2 DEF SInv, Unique, TypeOK
    <2>2. ASSUME NEW q \in Procs, q # p, pc[q] \in Holding
          PROVE  /\ bp[q] \in Bufs /\ bp[q] # b
                 /\ req'[bp[q]] = req[bp[q]]
                 /\ bp[q] \in pending' <=> bp[q] \in pending
      BY <1>0, <1>1, <2>2, Holder DEF SInv, Unique, TypeOK
    <2>3. ASSUME NEW q \in Procs, q # p, pc[q] \in Holding
          PROVE  Valid(bp[q]) => Valid(bp[q])'
      BY <1>1, <1>3, <2>1, <2>2, <2>3 DEF Valid
    <2>4. \/ pc'[p] = "user"
          \/ pc'[p] = "io" /\ bp'[p] = b /\ blk'[p] = blk[p]
      BY <1>2 DEF b, SInv, Unique, TypeOK
    <2>5. b \in pending' /\ req'[b] = "BREAD" /\ dev'[b] = blk[p]
      BY <1>0, <1>1 DEF SInv, Unique, TypeOK
    <2> QED
      BY <1>1, <1>3, <2>1, <2>2, <2>3, <2>4, <2>5 DEF HeldInv, Holding
  <1>5. BufInv'
    <2>1. \A c \in Bufs : Valid(c)' <=> Valid(c)
      BY <1>0, <1>1, <1>3 DEF Valid, SInv, Unique, TypeOK
    <2>2. \A c \in Bufs : gate'[c] = Device => c \in pending'
      BY <1>0, <1>1, <1>2 DEF BufInv, SInv, Unique, TypeOK
    <2>3. \A c \in Bufs : "BFERR" \in flag[c] =>
             c # b /\ gate'[c] = gate[c] /\ gate[c] # p /\ pc'[gate[c]] = pc[gate[c]]
      BY <1>0, <1>2 DEF BufInv, SInv, Unique, TypeOK
    <2> QED
      BY <1>1, <1>3, <2>1, <2>2, <2>3 DEF BufInv
  <1>6. DiskInv'
    BY <1>1, <1>3 DEF DiskInv
  <1>7. OwedInv'
    BY <1>1, <1>2, <1>3, OwedKept DEF SInv, Unique, TypeOK
  <1> QED
    BY <1>4, <1>5, <1>6, <1>7

(***************************************************************************)
(* p gives up the buffer b without having changed its block.               *)
(***************************************************************************)
LEMMA ReleaseCInv ==
  ASSUME SInv, CInv, NEW p \in Users, NEW b \in Bufs, pc[p] \in Holding,
         bp[p] = b, gate[b] = p, b \notin pending,
         {"BFERR", "BFNTP"} \intersect flag[b] # {} => dev[b] = NODEV,
         brelease(b, flag[b]), Return(p),
         dev[b] # NODEV => data' = data,
         \A c \in Bufs : c # b => data'[c] = data[c],
         UNCHANGED <<req, pending, disk, owed>>
  PROVE  CInv'
  <1> USE BioAssumption DEF CInv, Procs, brelease, Return, Yield
  <1>0. /\ dev' = dev /\ "BFMOD" \in flag[b] <=> "BFMOD" \in flag'[b]
        /\ \A q \in Procs : q # p /\ pc[q] \in Holding => bp[q] # b
    BY DEF SInv, Unique, TypeOK, OwnInv
  <1>1. HeldInv'
    BY <1>0 DEF HeldInv, Valid, SInv, Unique, TypeOK, PlaceInv, Holding
  <1>2. BufInv'
    BY <1>0 DEF BufInv, Valid, SInv, Unique, TypeOK, OwnInv
  <1>3. DiskInv'
    BY <1>0 DEF DiskInv, SInv, Unique, TypeOK
  <1>4. OwedInv'
    BY <1>0, OwedKept DEF SInv, Unique, TypeOK
  <1> QED
    BY <1>1, <1>2, <1>3, <1>4

(***************************************************************************)
(* bread returns the block, valid, to its caller.                          *)
(***************************************************************************)
LEMMA HaveCInv ==
  ASSUME SInv, CInv, NEW p \in Users, NEW b \in Bufs, pc[p] \in Holding, bp[p] = b,
         gate[b] = p, {"BFERR", "BFNTP"} \intersect flag[b] = {},
         dev[b] = blk[p], blk[p] # NODEV, Yield(p, "have"),
         UNCHANGED <<bufvars, locals, owed>>
  PROVE  CInv'
  <1> USE BioAssumption DEF CInv, Procs, Yield, bufvars, locals
  <1>1. HeldInv'
    BY DEF HeldInv, Valid, SInv, Unique, TypeOK
  <1>2. BufInv'
    BY DEF BufInv, Valid, SInv, Unique, TypeOK, OwnInv
  <1>3. DiskInv'
    BY DEF DiskInv
  <1>4. OwedInv'
    BY OwedKept DEF SInv, Unique, TypeOK
  <1> QED
    BY <1>1, <1>2, <1>3, <1>4

(***************************************************************************)
(* A process that goes back to its sleep changes nothing.                  *)
(***************************************************************************)
LEMMA SleepAgainCInv ==
  ASSUME SInv, CInv, NEW p \in Procs, pc' = pc, UNCHANGED <<bufvars, locals, owed>>
  PROVE  CInv'
  BY DEF CInv, HeldInv, BufInv, DiskInv, OwedInv, Valid, bufvars, locals

LEMMA cachedCInv ==
  ASSUME SInv, CInv, NEW p \in Users, cached(p)
  PROVE  CInv'
  <1>1. pc[p] = "got" /\ pc[p] \in Holding /\ op[p] # "hole" /\ "BFNTP" \notin flag[bp[p]]
    BY DEF cached, Running, Holding
  <1>2. bp[p] \in Bufs /\ gate[bp[p]] = p /\ bp[p] \notin pending
    BY <1>1, Holder DEF Procs
  <1>3. /\ {"BFERR", "BFNTP"} \intersect flag[bp[p]] = {}
        /\ dev[bp[p]] = blk[p] /\ blk[p] # NODEV
    BY <1>1 DEF CInv, HeldInv, SInv, PlaceInv, Procs
  <1>4. CASE brelease(bp[p], flag[bp[p]]) /\ Return(p)
    BY <1>1, <1>2, <1>3, <1>4, ReleaseCInv DEF cached
  <1>5. CASE Yield(p, "have") /\ UNCHANGED <<dev, flag, gate, bufneed, asleep, locals>>
    <2>1. UNCHANGED <<bufvars, locals, owed>>
      BY <1>5 DEF cached, bufvars
    <2> QED
      BY <1>1, <1>2, <1>3, <1>5, <2>1, HaveCInv
  <1> QED
    BY <1>4, <1>5 DEF cached

LEMMA breadDoneCInv ==
  ASSUME SInv, CInv, NEW p \in Users, breadDone(p)
  PROVE  CInv'
  <1>1. pc[p] = "io" /\ pc[p] \in Holding
    BY DEF breadDone, Dispatched, Holding
  <1>2. /\ bp[p] \in Bufs /\ gate[bp[p]] = p
        /\ "BFNTP" \notin flag[bp[p]] => bp[p] \notin pending
    BY <1>1, Holder DEF Procs
  <1>3. blk[p] # NODEV /\ ("BFERR" \in flag[bp[p]] \/ dev[bp[p]] = blk[p])
    BY <1>1 DEF CInv, HeldInv, SInv, PlaceInv, Procs
  <1>4. CASE Yield(p, "io") /\ UNCHANGED <<dev, flag, gate, bufneed, locals>>
    <2>1. UNCHANGED <<bufvars, locals, owed>> /\ pc' = pc
      BY <1>1, <1>4 DEF breadDone, bufvars, Yield, SInv, Unique, TypeOK
    <2> QED
      BY <2>1, SleepAgainCInv DEF Procs
  <1>5. CASE /\ "BFNTP" \notin flag[bp[p]] /\ "BFERR" \in flag[bp[p]]
             /\ brelease(bp[p], flag[bp[p]]) /\ Return(p)
    <2>1. dev[bp[p]] = NODEV
      BY <1>2, <1>5 DEF CInv, BufInv
    <2> QED
      BY <1>1, <1>2, <1>5, <2>1, ReleaseCInv DEF breadDone
  <1>6. CASE /\ {"BFNTP", "BFERR"} \intersect flag[bp[p]] = {}
             /\ Yield(p, "have")
             /\ UNCHANGED <<dev, flag, gate, bufneed, asleep, locals>>
    <2>1. UNCHANGED <<bufvars, locals, owed>>
      BY <1>6 DEF breadDone, bufvars
    <2>2. {"BFERR", "BFNTP"} \intersect flag[bp[p]] = {} /\ dev[bp[p]] = blk[p]
      BY <1>3, <1>6
    <2> QED
      BY <1>1, <1>2, <1>3, <1>6, <2>1, <2>2, HaveCInv
  <1> QED
    BY <1>4, <1>5, <1>6 DEF breadDone

(***************************************************************************)
(* p has modified its block k in b, and gives b up or has it written.      *)
(***************************************************************************)
LEMMA ModifiedCInv ==
  ASSUME SInv, CInv, NEW p \in Users, NEW b \in Bufs, NEW k \in Blocks,
         pc[p] \in Holding, bp[p] = b, gate[b] = p, b \notin pending,
         dev[b] = k, "BFERR" \notin flag[b], Modify(b, k), Return(p),
         NEW f \in SUBSET Flags, "BFMOD" \in f, "BFERR" \notin f,
         flag' = [flag EXCEPT ![b] = f], dev' = dev, owed' = owed,
         \/ /\ "BFNTP" \notin f /\ gate' = [gate EXCEPT ![b] = Free]
            /\ UNCHANGED <<req, pending>>
         \/ /\ gate' = [gate EXCEPT ![b] = Device] /\ pending' = pending \union {b}
            /\ req' = [req EXCEPT ![b] = "BWRITE"]
  PROVE  CInv'
  <1> USE BioAssumption DEF CInv, Procs, Modify, Return, Yield
  <1>0. /\ k # NODEV /\ \A c \in Bufs : c # b => dev[c] # k
        /\ \A q \in Procs : q # p /\ pc[q] \in Holding => bp[q] # b
    BY DEF SInv, Unique, TypeOK, OwnInv
  <1>1. HeldInv'
    BY <1>0 DEF HeldInv, Valid, SInv, Unique, TypeOK, PlaceInv, Holding
  <1>2. BufInv'
    BY <1>0 DEF BufInv, Valid, SInv, Unique, TypeOK, OwnInv
  <1>3. DiskInv'
    BY <1>0 DEF DiskInv, SInv, Unique, TypeOK
  <1>4. OwedInv'
    BY OwedKept DEF SInv, Unique, TypeOK
  <1> QED
    BY <1>1, <1>2, <1>3, <1>4

LEMMA useCInv ==
  ASSUME SInv, CInv, NEW p \in Users, use(p)
  PROVE  CInv'
  <1> DEFINE b == bp[p]
  <1>1. pc[p] = "have" /\ pc[p] \in Holding
    BY DEF use, Dispatched, Holding
  <1>2. /\ b \in Bufs /\ gate[b] = p /\ b \notin pending
        /\ flag[b] \in SUBSET Flags
    BY <1>1, Holder DEF Procs
  <1>3. /\ {"BFERR", "BFNTP"} \intersect flag[b] = {}
        /\ dev[b] = blk[p] /\ dev[b] # NODEV
    BY <1>1 DEF CInv, HeldInv, Valid, Procs
  <1> HIDE DEF b
  <1>4. CASE brelease(b, flag[b]) /\ UNCHANGED <<data, disk>>
    BY <1>1, <1>2, <1>3, <1>4, ReleaseCInv DEF use, b
  <1>5. CASE Modify(b, blk[p]) /\ brelease(b, flag[b] \union {"BFMOD"})
    <2> DEFINE f == (flag[b] \union {"BFMOD"}) \ {"BFERR", "BFNTP"}
    <2>1. f \in SUBSET Flags /\ "BFMOD" \in f /\ "BFERR" \notin f /\ "BFNTP" \notin f
      BY <1>2 DEF Flags
    <2>2. /\ flag' = [flag EXCEPT ![b] = f] /\ gate' = [gate EXCEPT ![b] = Free]
          /\ dev' = dev
      BY <1>2, <1>3, <1>5 DEF brelease, SInv, Unique, TypeOK
    <2>3. blk[p] \in Blocks
      BY <1>2, <1>3 DEF SInv, Unique, TypeOK
    <2>4. UNCHANGED <<req, pending, owed>> /\ Return(p) /\ Modify(b, blk[p])
      BY <1>5 DEF use
    <2> HIDE DEF f
    <2> QED
      BY <1>1, <1>2, <1>3, <2>1, <2>2, <2>3, <2>4, ModifiedCInv DEF b
  <1> QED
    BY <1>4, <1>5 DEF use, b

LEMMA fillCInv ==
  ASSUME SInv, CInv, NEW p \in Users, fill(p)
  PROVE  CInv'
  <1> DEFINE b == bp[p]
  <1>1. pc[p] = "got" /\ pc[p] \in Holding /\ op[p] = "claim"
    BY DEF fill, Running, Holding
  <1>2. /\ b \in Bufs /\ gate[b] = p /\ b \notin pending
        /\ flag[b] \in SUBSET Flags
    BY <1>1, Holder DEF Procs
  <1>3. "BFERR" \notin flag[b] /\ dev[b] = blk[p] /\ dev[b] # NODEV
    BY <1>1 DEF CInv, HeldInv, SInv, PlaceInv, Procs
  <1>4. blk[p] \in Blocks
    BY <1>2, <1>3 DEF SInv, Unique, TypeOK
  <1>5. Modify(b, blk[p]) /\ Return(p) /\ owed' = owed
    BY DEF fill, b
  <1> HIDE DEF b
  <1>6. CASE brelease(b, flag[b] \union {"BFMOD"}) /\ UNCHANGED <<req, pending>>
    <2> DEFINE f == (flag[b] \union {"BFMOD"}) \ {"BFERR", "BFNTP"}
    <2>1. f \in SUBSET Flags /\ "BFMOD" \in f /\ "BFERR" \notin f /\ "BFNTP" \notin f
      BY <1>2 DEF Flags
    <2>2. /\ flag' = [flag EXCEPT ![b] = f] /\ gate' = [gate EXCEPT ![b] = Free]
          /\ dev' = dev
      BY <1>2, <1>3, <1>6 DEF brelease, SInv, Unique, TypeOK
    <2> HIDE DEF f
    <2> QED
      BY <1>1, <1>2, <1>3, <1>4, <1>5, <1>6, <2>1, <2>2, ModifiedCInv DEF b
  <1>7. CASE /\ bwriteAsync(b, flag[b] \union {"BFMOD"})
             /\ UNCHANGED <<dev, bufneed, asleep>>
    <2> DEFINE f == (flag[b] \union {"BFMOD"}) \union {"BFASY", "BFNTP"}
    <2>1. f \in SUBSET Flags /\ "BFMOD" \in f /\ "BFERR" \notin f
      BY <1>2, <1>3 DEF Flags
    <2>2. /\ flag' = [flag EXCEPT ![b] = f] /\ gate' = [gate EXCEPT ![b] = Device]
          /\ dev' = dev /\ pending' = pending \union {b}
          /\ req' = [req EXCEPT ![b] = "BWRITE"]
      BY <1>3, <1>7 DEF bwriteAsync, dblock
    <2> HIDE DEF f
    <2> QED
      BY <1>1, <1>2, <1>3, <1>4, <1>5, <2>1, <2>2, ModifiedCInv DEF b
  <1> QED
    BY <1>6, <1>7 DEF fill, b

LEMMA holeCInv ==
  ASSUME SInv, CInv, NEW p \in Users, hole(p)
  PROVE  CInv'
  <1>1. pc[p] = "got" /\ pc[p] \in Holding /\ op[p] = "hole"
    BY DEF hole, Running, Holding
  <1>2. bp[p] \in Bufs /\ gate[bp[p]] = p /\ bp[p] \notin pending
    BY <1>1, Holder DEF Procs
  <1>3. dev[bp[p]] = NODEV
    BY <1>1 DEF CInv, HeldInv, SInv, PlaceInv, Procs
  <1>4. \A c \in Bufs : c # bp[p] => data'[c] = data[c]
    BY DEF hole, SInv, Unique, TypeOK
  <1> QED
    BY <1>1, <1>2, <1>3, <1>4, ReleaseCInv DEF hole

(***************************************************************************)
(* A scan goes from the buffer b, which is not modified, to the next; if   *)
(* it leaves b with no block, what it forgets is on the disk.              *)
(***************************************************************************)
LEMMA ScanNextCInv ==
  ASSUME SInv, CInv, NEW p \in Syncers, NEW b \in Bufs, bp[p] = b,
         pc[p] \in {"scan", "scangate", "scanio"},
         (gate' = gate /\ pc[p] # "scanio") \/
           (gate' = [gate EXCEPT ![b] = Free] /\ gate[b] \in {p, Free}),
         dev' = dev \/ (gate[b] \in {p, Free} /\ dev' = [dev EXCEPT ![b] = NODEV]),
         "BFMOD" \notin flag[b] \/ (dev[b] = NODEV /\ dev' = dev),
         b \notin pending \/ (gate' = gate /\ dev' = dev),
         bp' = [bp EXCEPT ![p] = @ + 1], pc' = [pc EXCEPT ![p] = "scan"],
         UNCHANGED <<flag, req, data, pending, disk, blk, owed>>
  PROVE  CInv'
  <1> USE BioAssumption DEF CInv, Procs
  <1>0. \A q \in Procs : q # p /\ pc[q] \in Holding => gate[bp[q]] = q /\
          (gate[b] \in {p, Free} => bp[q] # b)
    BY DEF SInv, Unique, TypeOK, OwnInv
  <1>1. HeldInv'
    BY <1>0 DEF HeldInv, Valid, SInv, Unique, TypeOK, PlaceInv, Holding
  <1>2. BufInv'
    BY <1>0 DEF BufInv, Valid, SInv, Unique, TypeOK, OwnInv
  <1>3. DiskInv'
    BY DEF DiskInv, SInv, Unique, TypeOK
  <1>4. OwedInv'
    <2> SUFFICES ASSUME NEW q \in Syncers, pc'[q] # "user", NEW k \in owed[q]
                 PROVE  \E c \in bp'[q] .. NBUF : dev'[c] = k /\ "BFMOD" \in flag[c]
      BY DEF OwedInv
    <2>1. pc[q] # "user" /\ k \in Blocks
      BY DEF SInv, Unique, TypeOK
    <2>2. PICK c \in bp[q] .. NBUF : dev[c] = k /\ "BFMOD" \in flag[c]
      BY <2>1 DEF OwedInv
    <2>3. c # b /\ dev'[c] = k
      BY <2>1, <2>2 DEF SInv, Unique, TypeOK, Bufs
    <2>4. c \in bp'[q] .. NBUF
      BY <2>3 DEF SInv, Unique, TypeOK, Bufs
    <2> QED
      BY <2>2, <2>3, <2>4
  <1> QED
    BY <1>1, <1>2, <1>3, <1>4

(***************************************************************************)
(* A scan has its modified buffer b written.                               *)
(***************************************************************************)
LEMMA bwriteSyncCInv ==
  ASSUME SInv, CInv, NEW p \in Syncers, NEW b \in Bufs, bp[p] = b,
         pc[p] \in {"scan", "scangate"}, gate[b] = Free, "BFMOD" \in flag[b],
         bwriteSync(p, b), Yield(p, "scanio"),
         UNCHANGED <<dev, data, disk, locals, owed>>
  PROVE  CInv'
  <1> USE BioAssumption DEF CInv, Procs, bwriteSync, dblock, Yield, locals
  <1>0. /\ dev[b] # NODEV /\ "BFERR" \notin flag[b] /\ data[b] = "latest"
        /\ pending' = pending \union {b} /\ b \notin pending /\ "BFASY" \notin flag[b]
        /\ \A q \in Procs : pc[q] \in Holding => bp[q] # b
    BY DEF BufInv, Valid, SInv, TransferInv, OwnInv
  <1>1. HeldInv'
    BY <1>0 DEF HeldInv, Valid, SInv, Unique, TypeOK, PlaceInv, Holding
  <1>2. BufInv'
    BY <1>0 DEF BufInv, Valid, SInv, Unique, TypeOK, OwnInv, Holding
  <1>3. DiskInv'
    BY DEF DiskInv, SInv, Unique, TypeOK
  <1>4. OwedInv'
    <2>1. \A c \in Bufs : "BFMOD" \in flag[c] => "BFMOD" \in flag'[c]
      BY DEF SInv, Unique, TypeOK
    <2>2. \A q \in Syncers : pc'[q] # "user" => pc[q] # "user"
      BY DEF SInv, Unique, TypeOK
    <2>3. \A q \in Syncers : \A c \in bp[q] .. NBUF : c \in Bufs
      BY DEF SInv, Unique, TypeOK, Bufs
    <2> QED
      BY <2>1, <2>2, <2>3 DEF OwedInv
  <1> QED
    BY <1>1, <1>2, <1>3, <1>4

LEMMA FlushCInv ==
  ASSUME SInv, CInv, NEW p \in Syncers, NEW b \in Bufs, bp[p] = b, Flush(p, b),
         pc[p] \in {"scan", "scangate"}, ~ Wanted(p, b) \/ gate[b] = Free,
         UNCHANGED <<data, disk, bufneed, owed>>
  PROVE  CInv'
  <1>0. gate[b] = Free => b \notin pending
    BY BioAssumption DEF SInv, TransferInv
  <1>1. CASE /\ Wanted(p, b) /\ "BFMOD" \in flag[b]
             /\ bwriteSync(p, b) /\ Yield(p, "scanio") /\ UNCHANGED <<dev, locals>>
    BY <1>1, bwriteSyncCInv
  <1>2. CASE /\ Wanted(p, b) /\ "BFMOD" \notin flag[b] /\ NextBuf(p, b)
             /\ UNCHANGED <<flag, req, pending, asleep, op, blk>>
    <2>1. dev' = dev \/ dev' = [dev EXCEPT ![b] = NODEV]
      BY <1>2 DEF NextBuf, SInv, Unique, TypeOK
    <2> QED
      BY <1>0, <1>2, <2>1, ScanNextCInv DEF NextBuf, Goto
  <1>3. CASE /\ ~ Wanted(p, b) /\ bp' = [bp EXCEPT ![p] = @ + 1] /\ Goto(p, "scan")
             /\ UNCHANGED <<dev, flag, req, gate, pending, asleep, op, blk>>
    <2>1. "BFMOD" \notin flag[b] \/ dev[b] = NODEV
      BY <1>3 DEF Wanted
    <2> QED
      BY <1>3, <2>1, ScanNextCInv DEF Goto
  <1> QED
    BY <1>1, <1>2, <1>3 DEF Flush

(***************************************************************************)
(* A scan that ends or waits for a gate.                                   *)
(***************************************************************************)
LEMMA ScanMoveCInv ==
  ASSUME SInv, CInv, NEW p \in Syncers, NEW l \in {"user", "scangate"}, pc[p] = "scan",
         pc' = [pc EXCEPT ![p] = l], l = "user" \/ bp'[p] = bp[p],
         \A q \in Procs : q # p => bp'[q] = bp[q] /\ blk'[q] = blk[q],
         UNCHANGED <<dev, flag, req, data, gate, pending, disk, owed>>
  PROVE  CInv'
  <1> USE BioAssumption DEF CInv, Procs
  <1>1. HeldInv'
    BY DEF HeldInv, Valid, SInv, Unique, TypeOK
  <1>2. BufInv'
    BY DEF BufInv, Valid, SInv, Unique, TypeOK
  <1>3. DiskInv'
    BY DEF DiskInv
  <1>4. OwedInv'
    BY DEF OwedInv, SInv, Unique, TypeOK
  <1> QED
    BY <1>1, <1>2, <1>3, <1>4

LEMMA scanCInv ==
  ASSUME SInv, CInv, NEW p \in Syncers, scan(p)
  PROVE  CInv'
  <1>1. pc[p] = "scan" /\ UNCHANGED <<data, disk, bufneed, owed>>
    BY DEF scan, Running
  <1>2. bp[p] <= NBUF => bp[p] \in Bufs
    BY BioAssumption DEF SInv, Unique, TypeOK, Bufs, Procs
  <1>3. CASE Return(p) /\ UNCHANGED <<dev, flag, req, gate, pending, asleep>>
    BY <1>1, <1>3, ScanMoveCInv DEF Return, Yield, SInv, Unique, TypeOK, Procs
  <1>4. CASE /\ bp[p] <= NBUF
             /\ ~ Wanted(p, bp[p]) \/ gate[bp[p]] = Free
             /\ Flush(p, bp[p])
    BY <1>1, <1>2, <1>4, FlushCInv
  <1>5. CASE /\ Yield(p, "scangate")
             /\ UNCHANGED <<dev, flag, req, gate, pending, asleep, locals>>
    BY <1>1, <1>5, ScanMoveCInv DEF Yield, locals
  <1> QED
    BY <1>3, <1>4, <1>5 DEF scan

LEMMA scangateCInv ==
  ASSUME SInv, CInv, NEW p \in Syncers, scangate(p)
  PROVE  CInv'
  <1>1. bp[p] \in Bufs
    BY DEF scangate, Dispatched, SInv, PlaceInv
  <1> QED
    BY <1>1, FlushCInv DEF scangate, Dispatched

LEMMA scanioCInv ==
  ASSUME SInv, CInv, NEW p \in Syncers, scanio(p)
  PROVE  CInv'
  <1>1. /\ pc[p] = "scanio" /\ pc[p] \in Holding
        /\ UNCHANGED <<flag, req, data, pending, disk, bufneed, owed>>
    BY DEF scanio, Dispatched, Holding
  <1>2. /\ bp[p] \in Bufs /\ gate[bp[p]] = p
        /\ "BFNTP" \notin flag[bp[p]] => bp[p] \notin pending
    BY <1>1, Holder DEF Procs
  <1>3. CASE Yield(p, "scanio") /\ UNCHANGED <<dev, gate, locals>>
    <2>1. UNCHANGED <<bufvars, locals, owed>> /\ pc' = pc
      BY <1>1, <1>3 DEF bufvars, Yield, SInv, Unique, TypeOK
    <2> QED
      BY <2>1, SleepAgainCInv DEF Procs
  <1>4. CASE /\ "BFNTP" \notin flag[bp[p]] /\ NextBuf(p, bp[p])
             /\ UNCHANGED <<asleep, op, blk>>
    <2>1. "BFMOD" \notin flag[bp[p]]
      BY <1>1, <1>4 DEF CInv, HeldInv, Procs
    <2>2. dev' = dev \/ dev' = [dev EXCEPT ![bp[p]] = NODEV]
      BY <1>2, <1>4 DEF NextBuf, SInv, Unique, TypeOK
    <2> QED
      BY <1>1, <1>2, <1>4, <2>1, <2>2, ScanNextCInv DEF NextBuf, Goto
  <1> QED
    BY <1>3, <1>4 DEF scanio

(***************************************************************************)
(* What is known of a buffer the driver is at work on.                     *)
(***************************************************************************)
LEMMA PendingBuf ==
  ASSUME SInv, CInv, NEW b \in Bufs, b \in pending
  PROVE  /\ dev[b] \in Blocks /\ flag[b] \in SUBSET Flags /\ "BFERR" \notin flag[b]
         /\ "BFASY" \in flag[b] => gate[b] = Device
         /\ req[b] \in {"BREAD", "BWRITE"}
         /\ req[b] = "BREAD" => "BFMOD" \notin flag[b] /\ disk[dev[b]] = "latest"
         /\ req[b] = "BWRITE" => data[b] = "latest"
  <1>1. /\ dev[b] \in Blocks /\ dev[b] # NODEV /\ flag[b] \in SUBSET Flags
        /\ "BFNTP" \in flag[b]
        /\ "BFASY" \in flag[b] => gate[b] = Device
        /\ req[b] \in {"BREAD", "BWRITE"}
    BY DEF SInv, Unique, TypeOK, TransferInv
  <1>2. "BFERR" \notin flag[b]
    BY <1>1 DEF CInv, BufInv
  <1>3. req[b] = "BREAD" => "BFMOD" \notin flag[b]
    BY <1>1 DEF CInv, BufInv, Valid
  <1>4. req[b] = "BREAD" => disk[dev[b]] = "latest"
    BY <1>1, <1>3 DEF CInv, DiskInv, SInv, Unique
  <1>5. req[b] = "BWRITE" => data[b] = "latest"
    BY <1>1, <1>2 DEF CInv, BufInv, Valid
  <1> QED
    BY <1>1, <1>2, <1>3, <1>4, <1>5

(***************************************************************************)
(* A transfer that ends well leaves the block the same in the buffer and   *)
(* on the disk.                                                            *)
(***************************************************************************)
LEMMA CompletesCInv ==
  ASSUME SInv, CInv, NEW b \in Bufs, b \in pending, pending' = pending \ {b},
         NEW g \in SUBSET Flags, flag' = [flag EXCEPT ![b] = g],
         {"BFNTP", "BFERR", "BFMOD"} \intersect g = {},
         (gate' = gate /\ gate[b] # Device) \/
           (gate' = [gate EXCEPT ![b] = Free] /\ gate[b] = Device),
         data'[b] = "latest", \A c \in Bufs : c # b => data'[c] = data[c],
         disk'[dev[b]] = "latest", \A k \in Blocks : k # dev[b] => disk'[k] = disk[k],
         (owed' = owed /\ "BFMOD" \notin flag[b]) \/
           owed' = [p \in Syncers |-> owed[p] \ {dev[b]}],
         UNCHANGED <<dev, req, pc, blk, bp>>
  PROVE  CInv'
  <1> USE BioAssumption DEF CInv, Procs
  <1>0. /\ \A q \in Procs : pc[q] \in Holding /\ bp[q] = b => pc[q] \in {"io", "scanio"}
        /\ "BFERR" \notin flag[b]
    BY PendingBuf DEF SInv, OwnInv, TransferInv
  <1>1. HeldInv'
    <2>1. \A q \in Procs : pc[q] \in Holding => bp[q] \in Bufs
      BY DEF SInv, PlaceInv, Holding
    <2>2. \A c \in Bufs : c # b =>
            flag'[c] = flag[c] /\ dev'[c] = dev[c] /\ (c \in pending' <=> c \in pending)
      BY DEF SInv, Unique, TypeOK
    <2>3. flag'[b] = g
      BY DEF SInv, Unique, TypeOK
    <2> QED
      BY <1>0, <2>1, <2>2, <2>3 DEF HeldInv, Valid, Holding
  <1>2. BufInv'
    BY DEF BufInv, Valid, SInv, Unique, TypeOK
  <1>3. DiskInv'
    BY DEF DiskInv, SInv, Unique, TypeOK
  <1>4. OwedInv'
    <2> SUFFICES ASSUME NEW q \in Syncers, pc[q] # "user", NEW k \in owed'[q]
                 PROVE  \E c \in bp[q] .. NBUF : dev[c] = k /\ "BFMOD" \in flag'[c]
      BY DEF OwedInv
    <2>1. k \in owed[q] /\ (k # dev[b] \/ "BFMOD" \notin flag[b])
      OBVIOUS
    <2>2. PICK c \in bp[q] .. NBUF : dev[c] = k /\ "BFMOD" \in flag[c]
      BY <2>1 DEF OwedInv
    <2>3. c # b /\ c \in Bufs
      BY <2>1, <2>2 DEF SInv, Unique, TypeOK, Bufs
    <2>4. "BFMOD" \in flag'[c]
      BY <2>2, <2>3 DEF SInv, Unique, TypeOK
    <2> QED
      BY <2>2, <2>4
  <1> QED
    BY <1>1, <1>2, <1>3, <1>4

LEMMA DoneCInv ==
  ASSUME SInv, CInv, NEW b \in Bufs, Done(b)
  PROVE  CInv'
  <1> DEFINE g == IF "BFASY" \in flag[b]
                  THEN (IF req[b] = "BWRITE" THEN flag[b] \ {"BFMOD"} ELSE flag[b])
                         \ {"BFASY", "BFERR", "BFNTP"}
                  ELSE (IF req[b] = "BWRITE" THEN flag[b] \ {"BFMOD"} ELSE flag[b])
                         \ {"BFNTP"}
  <1>1. b \in pending /\ pending' = pending \ {b} /\ UNCHANGED <<req, pc, blk, bp>>
    BY DEF Done, locals
  <1>2. /\ dev[b] \in Blocks /\ flag[b] \in SUBSET Flags /\ "BFERR" \notin flag[b]
        /\ "BFASY" \in flag[b] => gate[b] = Device
        /\ req[b] \in {"BREAD", "BWRITE"}
        /\ req[b] = "BREAD" => "BFMOD" \notin flag[b] /\ disk[dev[b]] = "latest"
        /\ req[b] = "BWRITE" => data[b] = "latest"
    BY <1>1, PendingBuf
  <1>3. "BFASY" \notin flag[b] => gate[b] # Device
    BY DEF SInv, TransferInv
  <1>4. g \in SUBSET Flags /\ {"BFNTP", "BFERR", "BFMOD"} \intersect g = {}
    BY <1>2
  <1>5. flag' = [flag EXCEPT ![b] = g]
    BY DEF Done, bdone
  <1>6. dev' = dev
    BY <1>2 DEF Done, bdone, SInv, Unique, TypeOK
  <1>7. \/ gate' = gate /\ gate[b] # Device
        \/ gate' = [gate EXCEPT ![b] = Free] /\ gate[b] = Device
    BY <1>2, <1>3 DEF Done, bdone
  <1>8. /\ data'[b] = "latest" /\ \A c \in Bufs : c # b => data'[c] = data[c]
        /\ disk'[dev[b]] = "latest" /\ \A k \in Blocks : k # dev[b] => disk'[k] = disk[k]
        /\ \/ owed' = owed /\ "BFMOD" \notin flag[b]
           \/ owed' = [p \in Syncers |-> owed[p] \ {dev[b]}]
    BY <1>2 DEF Done, SInv, Unique, TypeOK
  <1> HIDE DEF g
  <1> QED
    BY <1>1, <1>4, <1>5, <1>6, <1>7, <1>8, CompletesCInv

(***************************************************************************)
(* A block that cannot be read is forgotten; bread, if it waits, is told.  *)
(***************************************************************************)
LEMMA LostCInv ==
  ASSUME SInv, CInv, NEW b \in Bufs, b \in pending, pending' = pending \ {b},
         req[b] = "BREAD", NEW g \in SUBSET Flags, flag' = [flag EXCEPT ![b] = g],
         {"BFNTP", "BFMOD"} \intersect g = {}, dev' = [dev EXCEPT ![b] = NODEV],
         \/ gate' = gate /\ gate[b] \in Procs /\ "BFERR" \in g
         \/ /\ gate' = [gate EXCEPT ![b] = Free] /\ gate[b] = Device
            /\ "BFERR" \notin g,
         "BFMOD" \notin flag[b],
         UNCHANGED <<data, disk, owed, req, pc, blk, bp>>
  PROVE  CInv'
  <1> USE BioAssumption DEF CInv, Procs
  <1>0. /\ \A q \in Procs :
             pc[q] \in Holding /\ bp[q] = b => pc[q] = "io" /\ gate[b] = q
        /\ gate[b] \in Procs => pc[gate[b]] = "io" /\ bp[gate[b]] = b
    BY DEF SInv, OwnInv, TransferInv, HeldInv, Holding
  <1>1. HeldInv'
    <2>1. \A q \in Procs : pc[q] \in Holding => bp[q] \in Bufs
      BY DEF SInv, PlaceInv, Holding
    <2>2. \A c \in Bufs : c # b =>
            flag'[c] = flag[c] /\ dev'[c] = dev[c] /\ (c \in pending' <=> c \in pending)
      BY DEF SInv, Unique, TypeOK
    <2>3. flag'[b] = g
      BY DEF SInv, Unique, TypeOK
    <2> QED
      BY <1>0, <2>1, <2>2, <2>3 DEF HeldInv, Valid, Holding
  <1>2. BufInv'
    BY <1>0 DEF BufInv, Valid, SInv, Unique, TypeOK
  <1>3. DiskInv'
    BY DEF DiskInv, SInv, Unique, TypeOK
  <1>4. OwedInv'
    BY OwedKept DEF SInv, Unique, TypeOK
  <1> QED
    BY <1>1, <1>2, <1>3, <1>4

LEMMA FailsCInv ==
  ASSUME SInv, CInv, ~ WriteErrors, NEW b \in Bufs, Fails(b)
  PROVE  CInv'
  <1> DEFINE f == flag[b] \union {"BFERR"}
             g == IF "BFASY" \in f THEN f \ {"BFASY", "BFERR", "BFNTP"}
                                   ELSE f \ {"BFNTP"}
  <1>1. /\ b \in pending /\ pending' = pending \ {b} /\ UNCHANGED <<req, pc, blk, bp>>
        /\ req[b] # "BWRITE"
    BY DEF Fails, locals
  <1>2. /\ req[b] = "BREAD" /\ flag[b] \in SUBSET Flags
        /\ "BFASY" \in flag[b] => gate[b] = Device
        /\ "BFMOD" \notin flag[b]
    BY <1>1, PendingBuf
  <1>3. "BFASY" \notin flag[b] => gate[b] \in Procs
    BY <1>1 DEF SInv, TransferInv, Unique, TypeOK
  <1>4. g \in SUBSET Flags /\ {"BFNTP", "BFMOD"} \intersect g = {}
    BY <1>2 DEF Flags
  <1>5. flag' = [flag EXCEPT ![b] = g]
    BY <1>2 DEF Fails, bdone
  <1>6. dev' = [dev EXCEPT ![b] = NODEV]
    BY <1>2 DEF Fails, bdone
  <1>7. \/ gate' = gate /\ gate[b] \in Procs /\ "BFERR" \in g
        \/ gate' = [gate EXCEPT ![b] = Free] /\ gate[b] = Device /\ "BFERR" \notin g
    BY <1>2, <1>3 DEF Fails, bdone
  <1>8. UNCHANGED <<data, disk, owed>>
    BY <1>2 DEF Fails
  <1> HIDE DEF f, g
  <1> QED
    BY <1>1, <1>2, <1>4, <1>5, <1>6, <1>7, <1>8, LostCInv

LEMMA NextCInv ==
  ASSUME ~ WriteErrors, SInv, CInv, [Next]_vars
  PROVE  CInv'
  <1>1. CASE UNCHANGED vars
    BY <1>1 DEF vars, CInv, HeldInv, BufInv, DiskInv, OwedInv, Valid
  <1>2. ASSUME NEW p \in Procs, Call(p) PROVE CInv'
    BY <1>2, BeginCInv, BeginScanCInv DEF Call
  <1>3. ASSUME NEW p \in Procs, Step(p) PROVE CInv'
    BY <1>3, StepKinds, bclaimCInv, gotgateCInv, rescanCInv, againCInv, breadCInv,
       cachedCInv, breadDoneCInv, useCInv, fillCInv, holeCInv, scanCInv,
       scangateCInv, scanioCInv
  <1>4. ASSUME NEW p \in Procs, Signal(p) PROVE CInv'
    BY <1>4, SleepAgainCInv DEF Signal
  <1>5. ASSUME NEW b \in Bufs, Done(b) \/ Fails(b) PROVE CInv'
    BY <1>5, DoneCInv, FailsCInv
  <1> QED
    BY <1>1, <1>2, <1>3, <1>4, <1>5 DEF Next

LEMMA SpecCInv == ASSUME ~ WriteErrors PROVE Spec => [](SInv /\ CInv)
  <1>1. SInv /\ CInv /\ [Next]_vars => (SInv /\ CInv)'
    BY NextSInv, NextCInv
  <1> QED
    BY <1>1, InitSInv, InitCInv, PTL DEF Spec

(***************************************************************************)
(* On a disk that refuses no write, a valid buffer holds the last          *)
(* modification of its block, and a block no buffer has modified is up to  *)
(* date on the disk: no read ahead, eviction, flush or read error in       *)
(* between brings old contents back.                                       *)
(***************************************************************************)
THEOREM BioCoherent == ASSUME ~ WriteErrors PROVE Spec => []Coherent
  <1>1. SInv /\ CInv => Coherent
    BY DEF CInv, BufInv, DiskInv, Valid, Coherent
  <1> QED
    BY SpecCInv, <1>1, PTL

(***************************************************************************)
(* On such a disk a process that bread has returned a buffer to owns it,   *)
(* with its block in it and current, and a buffer whose gate is open has   *)
(* no transfer under way.                                                  *)
(***************************************************************************)
THEOREM BioServed == ASSUME ~ WriteErrors PROVE Spec => []Served
  <1>1. SInv /\ CInv => Served
    <2> SUFFICES ASSUME SInv, CInv PROVE Served
      OBVIOUS
    <2>1. ASSUME NEW p \in Users, pc[p] = "have"
          PROVE  /\ gate[bp[p]] = p /\ dev[bp[p]] = blk[p]
                 /\ "BFNTP" \notin flag[bp[p]] /\ data[bp[p]] = "latest"
      BY <2>1 DEF SInv, CInv, OwnInv, PlaceInv, Holding, HeldInv, BufInv, Procs
    <2>2. ASSUME NEW b \in Bufs, gate[b] = Free
          PROVE  b \notin pending /\ {"BFNTP", "BFASY"} \intersect flag[b] = {}
      BY <2>2, BioAssumption DEF SInv, TransferInv
    <2> QED
      BY <2>1, <2>2 DEF Served
  <1> QED
    BY SpecCInv, <1>1, PTL

(***************************************************************************)
(* On such a disk, when bsync or bflush ends, every modification made      *)
(* before it began has been written, by itself or by somebody else.        *)
(***************************************************************************)
THEOREM BioSyncDurable == ASSUME ~ WriteErrors PROVE Spec => []SyncDurable
  <1>1. SInv /\ CInv => SyncDurable
    <2> SUFFICES ASSUME SInv, CInv, NEW p \in Syncers, pc[p] = "scan", bp[p] > NBUF
                 PROVE  owed[p] = {}
      BY DEF SyncDurable
    <2>1. bp[p] .. NBUF = {}
      BY BioAssumption DEF SInv, Unique, TypeOK, Procs
    <2> QED
      BY <2>1 DEF CInv, OwedInv
  <1> QED
    BY SpecCInv, <1>1, PTL

=============================================================================
