# A verification project for the Commodore 900 Coherent kernel

Coherent is a small Unix. This project models the parts of its kernel
(`src/src/kernel`) in which several processes and the interrupt level meet, checks
the models with TLC on small instances, and proves the most important results for
every size with TLAPS. The rest of the repository (user programs, boot ROM, build)
is sequential code around the kernel and is left aside.

Source paths below are relative to `src/src/kernel`.

## How the kernel runs, and what that makes of a step

- One processor, and a kernel that is **not preemptive**: a process in the kernel
  keeps the processor until it calls `sleep`; another is chosen only there, at exit,
  or on the return to user mode (`stand`, coh/clock.c).
- **Interrupts** do come between any two instructions that are not between `sphi`
  and `spl`. They call `wakeup`, `unlock` (through `bdone`), `sendsig` and, in the
  terminal drivers, most of drv/tty.c.

So in every module a stretch of code without a sleep is one step, and it is split
only where an interrupt in its middle matters. The splits are named in the header of
each module; the variables `cpu` and `self` say which process is in such a stretch.

## Inventory

| component | state | operations | meets | hard behaviour | what makes it correct |
|---|---|---|---|---|---|
| gates and the run queue (coh/proc.c, clock.c) | `g[0]`, `g[1]`, `p_state`, sleep and run queues | lock, unlock, sleep, wakeup, dispatch | everything | unlock from interrupts; signals waking waiters; a count in a char | exclusion, no lost wakeup, a free gate is taken |
| buffer cache (coh/bio.c) | buffers: block, flags, gate; `bufneed` | bread, bclaim, bwrite, bdone, brelease, bsync, bflush | gates, disk driver, file system | asynchronous completion, recycling while others sleep, I/O errors | one buffer per block, the cache is coherent, sync is durable, calls return |
| pipes (coh/pipe.c) | ring in an inode, three counters, three flag bits | open, close, read, write, unlink | inodes, descriptors, signals | several sleepers behind one bit; faults and signals in the middle | a bounded queue; nobody sleeps beside what it waits for; true end of file |
| processes (coh/proc.c, sig.c, sys1.c) | process chain, ids, flags, `pts` | fork, exit, wait, kill, pause, ptrace | scheduler, terminals | exits, waits and adoptions in any order; id reuse; the tracer's handshake | ids unique, parents live, no missed wait, no stranded process |
| terminals (drv/tty.c, z8001/drv/al.c) | two queues, flag word, modes, chip | open, close, read, write, ioctl, interrupts | character lists, signals, modem | interrupt level shares the flag word with processes; flow control both ways; hangup; last close | nobody sleeps unwoken; a stop is always followed by a start |
| character lists (coh/clist.c) | free list, queues | getq, putq, waitq | terminals | exhaustion | queues are queues, the pool is conserved |
| inode cache (coh/fs1.c, the inode list of fs2.c) | inode structures, reference counts, `s_inode` | iattach, idetach, icopymd, isync, ialloc, ifree | buffer cache, gates | a structure recycled while somebody sleeps for it; a free list filled from stale dinodes | one structure per inode, references counted, an inode has as many names as links |
| file system (coh/fs2.c, fs3.c) | free lists, superblock, `FSCLEAN` | balloc, bfree, ialloc, smod, sync | buffer cache, inode cache | modification during a sync; a crash between writes | a block has one owner; the free list reaches the disk; a clean mark is true |
| disk driver (z8001/drv/wd.c) | a queue per drive, the controller's chain, the command block | block, intr, ioctl (format) | buffer cache, raw I/O, swap | sorting under the controller, refusals and errors at interrupt level, the end of a partition | every request ends once, with its own blocks |
| segments, swap, exec (coh/seg.c, exec.c, ker/swap.c) | memory and disk queues, two counts per segment, the swapper | salloc, sfree, seggrow, segpack, segdupl, swap in/out, exec | processes, raw I/O, MMU | compaction and swapping of what somebody transfers, forks or grows | no overlap, a transfer keeps its segments, the mapping is right |
| descriptors (coh/fd.c), kernel arena (coh/alloc.c), timeouts (coh/timeout.c) | tables and lists | get/close, kalloc/kfree, timeout | all | mostly sequential | conservation |
| lp, pty, console drivers, machine code | | | | repeat the structure of al; below the models | |

`PROJECT.json` lists all of them with their status, and under `hazards` the places in
the code where something can go wrong that a test would hardly reach.

## Modules

| module | what it is | models |
|---|---|---|
| `Mutex` | abstract: locks with owners | what `lock`/`unlock` promise |
| `Gate` | gates, sleep/wakeup, dispatch | coh/proc.c, parts of sig.c, clock.c |
| `GateProofs` | proofs about `Gate`, refinement of `Mutex` | |
| `Bio` | buffer cache over abstract gates | coh/bio.c |
| `BioProofs` | proofs about `Bio` | |
| `Fifo` | abstract: a bounded queue of bytes | what a pipe promises |
| `Pipe` | pipes, unnamed and named | coh/pipe.c, parts of sys3.c, fd.c, fs1.c |
| `PipeProofs` | proofs about `Pipe`, refinement of `Fifo` | |
| `Proc` | process life, signals, ptrace | coh/proc.c, sig.c, sys1.c |
| `ProcProofs` | proofs about `Proc` | |
| `Tty` | a serial line | drv/tty.c, z8001/drv/al.c, exhaustion of clist.c |
| `TtyProofs` | proofs about `Tty` | |
| `Filsys` | a file system on a disk, with sync, crash, check and remount | parts of coh/fs1.c, fs2.c, fs3.c, sys2.c, sys3.c, bio.c; userland/cmd/check.c, icheck.c |
| `FilsysProofs` | proofs about the super block and the blocks in `Filsys` | |
| `Icache` | inodes in core and the list of free inodes | coh/fs1.c, the inode part of fs2.c, callers in sys2.c, sys3.c, fd.c |
| `IcacheProofs` | proofs about the structures and the names in `Icache` | |
| `Disk` | abstract: requests answered once, in any order | what bio.c expects of a block driver |
| `Wd` | the hard and floppy disk driver | z8001/drv/wd.c |
| `WdProofs` | proofs about `Wd`, refinement of `Disk` | |
| `Seg` | segments, fork, growth, compaction, the swapper | coh/seg.c, ker/swap.c, parts of proc.c, bio.c, z8001/src/commodore.c |
| `MC*` | the instances for TLC | |

Variables and actions keep the names of the code where they can: `Gate!lock` is the
body of `lock` from its `while` on, `Bio!bclaim` the scan of `bclaim`, `Tty!ttstart`
is `ttstart`. Where a routine sleeps, it continues in an action of its own (`take`
and `preadEnd` after `pread`; `ttwritePut` after `ttwriteNext`). Definitions whose
comment begins with *Mutant* are faulty versions of the definition that follows; no
specification uses them, they show that the properties notice the fault.

Modules are composed by abstraction: `Bio` and `Pipe` use a gate as `Mutex` has it
(an owner), which `GateRefinesMutex` justifies; `Bio`, `Pipe`, `Proc` and `Tty` use
`sleep` and `wakeup` as `Gate` shows them to work. `Filsys` and `Icache` use the buffer
cache as `Bio` shows it to be (one contents per block, which the disk may receive at any
time). `Wd` implements `Disk`, which is what `Bio`'s `Done` and `Fails`, `Seg`'s
`swapioDone` and `bdone` assume of a driver.

### Gate
State: who has the processor (`cpu`), the run queue as a set, `p_state`, the two bytes
of each gate, where each process is inside `lock`/`unlock`. `unlock` is three steps
(clear, test, wake), with interrupts in between; `Device` is the interrupt level, which
owns the gates of buffers in transfer. The order of the run queue by `p_cval` is
abstracted: any member may be dispatched.

### Bio
A block stands for device and number; contents are "latest" or "stale"; the victim
`bclaim` chooses is any free buffer. Transfers end at any time (`Done`, `Fails`).
`owed` is history: what was modified when a sync began. A call of the model has one
buffer at a time. Two routines claim a second one while they hold the first: `aread`
(coh/fs3.c:411-423, the new block of a file with its indirect block) and `indfree`
(coh/fs2.c:411-422, a block of the free list under an indirect block). That they cannot
fill the cache and wait for each other is outside `BufneedWakes` and `CallsReturn`.

### Pipe
The ring holds real bytes, so that reordering shows. `named` distinguishes the two
kinds of pipe and never changes. Copies may be cut short by a fault in the user's
buffer; `fwrite` copies block by block (`BSIZE`) and moves `i_size` (`size`) only when a
block is complete, and `fread` delivers nothing beyond it. `uopen` and `ucreat` open a named
pipe (`fdopen`, `popen`); `ucreat` then empties it (`iclear`), and a writer that sleeps for
room is not told: `passed` is history, the writers asleep since before such a creat.
`Fifo` has this as a step of its own (`Enter`: a user comes in, and may throw the queue away).
Left out: link(2) to a pipe and the reference `ulink` keeps while the gate is open
(coh/sys2.c:298-325), descriptors of a named pipe that fork shares, `mknod`.

### Proc
One structure per slot; process ids are real numbers below `NPID` and wrap. A pending
signal is a bit (which signal does not matter to these properties). `self` is the
process in the window between `sleep`'s test for a signal and its `sphi`. `nx` says that
the swapper has `pnxgate` and sleeps (ker/swap.c:90-113): meanwhile no process forks,
goes through the process list or reports, and `ptret`, which has set `PFWAIT` and has seen that
its tracer lives, waits at "ptlock". `late` is history: a process that sleeps on `pt_req`
although its tracer left before the sleep.

### Tty
`line` is the TTY structure with the chip's transmitter; operators such as `ttstart`,
`ttout`, `ttflush` map a line to its possible successors and are used by the actions
of processes and of interrupts alike, as the C routines are. Input is a number of
characters; output a sequence of "x", "start" and "stop". `short` says that the free
list of character lists is empty, which other lines may cause at any time. `setup` is
what stays fixed of a line and of its use; a run has one or several (`Setups`). Left out:
what editing does to `t_ib` and to the columns, speeds, `T_EXCL`, `T_BRD`.

### Filsys
One file system: the free list in the super block and in chain blocks, dinodes, what
the cache has of each and what the disk has. A call (a write that takes a block, a
truncation that gives all back) runs from sleep to sleep; `smod` writes the dirty mark
through the super block's buffer before the first change. `usync` is `isync`, `bsync`,
`mssync` in the order of the code. `Crash` keeps only the
disk; then the machine mounts it, or `check` repairs it, also under a root that is mounted
read only, and `fsremount` follows. `check` is `check -s` (userland/cmd/check.c): icheck's
`makesuper` puts every block that no inode has on a new list, highest block first, and
`clrdirty` marks the disk clean. Blocks that two inodes have icheck only reports; the
operator clears inodes (clri) until none is left, and which ones is a choice (`kept`).
`fsremount` reads again only the inodes that somebody has open, as `iremap` does
(coh/fs1.c:520); the others are a choice (`unused`) and stay as they are, for `iattach` takes
them so (coh/fs1.c:311, 373-382). When one of them is not what `check` has left on the disk,
the file system is damaged without anybody knowing, and the model follows it no further.
The code takes no gate there; writes are refused until `MFRON` is cleared at the end.
The disk of `Init` (`Fresh`) is what `check -s` makes of one without files.
`raced` is history: a sync and a call have met. A disk that is marked clean
and is not consistent (possible only then) is `damaged` and goes to `check` first: what a
kernel does on top of it is not of interest.

### Icache
Structures with `i_ino`, `i_refc`, gate and flag; dinodes; `s_inode`; one directory entry
per file as a count of names with the gate of its directory. Every routine that sleeps at
a gate and looks again is split there (`iattach`, `ilock`, `victim`; `ialloc`, `relock`,
`scan`, `take`). On a full disk the directory cannot grow and `idirent` fails
(`idirentFailed`); `imake` does not look (coh/fs1.c:275-279), so that the inode keeps a link
and has no name. `unnamed` has these inodes, and `Links` counts the missing name. `overtaken` is history: `isync`, which takes no inode's gate, has
written an inode its owner was about to change.

### Disk and Wd
`Wd` has a queue per drive (`actf`), the chain of drives at the controller (`forw`), the
command block and the one aligned block for unaligned transfers. `wdblock` and `wdintr`
are single steps, for both run with interrupts off from the queue on; the loop around
`wdstart` that ends both is `Started`. What is checked of
data is which blocks a command moves to or from which buffer.

### Seg
`m` holds the SEG structures and both queues with real addresses in clicks, so that holes,
overlaps and compaction are real. A process has a user area, a shared text and private
data; `hw` is what its segmentation registers point to. Processes sleep in `swapio`, at
`pnxgate`, in `segfinm` and in raw transfers, and `cpu` says who is between two sleeps.
The swapper is `sw`, a program counter over `swap`, `proccore` and `procdisk`. Whom it
prefers (`p_sval`, `p_ival`) is a choice; it may be a child that `segadup` is still making,
for `swap` does not ask. Memory is given out by `smalloc`, from below, and for user areas
(`SFHIGH`) by `shalloc`, from above (`sxalloc`). `panic` is set when `sfree` finds a bad
count; the machine stops there, so the properties speak of what comes before.

## Runs

| run | instance | shows |
|---|---|---|
| `gate` | 3 processes, 2 gates, `g[1]` modulo 4 | exclusion, no lost wakeup, refinement of `Mutex`, and (fair) that a free gate with waiters is taken |
| `bio` | 2 users, 1 syncer, 2 buffers, 2 blocks | uniqueness, coherence, what `bread` returns, `bufneed`, durable sync |
| `bio_live` | 1 user, 1 syncer | all calls return |
| `pipe` | 2 readers, 2 writers, ring of 2, counts up to 3, both kinds | counters, sleeps, end of file, refinement of `Fifo`, with opens, creats, closes and unlinks in between |
| `proc` | process 1 and two more, ids 2 and 3 | ids, parents, waits, ptrace requests, who releases a structure; (fair) orphans are released, nobody stays stopped, ptrace returns |
| `tty` | 2 processes; a line with modem control and echo, or one in tandem mode with a pool that runs out | no reader or writer sleeps who should not; refused input means a full queue; a stopped end is restarted |
| `tty_live` | 2 processes, no modem, no echo | a drain sleeps only on output that moves or was stopped; output calls return |
| `filsys` | 2 processes, 2 files, 3 blocks, lists of 2; 4 calls, 2 syncs, 1 crash | a block has one owner, the free list reaches the disk, a clean disk is consistent unless a sync met a call |
| `icache` | 2 processes and sync, 2 structures, 3 inodes, 7 calls | one structure per inode, exact references, names equal links also when a directory cannot grow, no deadlock |
| `wd` | 3 buffers, a disk with two partitions and a floppy, 4 requests | the queues agree, refinement of `Disk`, (fair) every request is answered |
| `seg` | 3 processes, 6 structures, 6 clicks of memory, 5 of swap, 4 calls | segments apart, transfers keep their segments, right mappings, every structure has as many users as it counts |
| `seg_move` | as `seg`, with 7 structures | **violation**: a segment is moved while the swapper writes it |

### Bounds, and why they are enough
- `gate`: with three processes one holds, one waits and one races; two gates let a
  process hold one while it waits for the other. `Wrap` is just above the number of
  processes, as 256 is above what the process table holds.
- `bio`: two buffers for two blocks make every eviction, wait for `bufneed` and race
  for a recycled buffer happen with two users; a third process syncs.
- `pipe`: counts larger than the ring, a ring that wraps, two sleepers on either side.
- `proc`: three structures give process 1, a parent and its child, so that every
  adoption, wait and trace happens; ids wrap at once. What needs a stranger beside them
  (a wrong parent, a second tracer) is covered by the proofs, which hold for any number.
- `tty`: the marks are 0, 1 and 2, so that each is crossed by a single character.
  `MaxWrite`, `MaxIn`, `MaxOut`, `MaxEdit` bound a write, the two queues (input comes
  only below the bound) and an echo. `Ioctls` and `Modes` of a setup are the calls made
  on that line; together the runs make all of them.
- `filsys`: with lists of two a block in three is a chain block, so that the list runs
  empty and full; four calls fill, empty and fill again; the second sync overlaps what
  the first has left.
- `icache`: fewer structures than inodes, so that every attach evicts; `NICINOD` is less
  than what a scan finds. Seven calls let one process create, unlink and close while the
  other does the same with the inode that has come back.
- `wd`: the requests (`MCRequests`) are blocks inside and outside their partition,
  aligned or not, raw ones that run off the end, start beyond it or are not aligned, one
  larger than `MAXBLKCNT`, a drive that has no such partition, and a format.
- `seg`: memory holds two processes but not three, and the swap device not everything
  else, so that each allocation also fails; the three `Starts` are a compact memory, one
  with holes and one whose data cannot grow in place; user areas are at the top of memory
  in one start and low in the others. At six structures the swapper's write and a compaction do not
  meet; at seven they do (`seg_move`). Seven also make `sfree` panic (see the observations);
  `UsersCounted` and the others were looked at there, too, as far as a few million states
  go, with no violation.

Assumptions of the passing runs: `WriteErrors = FALSE` (writes to the disk succeed; reads
may fail), and, inside the properties, `~raced`, `~overtaken`, the writers in `passed`, the
processes in `late` and the inodes in `unnamed`. Each stands for a case in which the property
without it is refuted: see the observations.

Deadlock is checked in the runs on gates, buffers, processes, file systems, inodes and
the disk driver: `Filsys`, `Icache` and `Wd` have a step `rest` for when the bound on
calls is used up and everybody is back in user mode, so that anything else that stops is
found. A pipe that everyone has closed and a line that everyone has closed and nobody
opens again may stop, and so may the processes of `Seg` when their calls are used up.

### Fairness
- A process that is runnable is run in the end: `clock` halves the `p_cval` of the
  running process every tick while waiting ones gain `CVCLOCK`, and `dispatch` takes
  the highest. Hence strong fairness for the steps of a woken process, and for
  the end of a quantum.
- A process in the kernel finishes what it can (it is not preempted).
- The swapper gives up `pnxgate` when its transfers are over (`swapUnlock`): `swap` unlocks it
  in every round.
- The disk and the serial chip end what they were given: in `Wd` the controller answers
  every command with an interrupt, by success or by an error.
- Process 1 waits for ever (`uwait(Eve)`; /etc/init, outside the kernel).
- A process that holds a gate gives it up: every path unlocks what it locked, as long
  as the sleeps under the gate end (see the observation on `bsync`).

No fairness is assumed of calls, signals, input, or of the other end of a line.

## What is proved

`GateProofs` (any processes and gates; assumptions: finitely many processes, fewer
than `Wrap`, distinct names for the device and the idle process):

- `GateInvariant`: the inductive invariant. `MutualExclusion` alone is not inductive: that a
  process is in `wakeup` or `sleep` must be tied to its state and to the processor
  (`PcInv`), that a gate is locked exactly when somebody holds it (`LockedInv`), and
  the waiter count to the processes inside (`WaitersCounted`), because `unlock`
  decides by `g[1]` whether to wake at all.
- `GateTypeOK`, `GateMutualExclusion`, `GateNoLostWakeup` follow from it.
- `GateRefinesMutex`: the owner of a gate in `Mutex` is who holds it; every step maps to
  a step or a stutter.

`ProcProofs` (any finite number of structures, fewer than `NPID`):

- `ProcInvariant`: types; the chain is the structures in use; ids are unique; every
  fork makes a child of its own; only `self` is in the gap of `sleep`; every process
  has a living parent; nobody is in the gap or asleep in wait beside a child it should
  see, unless the child is stopped and waits for `pnxgate` before it tells. `ParentLives` is not inductive by itself: a parent could be a structure still
  being made, or share its id with another; `WaitNotLost` needs the gap before the sleep.
- `ProcTypeOK`, `ProcPidsUnique`, `ProcParentLives`, `ProcWaitNotLost` follow from it;
  `ProcReapedByParent` is an action property from the same invariant;
  `ProcOneTracer` has an invariant of its own (whoever waits for the answer owns the gate).

- `ProcRequestHasTarget`: a request in `pts` is for a child that is stopped under the
  tracer that makes it. Its invariant (`TraceInv`) adds that only a traced process is
  stopped or waited for, and that between `ptset`'s search and its request the child
  stays a stopped child, although both sleep.

`PipeProofs` (any readers and writers, finitely many, at least one of each; any ring size
and any set of bytes):

- `PipeRingOK`: `i_pnc`, `i_prx` and `i_pwx` agree across wraps and short copies.
- `PipeSleepsRightly`: a reader sleeps only while there is nothing to read and somebody
  may still write, with `IFWFW` set for who will wake it; a writer only while the ring is
  full or has no reader, with `IFWFR` set, unless a creat has emptied the ring since (`passed`;
  `IFWFR` then still stands). Not inductive: between a read and the end of
  `pread` a writer sleeps although there is room (`WriterInv` says that the reader who
  made it still owns the gate), and the gate must have the one owner (`GateInv`) who is
  at a place where it is held.
- `PipeEofMeansClosed`: a reader gets end of file from an unnamed pipe only when it is
  empty and nobody has its writing end; needs what `i_refc` counts (`RefcInv`) and that
  `IFEOF` stands for a closed end (`EofInv`).
- `PipeImplementsFifo`: with the bytes from `i_prx` on as the queue, every step is a step
  of `Fifo` or a stutter: what is read is what was written, in order, once, and only a
  creat throws bytes away, all that there are.

`BioProofs` (any processes, buffers and blocks; fewer syncers than buffers: `usync`
runs under `syngate`, and a cache has tens of buffers):

- `BioUnique` (a block is in one buffer) and `BioBufneedWakes` (a process that waits for
  `bufneed` has the flag set and a user or the driver holds a buffer) hold whatever the
  disk does. Their invariant `SInv` adds who owns which gate (`OwnInv`), that each transfer
  belongs to the driver or to a process that waits for it (`TransferInv`), and what makes
  `Unique` go through: from the end of `bclaim`'s first scan to its second no buffer has
  got the block (`RescanInv`).
- `BioCoherent`, `BioServed` and `BioSyncDurable` assume `~WriteErrors`, without which
  they are refuted (see the observations). Their invariant `CInv` says what a process
  knows of a buffer it holds (`HeldInv`), what is in the buffers (`BufInv`) and on the disk
  (`DiskInv`), and that what a sync still owes is in a buffer its scan has yet to come to
  (`OwedInv`): `SyncDurable` speaks only of the end of the scan.

`FilsysProofs` (any processes, files, blocks and list lengths):

- `FilsysFreeListSaved`: when `s_fmod` is clear and nobody is in `balloc`, `bfree` or
  `superwrite`, the disk has the super block that is in core, across syncs, crashes and
  remounts. The invariant (`SavedInv`) says it for the moments in between: the super block
  is on the disk, or on its way there, or the owner of `m_flock` is yet to call `smod`.
- `FilsysOneOwner`: every block is in one place, and `s_tfree` is exact. The only assumption
  is that of the module (`FilsysAssumption`: sizes are numbers, names are distinct, the buffer
  of a dinode is not that of a block of the free list). The list that `balloc` follows is
  computed by a recursive function through the chain blocks in the cache, and the property
  says nothing of what a step does to it. The proof reads it as a stack `t` of blocks with the set `B` of
  the places at which a chain block is: `ChainOfStack` and `StackOfChain` show that a list
  and its chain blocks yield such a stack exactly when the list has no loop, by induction on
  the least place at which they differ; `bfree` is a push, `balloc` a pop, and neither
  touches a link further down. The invariant then has `StoreInv` (the stack is what the
  super block in core and the cached chain blocks hold), `CallInv`, `WriteInv`, `TruncInv`
  and `ListInv` (what a process in the middle of a call has in its hands, and that
  only the owner of `m_flock` changes the list), and `RonInv` (the disk under a file
  system that is mounted read only is consistent if it is marked clean).
  `MoveOut` and `MoveIn` carry a block between the stack, a process and a file;
  `makesuperHolds`, `MadeConsistent` and `RepairedConsistent` show that what icheck writes
  is a consistent disk.
- `FilsysCleanWhenSerial`: unless a sync has met a call (`~raced`, as in the property;
  without it the code breaks it, see the observations), a disk that is marked clean is
  consistent. Its invariant `CInv` (on top of the one for `OneOwner`) says why: `MarkInv`,
  the mark is off the disk before a call has changed an inode or given a block; `UntouchedInv`,
  while the mark is on the disk the cache differs from it at most in a block that is being
  freed, which is still a file's on the disk; `FoundInv`, an inode that differs from its
  dinode is one that `isync` will find; `StageInv`, what each loop of `usync` has done when
  the next begins, so that everything is written when `mssync` writes the mark. That core
  and cache then make a consistent disk is `OneOwner`'s invariant (`CoreConsistent`), and
  that what the blocks of files hold does not matter is `ConsistentFrame`.

`FilsysOneOwner` and `FilsysCleanWhenSerial` end where a remount has left an inode in core
that `check` has changed on the disk (`power` is "damaged"): what a write on top of that does
is not covered.

`IcacheProofs` (any finite number of processes, any structures and inodes):

- `IcacheOneSlot`: no inode is in two structures, although `iattach` sleeps between its
  search and the gate. `IcacheRefsCounted`: `i_refc` is the number of open files and of
  calls in progress that refer to the structure.
  `IcacheInvariant` is what makes both inductive: which gates a process holds at each of
  29 places (`GateInv`), which variables are set there (`LocalInv`), which inode is in the
  structure it has (`InodeInv`), and that the bad block file stays as it was made
  (`BadInv`), for `ialloc` attaches it while it holds the gate of the super block.
- `IcacheNamesRight`: while no sync has overtaken the user of an inode (`~overtaken`, as in
  the property; without it the code breaks it, see the observations), every inode that
  nobody holds has as many names as links, one more link if `idirent` could not enter its
  name (`Links`), and one that has a link is not free. The property
  speaks only of inodes at rest; its invariant `NInv` says what holds in between: a
  structure agrees with the names of its inode except while `icopydm` reads it (then the
  dinode does) and while `idirent` is still to enter its first name or to fail; a structure without
  flags says what its dinode says, and one that nobody refers to has no flags, so that
  giving it to another inode loses nothing; an inode in no structure has a right dinode;
  and `idetach` enters `iclear` only for an inode without links (`NameLocal`).

`TtyProofs` (any processes, finitely many, any setups, any marks in the order of the code's;
`OHILIM <= MaxOut`, that is, the bound on the model's queue is not below the mark at which
writers stop):

- `TtySleepsRightly`: no reader sleeps beside input, or without a carrier, and no writer
  below the low mark; `TtyStopMeansFull`: input is refused, and the other end stopped, only
  while the queue is above the low mark at which `ttread` lifts both;
  `TtyTandemRemembered`: an end that is stopped is one we know to be stopped.
  `TtyInvariant` adds what the flag word must say while somebody sleeps (`SleepInv`), that
  `t_open` counts who has the line (`CountInv`), and a bound of the output queue:
  `MaxOut + MaxEdit`, a character per process that waits for a list, and the start and stop
  characters (`BoundInv`). The routines shared with the interrupt level have lemmas of
  their own: each keeps what a sleeper relies on or wakes it (`Keeps`).
- `TtyDrainSleepsRightly`: who waits for the output to drain does so while the chip goes
  on by itself or was stopped by an X-OFF. Assumes `Plain` (no modem control, no opening
  again during the last close): in both cases the property fails in the code, for a write
  that finds the carrier gone returns without `ttstart`, and an open during the last close
  is torn down by it (see the observations).

`WdProofs` (any finite set of buffers, any drives, partitions and requests; the first
partition starts at block 0, which `wdstart` relies on for floppy disks, and a format is not
raw, as `wdioctl` makes it):

- `WdQueuesAgree`: the queues of the drives, the chain and the state of the controller agree
  after every request and interrupt.
- `WdImplementsDisk`: every request is answered once, by an error or by the transfer of the
  blocks it reaches. `WdInvariant` adds what this rests on: a queued request is one that
  `wdblock` lets through, with its clipped count; the command block is that of the head of
  the queue (which `disksort` leaves in its place), and the aligned block has its data.
  In the middle of a step the tables agree but for the drive that has left the chain
  (`Agree`). The loop around `wdstart` is an induction, on the least number of calls for
  which a claim fails: each call refuses one more request, so that as many calls as there
  are buffers end with a busy controller or an empty chain.

Only model-checked:

- all liveness (the prover has neither fairness nor `ENABLED`);
- `Seg` (`SegmentsApart`, `TransfersApart`, `MappingRight`, `UsersCounted`): compaction folds a
  move over a queue of segments with real addresses, and `UsersCounted` needs exact counts
  over all processes; no proof has been attempted.

`TypeOK`, `Runnable` and `WaitersCounted` of `Gate` are parts of the proved invariant.
Every inductive invariant was checked by TLC on the instance of its run before the proof.

## Findings

`seg_move`: `segmove` (coh/seg.c:729) decides whether a segment may be moved by comparing
`s_lrefc` with the number of its owners that are not swapped out; its comment says that a
larger count means a transfer in progress, "`segdisk' across the swap write" among them.
`procdisk` takes the owner's count away before it calls `segdisk` (ker/swap.c:227) and
sets `PFSWAP` only when all segments are done (ker/swap.c:234). While `segdisk` sleeps in
`swapio`, its own count stands for that of an owner who still seems to be in memory: the
numbers agree, and a compaction slides the segment, and lets another be put where it was,
while the disk is written from the old place. What is swapped in later is not what was
there. The same holds of a raw transfer whose process `procdisk` is writing.

### Observations without a run
Each was met while modelling. Where the model has the behaviour, it can be seen by
dropping the condition that is named.

Buffer cache
- After a failed synchronous write `bsync` leaves `BFERR` set. The next user's `brelease`
  sees the old flag and sets `b_dev` to `NODEV`, but keeps `BFMOD` (coh/bio.c:271-276):
  the modification is lost, and the next `bsync` sleeps for ever with `syngate` locked, for
  `dblock` finds no driver and returns without `bdone`. With `WriteErrors = TRUE`
  `Coherent` is refuted.

Pipes
- creat of a named pipe that exists, which is what the shell's `>` does
  (userland/cmd/sh/exec2.c:223), empties the ring (coh/sys2.c:229, coh/fs1.c:627-651) and
  wakes nobody: a writer behind `IFWFR` sleeps beside an empty ring until a reader or a
  close comes. Without `passed` `SleepsRightly` is refuted.
- After a write that faulted part-way (coh/fs3.c:305-306, before `i_size` is moved) the ring
  may count bytes that lie beyond `i_size`. `fread` then moves nothing and is no error
  (coh/fs3.c:213-217), and the loop of `pread` (coh/pipe.c:115-128) goes round for ever
  with the inode's gate locked. In `Pipe`, `take` is then a step that changes nothing but
  `out`; no property speaks of the end of a read.

Processes
- `ptret` tests `p_ppid` before `lock(pnxgate)` (coh/sig.c:240-259). If its tracer exits while
  it sleeps there, the wakeup of `pt_req` (coh/proc.c:235-236) finds nobody, and the process
  then sleeps on `pt_req` for ever. Without `late` `StoppedNotStranded` is refuted. A parent
  asleep in wait beside such a child is told as soon as the child has `pnxgate`.
- `sleep` tests for a signal before it raises the priority (coh/proc.c:279). A terminal's
  interrupt that signals the process just then finds it still running; it then sleeps
  with the signal pending, in `pause` until something else wakes it. `Proc` has this step.
- `pfork` copies the parent's pending signals over those of the child it makes
  (coh/proc.c:146): one sent to the new id meanwhile is lost.

Terminals
- `alclose` counts `t_open` to 0, then sleeps for the drain. Who opens the line meanwhile
  succeeds, and then loses carrier flag and interrupts (z8001/drv/al.c:324).
- `ttclose` zeroes `t_flags` (drv/tty.c:102) before `alclose` tests `T_HPCL`
  (z8001/drv/al.c:328): `stty hup` never hangs up.
- `ttclose` waits while `cq_cc` is not 0; a line feed owed after a carriage return
  (`T_INL`) or the blanks of a tab (`t_nfill`) are dropped by the close.
- `ttioctl` lifts an X-OFF before a drain that enters raw mode (drv/tty.c:277);
  `TIOCSETN` followed by a close does not, and the close waits until a signal.
- `ttwrite` that finds the carrier gone returns without `ttstart`: a character queued
  just after the hangup's flush stays there, and the close waits for it.
- Of two openers that wait for a carrier, the second is not woken any more once
  the first has opened the line (z8001/drv/al.c:460).
- An escaped end of line is put into the input queue without the test of `IHILIM`
  (drv/tty.c:409), and `ttflush` forgets `T_TSTOP` without sending a start character.

File system
- A sync that comes while `balloc` reads the next chain block writes an empty free list
  and marks the disk clean (coh/fs2.c:192-215); a crash right then leaves a disk that
  claims to be consistent and is not. Without `~raced` `CleanWhenSerial` is refuted.
- `ifree` (coh/fs2.c:389) and `uunique` (coh/sys3.c:296) call `smod` before their change
  and may sleep in it; a sync in between clears `s_fmod`, and the change waits for the
  next one. `ulink`, `uunlink` and `uchmod` do not call `smod` at all.
- `bfree` writes a chain block before `smod` has put the dirty mark on the disk.
- `isync` writes inodes without their gate, and clears their flags after its sleep
  (coh/fs1.c:594): a change made meanwhile, or one that `iwrite` announced before it slept
  (coh/fs3.c:111), is not written. Without `~overtaken` `NamesRight` is refuted.
- `imake` ignores the failure of `idirent` (coh/fs1.c:275-279). On a full disk, or with a
  directory that cannot grow for another reason, creat fails and leaves an inode with one
  link and no name, which nothing but `check` gives back. Without `unnamed` `NamesRight` is refuted.
- `iremap` skips structures without a reference (coh/fs1.c:520), and `iattach` takes them
  as they are. After `check` has cleared an inode under a root mounted read only and mount -w,
  the old inode may be in core and be written over the repair: two files may again have one
  block. The mutant `fsremountStale` shows what comes of it.
- `ulink` increments `i_nlink` after it has released the directory (coh/sys2.c:316-323).

Disk driver
- `disksort` has no rule against starvation: new requests may go before an old one for ever.
- The comment at z8001/drv/wd.c:306 says that `ioreq` credits `b_count - b_resid`; it
  credits `io_ioc - b_resid` (coh/bio.c:480), which is what the clipping needs.

Segments
- `swap`'s first loop does not test `PFSWIO` (ker/swap.c:50-60), and a child is `PSRUN` from
  the moment `process` has made it (coh/proc.c:51): the swapper may choose it while `segadup`
  sleeps. If the fork then fails, `sfree` finds the swapper's count. If it goes on,
  `procdisk` has set `PFSWAP` and taken the child's counts away (ker/swap.c:223-234), the
  segment that `segadup` adds afterwards comes with an `s_lrefc` of 1, `proccore` counts it
  again (ker/swap.c:193-200), and the last `sfree` finds it above zero. Both end in
  panic("Bad segment count") (coh/seg.c:229-230). `NoPanic` states that this cannot happen; it
  is in no run, and is refuted with `NSEG = 7` in MCSeg.cfg (37 states).
- When the parent and the child's user area do not fit into memory together, the swapper
  may bring in the one by putting out the other, for ever.
- `sfree` may sleep in `ldetach` with `s_urefc` 0 and the segment still in its queue, where
  `ssalloc` may find it; two execs of one file may make two copies of its text.
- `testcore`'s last gap is computed from the head of the queue and wraps, so that it never
  refuses; `PFAUXM` is set by nobody, and `auxmdisk` is never called.

## Plan

Done: all modules of the table; proofs about `Gate`, `Proc`, `Pipe`, `Bio`, `Tty`, `Wd`,
`Icache`, `Filsys`.

Theorems next: `SegmentsApart` of `Seg`, whose compaction (`FoldLeft` over the queue) needs
an induction, and `UsersCounted`, which needs exact counts.

Modules that could follow: `Clist` (linked blocks of characters, shown to implement
`Fifo`), the kernel arena, exec with the sharing of text by inode.

## Not modelled

User programs (but for what `check` and `icheck` write), libraries, the graphics system, boot ROM and build tools; assembler
(context switch, traps, memory management), which the models take as atomic; the
character drivers that repeat al; the debugger; `printf`. Of the modelled parts: indirect blocks and file offsets, mounted
directories, exec and shared text by inode, signal numbers and masks, line editing, the
priorities of scheduler and swapper, medium errors below the file system. `PROJECT.json`
has the list by component. The kernel is a small part of the repository by lines: most of
it are user programs that run alone and share no state with each other but files.
