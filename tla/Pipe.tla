-------------------------------- MODULE Pipe --------------------------------
(***************************************************************************)
(* Pipes of the Coherent kernel (kernel/coh/pipe.c), with the parts of     *)
(* open, creat, close and unlink that concern them.                        *)
(*                                                                         *)
(* A pipe is an inode whose direct blocks are a ring of PIPSIZE bytes.     *)
(* Every operation runs with the inode's gate locked, and gives it up only *)
(* to sleep; the kernel is not preemptive, so iunlock and sleep are one    *)
(* step.  sleep may end in a signal, which leaves the system call from     *)
(* there (envrest) without another look at the pipe.                       *)
(*                                                                         *)
(* A pipe made by pipe(2) has no name (named is FALSE): its two            *)
(* descriptors are shared by the processes that inherited them.  A named   *)
(* pipe is opened by each process for itself, and creat of one that exists *)
(* opens it for writing and throws its bytes away.                         *)
(***************************************************************************)
EXTENDS Naturals, Sequences, FiniteSets

CONSTANTS
  Readers, Writers,  \* the processes at either end
  PIPSIZE,           \* bytes in the ring
  BSIZE,             \* bytes in a block of it
  Values,            \* what a byte may be
  MaxCount,          \* bound: the largest count of a read or write
  Free               \* the owner of an open gate

Procs == Readers \union Writers

ASSUME PipeAssumption ==
  /\ IsFiniteSet(Procs)
  /\ Readers # {} /\ Writers # {}
  /\ Readers \intersect Writers = {}
  /\ Values # {}
  /\ Free \notin Procs
  /\ PIPSIZE \in Nat \ {0}
  /\ BSIZE \in Nat \ {0}
  /\ MaxCount \in Nat

VARIABLES
  ring,    \* the contents of the pipe's blocks
  pnc,     \* i_pnc: bytes in the ring
  prx,     \* i_prx: where the next byte is read
  pwx,     \* i_pwx: where the next byte is written
  size,    \* i_size: how far fread will read
  iflag,   \* i_flag: IFWFR, IFWFW and IFEOF
  refc,    \* i_refc: the open descriptors
  nlink,   \* i_nlink
  gate,    \* the owner of i_gate
  fd,      \* the processes that have a descriptor of the pipe
  pc,      \* where each process is
  ioc,     \* what is left of its count
  asleep,  \* the processes on the queue of &i_prx or &i_pwx
  out,     \* the bytes the last fread delivered
  named,   \* whether it is a named pipe, which does not change
  passed   \* history: the writers asleep since before a creat emptied the ring

vars == <<ring, pnc, prx, pwx, size, iflag, refc, nlink, gate, fd, pc, ioc,
          asleep, out, named, passed>>
ringvars == <<ring, pnc, prx, pwx, size, out>>
inodevars == <<refc, nlink, fd>>

Locs == {"user", "pread", "rsleep", "take", "eof", "pwrite", "wsleep"}

TypeOK ==
  /\ ring \in [0 .. PIPSIZE - 1 -> Values]
  /\ pnc \in 0 .. PIPSIZE
  /\ prx \in 0 .. PIPSIZE - 1
  /\ pwx \in 0 .. PIPSIZE - 1
  /\ size \in 0 .. PIPSIZE
  /\ iflag \in SUBSET {"IFWFR", "IFWFW", "IFEOF"}
  /\ refc \in 0 .. Cardinality(Procs)
  /\ nlink \in {0, 1}
  /\ gate \in Procs \union {Free}
  /\ fd \in SUBSET Procs
  /\ pc \in [Procs -> Locs]
  /\ ioc \in [Procs -> 0 .. MaxCount]
  /\ asleep \in SUBSET Procs
  /\ out \in Seq(Values) /\ Len(out) <= PIPSIZE
  /\ named \in BOOLEAN
  /\ passed \in SUBSET asleep

\* The blocks of a pipe that has none of its own.
Blank == [i \in 0 .. PIPSIZE - 1 |-> CHOOSE v \in Values : TRUE]

(***************************************************************************)
(* pipe(2) has made the pipe and its processes have been forked, or the    *)
(* named pipe exists and nobody has opened it.                             *)
(***************************************************************************)
Init ==
  /\ named \in BOOLEAN
  /\ ring = Blank
  /\ pnc = 0 /\ prx = 0 /\ pwx = 0 /\ size = 0
  /\ iflag = {}
  /\ refc = IF named THEN 0 ELSE 2
  /\ nlink = IF named THEN 1 ELSE 0
  /\ gate = Free
  /\ fd = IF named THEN {} ELSE Procs
  /\ pc = [p \in Procs |-> "user"]
  /\ ioc = [p \in Procs |-> 0]
  /\ asleep = {} /\ passed = {}
  /\ out = <<>>

-----------------------------------------------------------------------------
OnPrx == {p \in asleep : pc[p] = "rsleep"}
OnPwx == {p \in asleep : pc[p] = "wsleep"}

Goto(p, l) == pc' = [pc EXCEPT ![p] = l]

\* iunlock and the end of the system call.
Return(p) ==
  /\ gate' = Free
  /\ Goto(p, "user")
  /\ ioc' = [ioc EXCEPT ![p] = 0]

\* iunlock and sleep at l, having left the flag f for whoever wakes us.
Sleep(p, l, f) ==
  /\ iflag' = iflag \union {f}
  /\ gate' = Free
  /\ asleep' = asleep \union {p}
  /\ Goto(p, l)
  /\ UNCHANGED <<ringvars, inodevars, ioc>>

\* The last descriptor but one goes: wake both sides.  g is i_flag on entry.
pevent(g) ==
  /\ iflag' = g \ {"IFWFR", "IFWFW"}
  /\ asleep' = asleep \ ((IF "IFWFR" \in iflag THEN OnPwx ELSE {})
                           \union (IF "IFWFW" \in iflag THEN OnPrx ELSE {}))

-----------------------------------------------------------------------------
(* open, close, unlink.                                                    *)

\* i_flag as open finds it: an inode nobody had open may have left the cache,
\* and icopydm clears the flags of one it reads back.
Attached == IF refc = 0 THEN {iflag, {}} ELSE {iflag}

\* Mutant: an opener takes back the end of file and wakes nobody.
popenQuiet == \E g \in Attached : iflag' = g \ {"IFEOF"} /\ UNCHANGED asleep

\* A new opener takes back the end of file.
popen ==
  \E g \in Attached :
    \/ /\ "IFEOF" \in g
       /\ iflag' = g \ {"IFEOF", "IFWFR"}
       /\ asleep' = IF "IFWFR" \in g THEN asleep \ OnPwx ELSE asleep
    \/ "IFEOF" \notin g /\ iflag' = g /\ UNCHANGED asleep

\* A descriptor for a named pipe that ftoi has found.
fdopen(p) ==
  /\ named /\ nlink = 1
  /\ gate = Free /\ p \notin fd
  /\ refc' = refc + 1
  /\ fd' = fd \union {p}
  /\ popen
  /\ UNCHANGED <<nlink, gate, pc, ioc>>

uopen(p) == fdopen(p) /\ UNCHANGED ringvars

\* The case of a pipe: the counters are cleared and the blocks given back.
iclear ==
  /\ pnc' = 0 /\ prx' = 0 /\ pwx' = 0 /\ size' = 0
  /\ ring' = Blank

\* creat of a pipe that exists.  Nobody behind IFWFR is told of the room.
ucreat(p) ==
  /\ fdopen(p)
  /\ iclear
  /\ UNCHANGED out

\* The processes that share p's descriptor, p too.
Sharers(p) ==
  IF named THEN {p} ELSE fd \intersect (IF p \in Readers THEN Readers ELSE Writers)

\* close or exit: the last holder of a descriptor calls iclose.
pclose(p) ==
  /\ p \in fd /\ pc[p] = "user"
  /\ fd' = fd \ {p}
  /\ \/ Sharers(p) # {p} /\ UNCHANGED <<refc, iflag, asleep>>
     \/ /\ Sharers(p) = {p}
        /\ gate = Free
        /\ refc' = refc - 1
        /\ \/ refc = 2 /\ pevent(iflag \union {"IFEOF"})
           \/ refc # 2 /\ UNCHANGED <<iflag, asleep>>
  /\ UNCHANGED <<ringvars, nlink, gate, pc, ioc>>

\* unlink holds a reference of its own while it looks at i_refc.
uunlink ==
  /\ nlink = 1 /\ gate = Free
  /\ nlink' = 0
  /\ \/ refc + 1 = 2 /\ pevent(iflag)
     \/ refc + 1 # 2 /\ UNCHANGED <<iflag, asleep>>
  /\ UNCHANGED <<ringvars, refc, fd, gate, pc, ioc>>

-----------------------------------------------------------------------------
(* read.                                                                   *)

Call(p, l, c) ==
  /\ p \in fd /\ pc[p] = "user" /\ gate = Free
  /\ gate' = p
  /\ ioc' = [ioc EXCEPT ![p] = c]
  /\ Goto(p, l)
  /\ UNCHANGED <<ringvars, inodevars, iflag, asleep>>

\* sleep returns, and ilock.
Woken(p, from, to) ==
  /\ pc[p] = from /\ p \notin asleep /\ gate = Free
  /\ gate' = p
  /\ Goto(p, to)
  /\ UNCHANGED <<ringvars, inodevars, iflag, ioc, asleep>>

\* A signal ends the sleep, and the system call with it, even if a wakeup
\* came first.
Signal(p) ==
  /\ pc[p] \in {"rsleep", "wsleep"}
  /\ asleep' = asleep \ {p}
  /\ Goto(p, "user")
  /\ ioc' = [ioc EXCEPT ![p] = 0]
  /\ UNCHANGED <<ringvars, inodevars, iflag, gate>>

OneEndLeft == nlink = 0 /\ refc < 2

\* Mutant: the loop is a test, made once.
preadOnce(p) ==
  /\ pc[p] = "pread"
  /\ iflag' = iflag \ {"IFEOF"}
  /\ Goto(p, IF pnc > 0 THEN "take" ELSE "eof")
  /\ UNCHANGED <<ringvars, inodevars, gate, ioc, asleep>>

\* The first loop of pread.
pread(p) ==
  /\ pc[p] = "pread"
  /\ \/ /\ pnc > 0
        /\ Goto(p, "take")
        /\ UNCHANGED <<ringvars, inodevars, iflag, gate, ioc, asleep>>
     \/ /\ pnc = 0 /\ ("IFEOF" \in iflag \/ OneEndLeft)
        /\ iflag' = iflag \ {"IFEOF"}
        /\ Goto(p, "eof")
        /\ UNCHANGED <<ringvars, inodevars, gate, ioc, asleep>>
     \/ /\ pnc = 0 /\ "IFEOF" \notin iflag /\ ~ OneEndLeft
        /\ Sleep(p, "rsleep", "IFWFW")

Least(a, b) == IF a < b THEN a ELSE b

\* What fread is asked for in one round of the second loop, and how much of
\* it lies below i_size.
Wanted(p) == Least(Least(PIPSIZE - prx, ioc[p]), pnc)
Readable(p) == IF size <= prx THEN 0 ELSE Least(Wanted(p), size - prx)

\* Mutant: a fault in the copy is not allowed for, the bytes asked for count.
takeAll(p) ==
  /\ pc[p] = "take"
  /\ ioc[p] > 0 /\ pnc > 0
  /\ \E m \in 0 .. Readable(p) :
       /\ out' = [i \in 1 .. m |-> ring[prx + i - 1]]
       /\ prx' = IF prx + Wanted(p) = PIPSIZE THEN 0 ELSE prx + Wanted(p)
       /\ pnc' = pnc - Wanted(p)
       /\ ioc' = [ioc EXCEPT ![p] = IF m < Readable(p) THEN 0 ELSE @ - m]
  /\ UNCHANGED <<ring, pwx, size, inodevars, iflag, gate, pc, asleep>>

\* One round of the second loop: m bytes are moved, fewer than could be only
\* on a fault, which ends the loop.  With nothing below i_size the round moves
\* nothing, is no error, and comes again.
take(p) ==
  /\ pc[p] = "take"
  /\ ioc[p] > 0 /\ pnc > 0
  /\ \E m \in 0 .. Readable(p) :
       /\ out' = [i \in 1 .. m |-> ring[prx + i - 1]]
       /\ prx' = IF prx + m = PIPSIZE THEN 0 ELSE prx + m
       /\ pnc' = pnc - m
       /\ ioc' = [ioc EXCEPT ![p] = IF m < Readable(p) THEN 0 ELSE @ - m]
  /\ UNCHANGED <<ring, pwx, size, inodevars, iflag, gate, pc, asleep>>

\* The end of pread.
preadEnd(p) ==
  /\ pc[p] = "eof" \/ (pc[p] = "take" /\ (ioc[p] = 0 \/ pnc = 0))
  /\ \/ /\ "IFWFR" \in iflag /\ pnc < PIPSIZE
        /\ iflag' = iflag \ {"IFWFR"}
        /\ asleep' = asleep \ OnPwx
     \/ /\ "IFWFR" \notin iflag \/ pnc = PIPSIZE
        /\ UNCHANGED <<iflag, asleep>>
  /\ Return(p)
  /\ UNCHANGED <<ringvars, inodevars>>

-----------------------------------------------------------------------------
(* write.                                                                  *)

Room(p) == Least(Least(PIPSIZE - pwx, ioc[p]), PIPSIZE - pnc)

\* i_size after fwrite has moved m bytes of n: it follows the last block that
\* was filled or finished, and a fault returns before it is moved for its own.
Written(m, n) ==
  LET end == IF m = n THEN pwx + m ELSE ((pwx + m) \div BSIZE) * BSIZE
  IN  IF size < end THEN end ELSE size

\* Nobody is left to read: EPIPE and SIGPIPE; or everything is written.
pwriteEnd(p) ==
  /\ pc[p] = "pwrite"
  /\ ioc[p] = 0 \/ OneEndLeft
  /\ Return(p)
  /\ UNCHANGED <<ringvars, inodevars, iflag, asleep>>

pwriteSleep(p) ==
  /\ pc[p] = "pwrite"
  /\ ioc[p] > 0 /\ ~ OneEndLeft
  /\ Room(p) = 0 \/ "IFEOF" \in iflag
  /\ Sleep(p, "wsleep", "IFWFR")

\* Mutant: a fault in the copy leaves the loop before the count is kept.
putShort(p) ==
  /\ pc[p] = "pwrite"
  /\ ioc[p] > 0 /\ ~ OneEndLeft
  /\ Room(p) # 0 /\ "IFEOF" \notin iflag
  /\ \E m \in 0 .. Room(p) : \E s \in [1 .. m -> Values] :
       /\ ring' = [i \in 0 .. PIPSIZE - 1 |->
            IF i \in pwx .. pwx + m - 1 THEN s[i - pwx + 1] ELSE ring[i]]
       /\ pwx' = IF pwx + m = PIPSIZE THEN 0 ELSE pwx + m
       /\ pnc' = IF m < Room(p) THEN pnc ELSE pnc + m
       /\ size' = Written(m, Room(p))
       /\ ioc' = [ioc EXCEPT ![p] = IF m < Room(p) THEN 0 ELSE @ - m]
       /\ \/ /\ "IFWFW" \in iflag /\ pnc' > 0
             /\ iflag' = iflag \ {"IFWFW"}
             /\ asleep' = asleep \ OnPrx
          \/ /\ "IFWFW" \notin iflag \/ pnc' = 0
             /\ UNCHANGED <<iflag, asleep>>
  /\ UNCHANGED <<prx, out, inodevars, gate, pc>>

\* One round of pwrite: m of n bytes are moved, fewer on a fault.
put(p) ==
  /\ pc[p] = "pwrite"
  /\ ioc[p] > 0 /\ ~ OneEndLeft
  /\ Room(p) # 0 /\ "IFEOF" \notin iflag
  /\ \E m \in 0 .. Room(p) : \E s \in [1 .. m -> Values] :
       /\ ring' = [i \in 0 .. PIPSIZE - 1 |->
            IF i \in pwx .. pwx + m - 1 THEN s[i - pwx + 1] ELSE ring[i]]
       /\ pwx' = IF pwx + m = PIPSIZE THEN 0 ELSE pwx + m
       /\ pnc' = pnc + m
       /\ size' = Written(m, Room(p))
       /\ ioc' = [ioc EXCEPT ![p] = IF m < Room(p) THEN 0 ELSE @ - m]
       /\ \/ /\ "IFWFW" \in iflag /\ pnc + m > 0
             /\ iflag' = iflag \ {"IFWFW"}
             /\ asleep' = asleep \ OnPrx
          \/ /\ "IFWFW" \notin iflag \/ pnc + m = 0
             /\ UNCHANGED <<iflag, asleep>>
  /\ UNCHANGED <<prx, out, inodevars, gate, pc>>

-----------------------------------------------------------------------------
\* The steps of a system call with the gate.
Step(p) ==
  \/ pread(p) \/ take(p) \/ preadEnd(p)
  \/ pwriteEnd(p) \/ pwriteSleep(p) \/ put(p)

\* The steps that must wait for it.
Resume(p) == Woken(p, "rsleep", "pread") \/ Woken(p, "wsleep", "pwrite")

Others ==
  \/ \E p \in Procs :
       Step(p) \/ Resume(p) \/ Signal(p) \/ uopen(p) \/ pclose(p)
  \/ \E c \in 1 .. MaxCount :
       \/ \E p \in Readers : Call(p, "pread", c)
       \/ \E p \in Writers : Call(p, "pwrite", c)
  \/ uunlink

Next ==
  /\ \/ Others /\ passed' = passed \intersect asleep'
     \/ \E p \in Writers : ucreat(p) /\ passed' = OnPwx'
  /\ UNCHANGED named

Spec == Init /\ [][Next]_vars

-----------------------------------------------------------------------------
(***************************************************************************)
(* The three counters of the ring agree, across wraps and short copies.    *)
(***************************************************************************)
RingOK == TypeOK /\ pwx = (prx + pnc) % PIPSIZE

(***************************************************************************)
(* A reader sleeps only while there is nothing to read and somebody may    *)
(* still write or open the pipe, and with IFWFW set for the writer to see; *)
(* a writer only with IFWFR set for the reader or opener to see and while  *)
(* a reader may still come, and only while the pipe is full or its readers *)
(* are gone for now, unless a creat has emptied the pipe over its head.    *)
(***************************************************************************)
SleepsRightly ==
  /\ OnPrx # {} =>
       "IFWFW" \in iflag /\ pnc = 0 /\ "IFEOF" \notin iflag /\ ~ OneEndLeft
  /\ OnPwx # {} /\ gate = Free => "IFWFR" \in iflag /\ ~ OneEndLeft
  /\ OnPwx \ passed # {} /\ gate = Free => pnc = PIPSIZE \/ "IFEOF" \in iflag

(***************************************************************************)
(* read reports the end of an unnamed pipe only when nothing is left in it *)
(* and no process can write to it any more.                                *)
(***************************************************************************)
EofMeansClosed ==
  \A p \in Readers : pc[p] = "eof" /\ ~ named =>
    pnc = 0 /\ fd \intersect Writers = {}

-----------------------------------------------------------------------------
(* The ring, read off from prx, is a queue.                                *)

F == INSTANCE Fifo WITH
       Size <- PIPSIZE,
       Users <- Procs,
       users <- fd,
       q <- [i \in 1 .. pnc |-> ring[(prx + i - 1) % PIPSIZE]]

(***************************************************************************)
(* A pipe implements a bounded queue of bytes: nothing is lost, repeated   *)
(* or reordered by wrapping, short copies, signals, opens or closes, and   *)
(* only an open by creat throws bytes away, all of them.                   *)
(***************************************************************************)
ImplementsFifo == F!Spec

=============================================================================
