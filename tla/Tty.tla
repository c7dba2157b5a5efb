-------------------------------- MODULE Tty ---------------------------------
(***************************************************************************)
(* A terminal line of the Coherent kernel: the device independent part     *)
(* (kernel/drv/tty.c), the serial line driver under it                     *)
(* (kernel/z8001/drv/al.c) and the part of character lists they meet       *)
(* (waitq and the failures of putq, kernel/coh/clist.c).                   *)
(*                                                                         *)
(* What is done at high priority is one step.  The kernel is not           *)
(* preemptive, so between its steps at low priority (self) a process is    *)
(* only interrupted: by the chip, and by what it has to say about the line.*)
(*                                                                         *)
(* Characters are abstracted to what they do: on the way out an ordinary   *)
(* one ("x", which may be a newline or a tab that is sent as more than one *)
(* character) or one for the flow of the input ("start", "stop"); on the   *)
(* way in the input queue is their number.  Editing within a line, which   *)
(* concerns only t_ib, is left out.                                        *)
(***************************************************************************)
EXTENDS Naturals, Sequences, FiniteSets

CONSTANTS
  Procs,
  None,
  OHILIM, OLOLIM,          \* marks of the output queue
  IHILIM, ITSLIM, ILOLIM,  \* marks of the input queue
  NCIB,       \* characters in a line of input
  MaxOut,     \* bound: characters in the output queue before one is echoed
  Setups      \* the ways the line is set up and used

(***************************************************************************)
(* A setup is what stays fixed of the line and of its use: sg_flags but    *)
(* for the mode, what may follow "x" when it is sent ("inl", T_INL, and    *)
(* "fill", t_nfill), whether it is opened with modem control and again     *)
(* after its close, the ioctl calls made and the modes set, whether other  *)
(* lines may use up the character lists, and bounds: the characters of a   *)
(* write, of the input queue, and of the echo of an erase or a kill.       *)
(***************************************************************************)
SetupType ==
  [ISECHO : BOOLEAN, ISTAND : BOOLEAN, Expands : SUBSET {"inl", "fill"},
   Modem : BOOLEAN, Reopen : BOOLEAN, RunOut : BOOLEAN,
   Ioctls : SUBSET {"SETP", "SETN", "SETC", "FLUSH", "HPCL"},
   Modes : SUBSET {"cooked", "cbreak", "raw"},
   MaxWrite : Nat \ {0}, MaxIn : Nat, MaxEdit : Nat]

ASSUME TtyAssumption ==
  /\ IsFiniteSet(Procs) /\ None \notin Procs
  /\ {OHILIM, OLOLIM, IHILIM, ITSLIM, ILOLIM, NCIB, MaxOut} \subseteq Nat
  /\ OLOLIM < OHILIM /\ ILOLIM < ITSLIM /\ ITSLIM <= IHILIM
  /\ OHILIM <= MaxOut
  /\ Setups \subseteq SetupType

VARIABLES
  setup,   \* how the line is set up: one of Setups
  line,    \* the TTY structure and the chip's transmitter
  mode,    \* sg_flags: RAWIN, CBREAK or neither
  topen,   \* t_open
  ie,      \* WR1: no interrupts, those of the modem lines, or all
  dcd,     \* RR0: whether there is a carrier
  pc, cnt, \* each process: where it is, and what it has left to write
  asleep,
  sig,     \* the processes with a signal pending
  self     \* the process at low priority, if it may go on at once

vars == <<setup, line, mode, topen, ie, dcd, pc, cnt, asleep, sig, self>>
hardware == <<ie, dcd>>

ISECHO == setup.ISECHO
ISTAND == setup.ISTAND
Expands == setup.Expands
Modem == setup.Modem
Reopen == setup.Reopen
RunOut == setup.RunOut
Ioctls == setup.Ioctls
Modes == setup.Modes
MaxWrite == setup.MaxWrite
MaxIn == setup.MaxIn
MaxEdit == setup.MaxEdit

Flags == {"T_HILIM", "T_DRAIN", "T_INPUT", "T_STOP", "T_HPCL", "T_TSTOP",
          "T_ISTOP", "T_MODC", "T_CARR"}

\* Mutant: the stops of the input survive a flush.
T_SAVEStops == {"T_HPCL", "T_MODC", "T_CARR", "T_TSTOP", "T_ISTOP"}

T_SAVE == {"T_HPCL", "T_MODC", "T_CARR"}

Locs == {"closed", "opening", "user", "rnext", "rd", "rclist", "wnext", "wput",
         "whigh", "wclist", "drain", "drainflush", "cdrain"}

(***************************************************************************)
(* A line: t_flags, the two queues, what ttout has still to send of its    *)
(* last character, TxEMPTY, the transmit interrupt that is due, whether    *)
(* the other end was told to stop sending (or ttflush threw away what it   *)
(* was to be told), whether cltfree is 0, and (during a step) the channels *)
(* that wakeup was called for.                                             *)
(***************************************************************************)
LineType ==
  [flags : SUBSET Flags, oq : Seq({"x", "start", "stop"}), iq : 0 .. MaxIn,
   more : {"no", "inl", "fill"}, txe : BOOLEAN, tip : BOOLEAN,
   held : {"no", "yes", "lost"}, short : BOOLEAN, wake : {{}}]

TypeOK ==
  /\ setup \in Setups
  /\ line \in LineType
  /\ Len(line.oq) <= MaxOut + MaxEdit + Cardinality(Procs) + 2
  /\ mode \in {"cooked", "cbreak", "raw"}
  /\ topen \in 0 .. Cardinality(Procs)
  /\ ie \in {"none", "modem", "all"}
  /\ dcd \in BOOLEAN
  /\ pc \in [Procs -> Locs]
  /\ cnt \in [Procs -> 0 .. MaxWrite]
  /\ asleep \subseteq Procs /\ sig \subseteq Procs
  /\ self \in Procs \union {None}

\* Every process has the line open; it was opened once, before they forked.
Init ==
  /\ setup \in Setups
  /\ line = [flags |-> IF Modem THEN {"T_CARR", "T_MODC"} ELSE {"T_CARR"},
             oq |-> <<>>, iq |-> 0, more |-> "no", txe |-> TRUE, tip |-> FALSE,
             held |-> "no", short |-> FALSE, wake |-> {}]
  /\ mode = "cooked"
  /\ topen = Cardinality(Procs)
  /\ ie = "all" /\ dcd = TRUE
  /\ pc = [p \in Procs |-> "user"]
  /\ cnt = [p \in Procs |-> 0]
  /\ asleep = {} /\ sig = {} /\ self = None

-----------------------------------------------------------------------------
(* What the routines do to a line; each gives the possible outcomes.       *)

Set(L, f) == [L EXCEPT !.flags = @ \union {f}]
Clear(L, f) == [L EXCEPT !.flags = @ \ {f}]
Wake(L, c) == [L EXCEPT !.wake = @ \union {c}]

\* Characters leave a queue: a character list may be freed.
Freed(L) == {L} \union (IF L.short THEN {Wake([L EXCEPT !.short = FALSE], "clt")}
                                   ELSE {})

\* putq: it fails if it needs a character list and there is none.
putq(L, c) ==
  {[L EXCEPT !.oq = Append(@, c)]} \union (IF L.short THEN {L} ELSE {})

\* The chip is given a character.
Send(L) == [L EXCEPT !.txe = FALSE, !.tip = FALSE]

\* ttout: the rest of the last character, or the next one.
ttout(L) ==
  IF L.more # "no" THEN {Send([L EXCEPT !.more = "no"])}
  ELSE IF L.oq = <<>> THEN {L}
  ELSE LET c == Head(L.oq)
           M == Send([L EXCEPT !.oq = Tail(@),
                               !.held = CASE c = "x" -> @
                                          [] c = "stop" -> "yes"
                                          [] c = "start" -> "no"])
       IN  UNION {Freed([M EXCEPT !.more = m]) :
                    m \in {"no"} \union (IF c = "x" THEN Expands ELSE {})}

\* One character at most: the transmitter is no longer empty after it.
alstart(L) == IF L.txe THEN ttout(L) ELSE {L}

Unblock(L) == Wake(Clear(L, "T_HILIM"), "oq")

\* Mutant: nobody is told that the output has drained.
ttstartNoDrain(L) ==
  IF "T_STOP" \in L.flags THEN {L}
  ELSE {IF "T_HILIM" \in L.flags /\ Len(M.oq) <= OLOLIM THEN Unblock(M) ELSE M :
          M \in alstart(L)}

ttstart(L) ==
  IF "T_STOP" \in L.flags THEN {L}
  ELSE IF "T_DRAIN" \in L.flags /\ L.oq = <<>> /\ L.more = "no"
       THEN {Wake(Clear(L, "T_DRAIN"), "oq")}
  ELSE {IF "T_HILIM" \in L.flags /\ Len(M.oq) <= OLOLIM THEN Unblock(M) ELSE M :
          M \in alstart(L)}

\* putq and ttstart, without a look at whether putq failed.
Echo(L, c) == UNION {ttstart(M) : M \in putq(L, c)}

\* The other end is stopped, or is about to be told something.
Told(L) ==
  \/ L.held = "yes" \/ "T_TSTOP" \in L.flags
  \/ \E i \in 1 .. Len(L.oq) : L.oq[i] # "x"

ttflush(L) ==
  Freed([L EXCEPT !.iq = 0, !.oq = <<>>,
                  !.more = IF @ = "inl" THEN "no" ELSE @,
                  !.held = IF Told(L) THEN "lost" ELSE @,
                  !.flags = @ \intersect T_SAVE,
                  !.wake = @ \union {"iq", "oq"}])

-----------------------------------------------------------------------------
(* Steps of processes.                                                     *)

Channel(p) ==
  CASE pc[p] = "rd" -> "iq"
    [] pc[p] \in {"whigh", "drain", "drainflush", "cdrain"} -> "oq"
    [] pc[p] \in {"rclist", "wclist"} -> "clt"
    [] OTHER -> "open"

\* The line becomes L: who waited for it is woken.  S fall asleep.
Becomes(L, S) ==
  /\ line' = [L EXCEPT !.wake = {}]
  /\ asleep' = {q \in asleep : Channel(q) \notin L.wake} \union S

Goto(p, l) == pc' = [pc EXCEPT ![p] = l]

\* p is at one of the places ls and has the processor.
At(p, ls) == pc[p] \in ls /\ p \notin asleep /\ self \in {None, p}

\* p sleeps at l; it goes on at l, at low priority; its call returns to l.
Sleeps(p, l, L) ==
  Becomes(L, {p}) /\ Goto(p, l) /\ self' = None /\ UNCHANGED <<cnt, sig>>
GoesOn(p, l, L, n) ==
  /\ Becomes(L, {})
  /\ Goto(p, l) /\ self' = p
  /\ cnt' = [cnt EXCEPT ![p] = n]
  /\ UNCHANGED sig
Returns(p, l, L) ==
  /\ Becomes(L, {})
  /\ Goto(p, l) /\ self' = None
  /\ cnt' = [cnt EXCEPT ![p] = 0]
  /\ sig' = sig \ {p}

\* A loop of putq, ttstart and waitq: c is in the queue, or p must wait.
Queued(L, c) ==
  {[M EXCEPT !.oq = Append(@, c)] :
     M \in {L} \union (IF L.short THEN {N \in ttstart(L) : ~N.short} ELSE {})}
NoRoom(L) == IF L.short THEN {M \in ttstart(L) : M.short} ELSE {}

\* waitq: woken, but there is still no character list.
waitq(p) ==
  /\ At(p, {"rclist", "wclist"}) /\ line.short
  /\ Sleeps(p, pc[p], line)
  /\ UNCHANGED <<mode, topen, hardware>>

\* sleep, at an interruptible level, of a process with a signal.
Interrupted(p) ==
  /\ At(p, {"rd", "opening"}) /\ p \in sig
  /\ Returns(p, IF pc[p] = "rd" THEN "user" ELSE "closed", line)
  /\ UNCHANGED <<mode, topen, hardware>>

-----------------------------------------------------------------------------
(* ttread.  cnt[p] is 1 once a character was read.                         *)

InRead(p) == At(p, {"user", "rnext"}) \/ (At(p, {"rd"}) /\ p \notin sig)

\* Mutant: the carrier is not looked at.
ttreadWaitAlways(p) ==
  /\ InRead(p) /\ line.iq = 0
  /\ IF (mode # "cooked" /\ cnt[p] = 1) \/ p \in sig
     THEN Returns(p, "user", line)
     ELSE Sleeps(p, "rd", Set(line, "T_INPUT"))
  /\ UNCHANGED <<mode, topen, hardware>>

\* The input queue is empty.
ttreadWait(p) ==
  /\ InRead(p) /\ line.iq = 0
  /\ IF \/ "T_CARR" \notin line.flags
        \/ mode # "cooked" /\ cnt[p] = 1
        \/ p \in sig
     THEN Returns(p, "user", line)
     ELSE Sleeps(p, "rd", Set(line, "T_INPUT"))
  /\ UNCHANGED <<mode, topen, hardware>>

\* Mutant: putq is tried once.
ResumeOnce(p, L) ==
  \E M \in putq(L, "start") : \E N \in ttstart(M) : GoesOn(p, "rnext", N, 1)

\* The other end is told to go on.
Resume(p, L) ==
  \/ \E M \in Queued(L, "start") : \E N \in ttstart(M) : GoesOn(p, "rnext", N, 1)
  \/ \E M \in NoRoom(L) : Sleeps(p, "rclist", M)

\* There is a character; below the low mark the input may come again.
ttreadChar(p) ==
  /\ InRead(p) /\ line.iq > 0
  /\ \E L \in Freed([line EXCEPT !.iq = @ - 1]) :
       IF L.iq > ILOLIM THEN GoesOn(p, "rnext", L, 1)
       ELSE LET M == Clear(Clear(L, "T_ISTOP"), "T_TSTOP")
            IN  IF "T_TSTOP" \in L.flags THEN Resume(p, M)
                                         ELSE GoesOn(p, "rnext", M, 1)
  /\ UNCHANGED <<mode, topen, hardware>>

ttreadGoOn(p) ==
  /\ At(p, {"rclist"}) /\ ~line.short
  /\ Resume(p, line)
  /\ UNCHANGED <<mode, topen, hardware>>

\* The count has run out, or the character ended the line.
ttreadEnd(p) ==
  /\ At(p, {"rnext"})
  /\ Returns(p, "user", line)
  /\ UNCHANGED <<mode, topen, hardware>>

-----------------------------------------------------------------------------
(* ttwrite.                                                                *)

ttwrite(p) ==
  /\ At(p, {"user"})
  /\ \E n \in 1 .. MaxWrite : GoesOn(p, "wnext", line, n)
  /\ UNCHANGED <<mode, topen, hardware>>

\* The next character, at low priority; without a carrier EIO.
ttwriteNext(p) ==
  /\ At(p, {"wnext"})
  /\ CASE cnt[p] = 0 -> \E L \in ttstart(line) : Returns(p, "user", L)
       [] cnt[p] > 0 /\ "T_CARR" \notin line.flags -> Returns(p, "user", line)
       [] OTHER -> GoesOn(p, "wput", line, cnt[p])
  /\ UNCHANGED <<mode, topen, hardware>>

Enqueue(p, L) ==
  \/ \E M \in Queued(L, "x") : GoesOn(p, "wnext", M, cnt[p] - 1)
  \/ \E M \in NoRoom(L) : Sleeps(p, "wclist", M)

\* At high priority: above the high mark it is waited for the low mark.
ttwritePut(p) ==
  /\ At(p, {"wput"}) \/ (At(p, {"whigh"}) /\ p \notin sig)
  /\ IF Len(line.oq) < OHILIM THEN Enqueue(p, line)
     ELSE \E L \in ttstart(line) :
            IF Len(L.oq) < OHILIM THEN Enqueue(p, L)
                                  ELSE Sleeps(p, "whigh", Set(L, "T_HILIM"))
  /\ UNCHANGED <<mode, topen, hardware>>

ttwriteIntr(p) ==
  /\ At(p, {"whigh"}) /\ p \in sig
  /\ Returns(p, "user", line)
  /\ UNCHANGED <<mode, topen, hardware>>

ttwriteGoOn(p) ==
  /\ At(p, {"wclist"}) /\ ~line.short
  /\ Enqueue(p, line)
  /\ UNCHANGED <<mode, topen, hardware>>

-----------------------------------------------------------------------------
(* ttioctl, alopen and alclose: at high priority but for their sleeps.     *)

\* What follows the wait for the output: ttflush, and the end of alclose.
AfterDrain(p, l, L) ==
  CASE l = "drain" -> Returns(p, "user", L) /\ UNCHANGED hardware
    [] l = "drainflush" ->
         /\ \E M \in ttflush(L) : Returns(p, "user", M)
         /\ UNCHANGED hardware
    [] l = "cdrain" ->
         /\ \E M \in ttflush(L) : Returns(p, "closed", [M EXCEPT !.flags = {}])
         /\ ie' = "none"
         /\ UNCHANGED dcd

\* Test the output queue, and sleep until it is empty.
Drain(p, l, L) ==
  IF L.oq = <<>> THEN AfterDrain(p, l, L)
  ELSE Sleeps(p, l, Set(L, "T_DRAIN")) /\ UNCHANGED hardware

Drained(p) ==
  /\ At(p, {"drain", "drainflush", "cdrain"})
  /\ IF p \in sig THEN AfterDrain(p, pc[p], line) ELSE Drain(p, pc[p], line)
  /\ UNCHANGED <<mode, topen>>

\* Entering RAWIN lifts an X-OFF, before the drain.
Lifted(L, m) ==
  IF m = "raw" /\ "T_STOP" \in L.flags THEN ttstart(Clear(L, "T_STOP")) ELSE {L}

TIOCSETP(p) ==
  /\ At(p, {"user"}) /\ "SETP" \in Ioctls
  /\ \E m \in Modes :
       /\ mode' = m
       /\ \E L \in Lifted(line, m) : Drain(p, "drainflush", L)
  /\ UNCHANGED topen

TIOCSETN(p) ==
  /\ At(p, {"user"}) /\ "SETN" \in Ioctls
  /\ mode' \in Modes
  /\ Returns(p, "user", line)
  /\ UNCHANGED <<topen, hardware>>

TIOCSETC(p) ==
  /\ At(p, {"user"}) /\ "SETC" \in Ioctls
  /\ \E L \in Lifted(line, mode) : Drain(p, "drain", L)
  /\ UNCHANGED <<mode, topen>>

TIOCFLUSH(p) ==
  /\ At(p, {"user"}) /\ "FLUSH" \in Ioctls
  /\ \E L \in ttflush(line) : Returns(p, "user", L)
  /\ UNCHANGED <<mode, topen, hardware>>

TIOCHPCL(p) ==
  /\ At(p, {"user"}) /\ "HPCL" \in Ioctls
  /\ \E L \in {Set(line, "T_HPCL"), Clear(line, "T_HPCL")} : Returns(p, "user", L)
  /\ UNCHANGED <<mode, topen, hardware>>

alclose(p) ==
  /\ At(p, {"user"})
  /\ topen' = topen - 1
  /\ IF topen = 1 THEN Drain(p, "cdrain", line)
                  ELSE Returns(p, "closed", line) /\ UNCHANGED hardware
  /\ UNCHANGED mode

\* The end of alopen, with the line opened for the first time or again.
Opened(p, L) ==
  /\ Returns(p, "user", Set(L, "T_CARR"))
  /\ mode' = "cooked"
  /\ topen' = topen + 1
  /\ ie' = "all"

\* With modem control, wait for the carrier.
alopenFirst(p, L) ==
  IF Modem /\ ~dcd
  THEN /\ Sleeps(p, "opening", L)
       /\ ie' = "modem"
       /\ UNCHANGED <<mode, topen>>
  ELSE Opened(p, L)

alopen(p) ==
  /\ Reopen /\ At(p, {"closed"})
  /\ LET L == IF Modem THEN Set(line, "T_MODC") ELSE line
     IN  IF topen = 0 THEN alopenFirst(p, L)
         ELSE /\ Returns(p, "user", L)
              /\ topen' = topen + 1
              /\ UNCHANGED <<mode, ie>>
  /\ UNCHANGED dcd

alopenWoken(p) ==
  /\ At(p, {"opening"}) /\ p \notin sig
  /\ IF dcd THEN Opened(p, line)
     ELSE Sleeps(p, "opening", line) /\ UNCHANGED <<mode, topen, ie>>
  /\ UNCHANGED dcd

-----------------------------------------------------------------------------
(* Interrupts.                                                             *)

\* The line becomes L and the processes S are sent a signal.
Interrupt(L, S) ==
  /\ line' = [L EXCEPT !.wake = {}]
  /\ asleep' = {q \in asleep : Channel(q) \notin L.wake /\ q \notin S}
  /\ sig' = sig \union S
  /\ UNCHANGED <<mode, topen, pc, cnt, self>>

InKernel == {p \in Procs : pc[p] \notin {"user", "closed"}}

\* ttsignal: nothing if the line has no process group.
ttsignal(L) ==
  \/ Interrupt(L, {})
  \/ \E M \in ttflush(L), S \in SUBSET InKernel : Interrupt(M, S)

\* The transmitter has taken its character.
Shifted ==
  /\ ~line.txe
  /\ Interrupt([line EXCEPT !.txe = TRUE, !.tip = (ie = "all")], {})
  /\ UNCHANGED hardware

alTxintr ==
  /\ line.tip /\ ie = "all"
  /\ \E L \in ttstart([line EXCEPT !.tip = FALSE]) : Interrupt(L, {})
  /\ UNCHANGED hardware

\* alRxintr, for a character that is not dropped unseen.
alRxintr == ie = "all" /\ Len(line.oq) < MaxOut

ttinIntr == alRxintr /\ mode # "raw" /\ ttsignal(line) /\ UNCHANGED hardware

ttinStop ==
  /\ alRxintr /\ mode # "raw"
  /\ Interrupt(Set(line, "T_STOP"), {})
  /\ UNCHANGED hardware

\* Mutant: the output is allowed again, and not started.
ttinStartIdle ==
  /\ alRxintr /\ mode # "raw"
  /\ Interrupt(Clear(line, "T_STOP"), {})
  /\ UNCHANGED hardware

ttinStart ==
  /\ alRxintr /\ mode # "raw"
  /\ \E L \in ttstart(Clear(line, "T_STOP")) : Interrupt(L, {})
  /\ UNCHANGED hardware

Echoed(L) == IF ISECHO THEN Echo(L, "x") ELSE {L}

\* Erase and kill: nothing but their echo, of several characters.
ttinEdit ==
  /\ alRxintr /\ mode = "cooked" /\ "T_ISTOP" \notin line.flags /\ ISECHO
  /\ \E k \in 0 .. MaxEdit :
       \E L \in ttstart([line EXCEPT !.oq = @ \o [i \in 1 .. k |-> "x"]]) :
         Interrupt(L, {})
  /\ UNCHANGED hardware

\* n characters are put into the input queue, and its readers are woken.
Delivered(L, n) ==
  LET M == [L EXCEPT !.iq = @ + n]
  IN  IF "T_INPUT" \in M.flags THEN Wake(Clear(M, "T_INPUT"), "iq") ELSE M

\* What of a character or of a line gets into the queue: putq may fail.
Arrives(lim) ==
  {n \in (IF line.short THEN 0 ELSE 1) .. lim : line.iq + n <= MaxIn}

\* The marks of the input queue.
Limits(L) ==
  IF L.iq >= IHILIM THEN {Set(L, "T_ISTOP")}
  ELSE IF ISTAND /\ "T_TSTOP" \notin L.flags /\ L.iq >= ITSLIM
       THEN Echo(Set(L, "T_TSTOP"), "stop")
  ELSE {L}

\* An ordinary character, one that ends a line, or the end of file
\* (which is not echoed).
ttinChar ==
  /\ alRxintr /\ "T_ISTOP" \notin line.flags
  /\ \E L \in (IF mode = "cooked" THEN {line} ELSE {})
                \union {Delivered(line, n) :
                          n \in Arrives(IF mode = "cooked" THEN NCIB ELSE 1)} :
       \E M \in Echoed(L) \union (IF mode = "raw" THEN {} ELSE {L}) :
         \E N \in Limits(M) : Interrupt(N, {})
  /\ UNCHANGED hardware

\* The end of a line after an escape: ttin returns before the marks.
ttinEscaped ==
  /\ alRxintr /\ mode # "raw" /\ "T_ISTOP" \notin line.flags
  /\ \E n \in Arrives(NCIB) :
       \E L \in Echoed(Delivered(line, n)) : Interrupt(L, {})
  /\ UNCHANGED hardware

\* alESintr: a break, and the carrier.
alESbreak ==
  /\ ie # "none"
  /\ \E L \in ttflush(line), S \in SUBSET InKernel : Interrupt(L, S)
  /\ UNCHANGED hardware

tthup == \E L \in ttflush(Clear(line, "T_CARR")) : ttsignal(L)

alEScarrier ==
  /\ Modem /\ dcd' = ~dcd
  /\ IF ie = "none" \/ "T_MODC" \notin line.flags THEN Interrupt(line, {})
     ELSE IF dcd'
     THEN Interrupt(IF topen = 0 THEN Wake(line, "open") ELSE line, {})
     ELSE IF topen # 0 /\ "T_CARR" \in line.flags
     THEN tthup
     ELSE Interrupt(line, {})
  /\ UNCHANGED ie

\* A signal from elsewhere.
Signal(p) ==
  /\ p \in InKernel
  /\ Interrupt(line, {p})
  /\ UNCHANGED hardware

\* The other lines take the last character list, and give one back.
RunsOut ==
  /\ RunOut /\ ~line.short
  /\ Interrupt([line EXCEPT !.short = TRUE], {})
  /\ UNCHANGED hardware

Recovers ==
  /\ line.short
  /\ Interrupt(Wake([line EXCEPT !.short = FALSE], "clt"), {})
  /\ UNCHANGED hardware

-----------------------------------------------------------------------------
\* What a process does of itself, and what it does to finish its call.
Calls(p) ==
  \/ ttwrite(p)
  \/ TIOCSETP(p) \/ TIOCSETN(p) \/ TIOCSETC(p) \/ TIOCFLUSH(p) \/ TIOCHPCL(p)
  \/ alclose(p) \/ alopen(p)
Runs(p) ==
  \/ waitq(p) \/ Interrupted(p)
  \/ ttreadWait(p) \/ ttreadChar(p) \/ ttreadGoOn(p) \/ ttreadEnd(p)
  \/ ttwriteNext(p) \/ ttwritePut(p) \/ ttwriteIntr(p) \/ ttwriteGoOn(p)
  \/ Drained(p) \/ alopenWoken(p)

Input ==
  \/ ttinIntr \/ ttinStop \/ ttinStart \/ ttinEdit \/ ttinChar \/ ttinEscaped
  \/ alESbreak \/ alEScarrier

Next ==
  /\ \/ \E p \in Procs : Calls(p) \/ Runs(p) \/ Signal(p)
     \/ Shifted \/ alTxintr \/ Input \/ RunsOut \/ Recovers
  /\ UNCHANGED setup

Spec == Init /\ [][Next]_vars

\* The chip ends its transfers and interrupts; a process that was woken runs
\* (what it waits for grows in p_cval), and it finishes what it has begun.
Fairness ==
  /\ WF_vars(Shifted /\ UNCHANGED setup)
  /\ WF_vars(alTxintr /\ UNCHANGED setup)
  /\ \A p \in Procs : WF_vars(pc[p] # "user" /\ Runs(p) /\ UNCHANGED setup)

LiveSpec == Spec /\ Fairness

-----------------------------------------------------------------------------
(* Nobody sleeps through what it waits for, although readers, writers,     *)
(* drains and flushes share two events and four flags.  A reader sleeps    *)
(* only while there is nothing to read, there is a carrier, and the next   *)
(* character will wake it (ttread, ttin and ttstash, tthup); a writer only *)
(* while the output is above the low mark, where ttstart will wake it      *)
(* (ttwrite, ttstart).                                                     *)
SleepsRightly ==
  /\ TypeOK
  /\ \A p \in asleep :
       /\ pc[p] = "rd" =>
            "T_INPUT" \in line.flags /\ line.iq = 0 /\ "T_CARR" \in line.flags
       /\ pc[p] = "whigh" => "T_HILIM" \in line.flags /\ Len(line.oq) > OLOLIM

Draining == {p \in asleep : pc[p] \in {"drain", "drainflush", "cdrain"}}

(* Who waits for the output to drain has left T_DRAIN, and the output is   *)
(* moving or was stopped by the other end: a character is at the chip, its *)
(* interrupt is due, or a process that put one there has yet to call       *)
(* ttstart (ttioctl, ttclose, ttstart).                                    *)
DrainSleepsRightly ==
  Draining # {} =>
    /\ "T_DRAIN" \in line.flags
    /\ ~line.txe \/ line.tip \/ "T_STOP" \in line.flags \/ self # None

(* Input is refused (T_ISTOP), or the other end was stopped (T_TSTOP), only*)
(* while the queue is above the low mark: the read that takes it below     *)
(* will lift both (ttin, ttread, ttflush).                                 *)
StopMeansFull ==
  {"T_ISTOP", "T_TSTOP"} \intersect line.flags # {} => line.iq > ILOLIM

\* The other end is stopped, or will be, when the queue of L has gone out.
WillBeHeld(L) ==
  \/ L.held = "yes" /\ \A i \in 1 .. Len(L.oq) : L.oq[i] = "x"
  \/ \E i \in 1 .. Len(L.oq) :
       L.oq[i] = "stop" /\ \A j \in i + 1 .. Len(L.oq) : L.oq[j] = "x"

(* An end that was stopped is not forgotten: T_TSTOP is there until a      *)
(* startc is in the output queue, whatever putq says of it (ttin, ttread). *)
(* Only ttflush loses the one or the other.                                *)
TandemRemembered ==
  WillBeHeld(line) =>
    "T_TSTOP" \in line.flags \/ \E p \in Procs : pc[p] = "rclist"

Alone(p) == \A q \in Procs \ {p} : pc[q] \in {"user", "closed"}

(* A write, and a wait for the drain, returns: unless others go on writing,*)
(* or the other end stops the output and never starts it (ttwrite,         *)
(* ttioctl, ttclose with ttstart and alTxintr).                            *)
OutputReturns ==
  \A p \in Procs :
    <>[]Alone(p) /\ []<>("T_STOP" \notin line.flags)
      => (pc[p] \in {"whigh", "drain", "drainflush", "cdrain"}
            ~> pc[p] \in {"user", "closed"})

=============================================================================
