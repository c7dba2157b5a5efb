----------------------------- MODULE TtyProofs ------------------------------
(***************************************************************************)
(* Proofs about a terminal line, for any number of processes, any marks of *)
(* its queues and any setup: nobody sleeps through what it waits for, a    *)
(* stop of the input is lifted, and an end that was stopped is remembered. *)
(***************************************************************************)
EXTENDS Tty, FiniteSetTheorems, SequenceTheorems, TLAPS

Chars == {"x", "start", "stop"}
Channels == {"iq", "oq", "clt", "open"}

\* A line in the middle of a step.
Lines ==
  [flags : SUBSET Flags, oq : Seq(Chars), iq : 0 .. MaxIn,
   more : {"no", "inl", "fill"}, txe : BOOLEAN, tip : BOOLEAN,
   held : {"no", "yes", "lost"}, short : BOOLEAN, wake : SUBSET Channels]

\* What a reader, a writer and a drain that sleep have left behind.
ReadSleeps(L) == "T_INPUT" \in L.flags /\ L.iq = 0 /\ "T_CARR" \in L.flags
WriteSleeps(L) == "T_HILIM" \in L.flags /\ Len(L.oq) > OLOLIM
DrainSleeps(L) == "T_DRAIN" \in L.flags

\* From L to M: it stays as it was, or they are woken.
Keeps(L, M) ==
  /\ L.wake \subseteq M.wake
  /\ "iq" \in M.wake \/ (ReadSleeps(L) => ReadSleeps(M))
  /\ "oq" \in M.wake \/ ((WriteSleeps(L) => WriteSleeps(M))
                         /\ (DrainSleeps(L) => DrainSleeps(M)))

\* A stop of the input is one of a queue above the low mark.
Full(L) == {"T_ISTOP", "T_TSTOP"} \intersect L.flags # {} => L.iq > ILOLIM

\* An end that is stopped is one we know to be stopped.
Known(L) == WillBeHeld(L) => "T_TSTOP" \in L.flags

\* The output goes on by itself, or was stopped.
Moving(L) ==
  L.oq # <<>> \/ "T_DRAIN" \in L.flags =>
    ~L.txe \/ L.tip \/ "T_STOP" \in L.flags

-----------------------------------------------------------------------------
(* What the routines do to a line.                                         *)

LEMMA KeepsTrans ==
  ASSUME NEW L \in Lines, NEW M \in Lines, NEW N \in Lines, Keeps(L, M), Keeps(M, N)
  PROVE  Keeps(L, N)
  BY DEF Keeps

\* Flags and wakeups change nothing else of a line.
Same(L, M) ==
  /\ M.oq = L.oq /\ M.iq = L.iq /\ M.more = L.more /\ M.txe = L.txe
  /\ M.tip = L.tip /\ M.held = L.held /\ M.short = L.short

LEMMA SetLine ==
  ASSUME NEW L \in Lines, NEW f \in Flags
  PROVE  /\ Set(L, f) \in Lines /\ Same(L, Set(L, f))
         /\ Set(L, f).flags = L.flags \union {f} /\ Set(L, f).wake = L.wake
  BY DEF Set, Lines, Same

LEMMA ClearLine ==
  ASSUME NEW L \in Lines, NEW f \in Flags
  PROVE  /\ Clear(L, f) \in Lines /\ Same(L, Clear(L, f))
         /\ Clear(L, f).flags = L.flags \ {f} /\ Clear(L, f).wake = L.wake
  BY DEF Clear, Lines, Same

LEMMA WakeLine ==
  ASSUME NEW L \in Lines, NEW c \in Channels
  PROVE  /\ Wake(L, c) \in Lines /\ Same(L, Wake(L, c))
         /\ Wake(L, c).flags = L.flags /\ Wake(L, c).wake = L.wake \union {c}
  BY DEF Wake, Lines, Same

LEMMA FreedLine ==
  ASSUME NEW L \in Lines, NEW M \in Freed(L)
  PROVE  /\ M \in Lines /\ M.flags = L.flags /\ M.oq = L.oq /\ M.iq = L.iq
         /\ M.more = L.more /\ M.txe = L.txe /\ M.tip = L.tip /\ M.held = L.held
         /\ L.wake \subseteq M.wake
  <1>1. CASE M = L
    BY <1>1
  <1>2. CASE M = Wake([L EXCEPT !.short = FALSE], "clt")
    <2> DEFINE N == [L EXCEPT !.short = FALSE]
    <2>1. /\ N \in Lines /\ N.flags = L.flags /\ N.oq = L.oq /\ N.iq = L.iq
          /\ N.more = L.more /\ N.txe = L.txe /\ N.tip = L.tip /\ N.held = L.held
          /\ N.wake = L.wake
      BY DEF Lines
    <2> HIDE DEF N
    <2>2. M = Wake(N, "clt") /\ "clt" \in Channels
      BY <1>2 DEF N, Channels
    <2> QED
      BY <2>1, <2>2, WakeLine DEF Same
  <1> QED
    BY <1>1, <1>2 DEF Freed

(***************************************************************************)
(* The first character of the queue is sent.                               *)
(***************************************************************************)
LEMMA HeldTail ==
  ASSUME NEW L \in Lines, NEW M \in Lines, L.oq # <<>>, M.oq = Tail(L.oq),
         M.held = CASE Head(L.oq) = "x" -> L.held
                    [] Head(L.oq) = "stop" -> "yes"
                    [] Head(L.oq) = "start" -> "no",
         WillBeHeld(M)
  PROVE  WillBeHeld(L)
  <1>1. /\ L.oq \in Seq(Chars) /\ Len(L.oq) \in Nat /\ Len(L.oq) >= 1
        /\ Head(L.oq) = L.oq[1] /\ L.oq[1] \in Chars
    BY DEF Lines
  <1>2. Len(M.oq) = Len(L.oq) - 1 /\ \A i \in 1 .. Len(M.oq) : M.oq[i] = L.oq[i + 1]
    BY <1>1
  <1>3. \A j \in 2 .. Len(L.oq) : j - 1 \in 1 .. Len(M.oq) /\ L.oq[j] = M.oq[j - 1]
    BY <1>1, <1>2
  <1>4. CASE M.held = "yes" /\ \A i \in 1 .. Len(M.oq) : M.oq[i] = "x"
    <2>1. \A j \in 2 .. Len(L.oq) : L.oq[j] = "x"
      BY <1>3, <1>4
    <2>2. CASE L.oq[1] = "x"
      <3>1. L.held = "yes"
        BY <1>1, <1>4, <2>2
      <3> QED
        BY <1>1, <2>1, <2>2, <3>1 DEF WillBeHeld
    <2>3. CASE L.oq[1] = "stop"
      BY <1>1, <2>1, <2>3 DEF WillBeHeld
    <2>4. L.oq[1] # "start"
      BY <1>1, <1>4
    <2> QED
      BY <1>1, <2>2, <2>3, <2>4 DEF Chars
  <1>5. CASE \E i \in 1 .. Len(M.oq) :
               M.oq[i] = "stop" /\ \A j \in i + 1 .. Len(M.oq) : M.oq[j] = "x"
    <2>1. PICK i \in 1 .. Len(M.oq) :
            M.oq[i] = "stop" /\ \A j \in i + 1 .. Len(M.oq) : M.oq[j] = "x"
      BY <1>5
    <2>2. i + 1 \in 1 .. Len(L.oq) /\ L.oq[i + 1] = "stop"
      BY <1>1, <1>2, <2>1
    <2>3. \A j \in i + 2 .. Len(L.oq) : L.oq[j] = "x"
      BY <1>1, <1>2, <1>3, <2>1
    <2> QED
      BY <2>2, <2>3 DEF WillBeHeld
  <1> QED
    BY <1>4, <1>5 DEF WillBeHeld

(***************************************************************************)
(* alstart: nothing, or one character is sent and no flag changes.         *)
(***************************************************************************)
LEMMA ttoutLine ==
  ASSUME NEW L \in Lines, setup \in SetupType, NEW M \in ttout(L)
  PROVE  /\ M \in Lines /\ M.flags = L.flags /\ M.iq = L.iq /\ L.wake \subseteq M.wake
         /\ M.oq = L.oq \/ (L.oq # <<>> /\ M.oq = Tail(L.oq))
         /\ WillBeHeld(M) => WillBeHeld(L)
         /\ ~M.txe \/ (M = L /\ L.oq = <<>> /\ L.more = "no")
  <1>1. CASE L.more # "no"
    <2>1. M = [L EXCEPT !.more = "no", !.txe = FALSE, !.tip = FALSE]
      BY <1>1 DEF ttout, Send, Lines
    <2>2. /\ M \in Lines /\ M.flags = L.flags /\ M.iq = L.iq /\ M.wake = L.wake
          /\ M.oq = L.oq /\ M.held = L.held /\ M.txe = FALSE
      BY <2>1 DEF Lines
    <2> QED
      BY <2>2 DEF WillBeHeld
  <1>2. CASE L.more = "no" /\ L.oq = <<>>
    BY <1>2 DEF ttout
  <1>3. CASE L.more = "no" /\ L.oq # <<>>
    <2> DEFINE c == Head(L.oq)
               h == CASE c = "x" -> L.held
                      [] c = "stop" -> "yes"
                      [] c = "start" -> "no"
               S == Send([L EXCEPT !.oq = Tail(L.oq), !.held = h])
    <2>1. Tail(L.oq) \in Seq(Chars) /\ Head(L.oq) \in Chars
      BY <1>3 DEF Lines
    <2>2. h \in {"no", "yes", "lost"}
      BY <2>1 DEF Lines, Chars
    <2>3. PICK m \in {"no", "inl", "fill"} : M \in Freed([S EXCEPT !.more = m])
      <3>1. Expands \subseteq {"inl", "fill"}
        BY DEF Expands, SetupType
      <3>2. M \in UNION {Freed([S EXCEPT !.more = m]) :
                           m \in {"no"} \union (IF c = "x" THEN Expands ELSE {})}
        BY <1>3 DEF ttout
      <3> HIDE DEF S
      <3> QED
        BY <3>1, <3>2
    <2> DEFINE N == [S EXCEPT !.more = m]
    <2> HIDE DEF h
    <2>4. /\ N \in Lines /\ N.oq = Tail(L.oq) /\ N.held = h /\ N.txe = FALSE
          /\ N.flags = L.flags /\ N.iq = L.iq /\ N.wake = L.wake
      BY <2>1, <2>2 DEF Lines, Send
    <2> HIDE DEF N
    <2>5. /\ M \in Lines /\ M.flags = N.flags /\ M.oq = N.oq /\ M.iq = N.iq
          /\ M.txe = N.txe /\ M.held = N.held /\ N.wake \subseteq M.wake
      BY <2>3, <2>4, FreedLine DEF N
    <2>6. WillBeHeld(M) => WillBeHeld(L)
      BY <1>3, <2>4, <2>5, HeldTail DEF h
    <2> QED
      BY <1>3, <2>4, <2>5, <2>6
  <1> QED
    BY <1>1, <1>2, <1>3

LEMMA ClearWakeLine ==
  ASSUME NEW L \in Lines, NEW f \in Flags, NEW c \in Channels, NEW M,
         M = Wake(Clear(L, f), c)
  PROVE  /\ M \in Lines /\ Same(L, M)
         /\ M.flags = L.flags \ {f} /\ M.wake = L.wake \union {c}
  <1>1. Clear(L, f) \in Lines
    BY ClearLine
  <1> QED
    BY <1>1, ClearLine, WakeLine DEF Same

LEMMA TailLen ==
  ASSUME NEW s \in Seq(Chars), NEW t, t = s \/ (s # <<>> /\ t = Tail(s))
  PROVE  Len(t) \in Nat /\ Len(t) <= Len(s)
  OBVIOUS

(***************************************************************************)
(* ttstart: the output moves, and who waited for less of it is woken.      *)
(***************************************************************************)
LEMMA ttstartLine ==
  ASSUME NEW L \in Lines, setup \in SetupType, NEW M \in ttstart(L)
  PROVE  /\ M \in Lines /\ Keeps(L, M) /\ M.iq = L.iq /\ Len(M.oq) <= Len(L.oq)
         /\ M.flags \subseteq L.flags
         /\ L.flags \subseteq M.flags \union {"T_HILIM", "T_DRAIN"}
         /\ WillBeHeld(M) => WillBeHeld(L)
         /\ Moving(M)
  <1>0. L.oq \in Seq(Chars) /\ Len(L.oq) \in Nat /\ {"T_HILIM", "T_DRAIN"} \subseteq Flags
        /\ "oq" \in Channels
    BY DEF Lines, Flags, Channels
  <1>1. CASE "T_STOP" \in L.flags
    <2>1. M = L
      BY <1>1 DEF ttstart
    <2> QED
      BY <1>0, <1>1, <2>1 DEF Keeps, Moving
  <1>2. CASE "T_STOP" \notin L.flags /\ "T_DRAIN" \in L.flags /\ L.oq = <<>> /\ L.more = "no"
    <2>1. M = Wake(Clear(L, "T_DRAIN"), "oq")
      BY <1>2 DEF ttstart
    <2>2. /\ M \in Lines /\ M.flags = L.flags \ {"T_DRAIN"} /\ M.iq = L.iq /\ M.oq = L.oq
          /\ M.held = L.held /\ M.wake = L.wake \union {"oq"}
      BY <1>0, <2>1, ClearWakeLine DEF Same
    <2>3. Keeps(L, M)
      BY <2>2 DEF Keeps, ReadSleeps
    <2> QED
      BY <1>0, <1>2, <2>2, <2>3 DEF Moving, WillBeHeld
  <1>3. CASE /\ "T_STOP" \notin L.flags
             /\ ~("T_DRAIN" \in L.flags /\ L.oq = <<>> /\ L.more = "no")
    <2>1. PICK A \in alstart(L) :
            M = IF "T_HILIM" \in L.flags /\ Len(A.oq) <= OLOLIM THEN Unblock(A) ELSE A
      BY <1>3 DEF ttstart
    <2>2. /\ A \in Lines /\ A.flags = L.flags /\ A.iq = L.iq /\ L.wake \subseteq A.wake
          /\ A.oq = L.oq \/ (L.oq # <<>> /\ A.oq = Tail(L.oq))
          /\ WillBeHeld(A) => WillBeHeld(L)
          /\ ~A.txe \/ (A = L /\ L.oq = <<>> /\ L.more = "no")
      BY <2>1, ttoutLine DEF alstart
    <2>3. Len(A.oq) \in Nat /\ Len(A.oq) <= Len(L.oq)
      BY <1>0, <2>2, TailLen
    <2>4. CASE "T_HILIM" \in L.flags /\ Len(A.oq) <= OLOLIM
      <3>1. M = Wake(Clear(A, "T_HILIM"), "oq")
        BY <2>1, <2>4 DEF Unblock
      <3>2. /\ M \in Lines /\ M.flags = A.flags \ {"T_HILIM"} /\ M.iq = A.iq /\ M.oq = A.oq
            /\ M.held = A.held /\ M.wake = A.wake \union {"oq"} /\ M.txe = A.txe
        BY <1>0, <2>2, <3>1, ClearWakeLine DEF Same
      <3>3. Keeps(L, M)
        BY <2>2, <3>2 DEF Keeps, ReadSleeps
      <3>4. WillBeHeld(M) => WillBeHeld(A)
        BY <3>2 DEF WillBeHeld
      <3>5. Moving(M)
        BY <1>3, <2>2, <3>2 DEF Moving
      <3> QED
        BY <2>2, <2>3, <3>2, <3>3, <3>4, <3>5
    <2>5. CASE ~("T_HILIM" \in L.flags /\ Len(A.oq) <= OLOLIM)
      <3>1. M = A
        BY <2>1, <2>5
      <3>2. Keeps(L, M)
        BY <2>2, <2>3, <2>5, <3>1, TtyAssumption DEF Keeps, ReadSleeps, WriteSleeps, DrainSleeps
      <3>3. Moving(M)
        BY <1>3, <2>2, <3>1 DEF Moving
      <3> QED
        BY <2>2, <2>3, <3>1, <3>2, <3>3
    <2> QED
      BY <2>4, <2>5
  <1> QED
    BY <1>1, <1>2, <1>3

\* A character more at the end of the queue.
LEMMA AppendLine ==
  ASSUME NEW L \in Lines, NEW c \in Chars, NEW M,
         M = [L EXCEPT !.oq = Append(L.oq, c)]
  PROVE  /\ M \in Lines /\ M.oq = Append(L.oq, c) /\ Len(M.oq) = Len(L.oq) + 1
         /\ M.flags = L.flags /\ M.iq = L.iq /\ M.wake = L.wake /\ M.short = L.short
         /\ Keeps(L, M)
         /\ c = "x" /\ WillBeHeld(M) => WillBeHeld(L)
         /\ c = "start" => ~WillBeHeld(M)
  <1>1. L.oq \in Seq(Chars) /\ Len(L.oq) \in Nat
    BY DEF Lines
  <1>2. Append(L.oq, c) \in Seq(Chars) /\ Len(Append(L.oq, c)) = Len(L.oq) + 1
    BY <1>1
  <1>3. /\ M \in Lines /\ M.oq = Append(L.oq, c) /\ M.flags = L.flags /\ M.iq = L.iq
        /\ M.wake = L.wake /\ M.held = L.held /\ M.short = L.short
    BY <1>2 DEF Lines
  <1>4. Keeps(L, M)
    BY <1>1, <1>2, <1>3, TtyAssumption DEF Keeps, ReadSleeps, WriteSleeps, DrainSleeps
  <1>5. /\ \A i \in 1 .. Len(L.oq) : M.oq[i] = L.oq[i]
        /\ M.oq[Len(L.oq) + 1] = c
    BY <1>1, <1>3
  <1>6. ASSUME c = "x", WillBeHeld(M) PROVE WillBeHeld(L)
    <2>1. CASE M.held = "yes" /\ \A i \in 1 .. Len(M.oq) : M.oq[i] = "x"
      BY <1>1, <1>2, <1>3, <1>5, <2>1 DEF WillBeHeld
    <2>2. CASE \E i \in 1 .. Len(M.oq) :
                 M.oq[i] = "stop" /\ \A j \in i + 1 .. Len(M.oq) : M.oq[j] = "x"
      <3>1. PICK i \in 1 .. Len(M.oq) :
              M.oq[i] = "stop" /\ \A j \in i + 1 .. Len(M.oq) : M.oq[j] = "x"
        BY <2>2
      <3>2. i \in 1 .. Len(L.oq) /\ L.oq[i] = "stop"
        BY <1>1, <1>2, <1>3, <1>5, <1>6, <3>1
      <3>3. \A j \in i + 1 .. Len(L.oq) : L.oq[j] = "x"
        BY <1>1, <1>2, <1>3, <1>5, <3>1
      <3> QED
        BY <3>2, <3>3 DEF WillBeHeld
    <2> QED
      BY <1>6, <2>1, <2>2 DEF WillBeHeld
  <1>7. ASSUME c = "start" PROVE ~WillBeHeld(M)
    <2>1. Len(M.oq) = Len(L.oq) + 1 /\ M.oq[Len(M.oq)] = "start" /\ Len(M.oq) \in 1 .. Len(M.oq)
      BY <1>1, <1>2, <1>3, <1>5, <1>7
    <2>2. \A i \in 1 .. Len(M.oq) : i = Len(M.oq) \/ Len(M.oq) \in i + 1 .. Len(M.oq)
      BY <1>1, <2>1
    <2> QED
      BY <2>1, <2>2 DEF WillBeHeld
  <1> QED
    BY <1>2, <1>3, <1>4, <1>6, <1>7

LEMMA ttflushLine ==
  ASSUME NEW L \in Lines, setup \in SetupType, NEW M \in ttflush(L)
  PROVE  /\ M \in Lines /\ {"iq", "oq"} \subseteq M.wake /\ L.wake \subseteq M.wake
         /\ M.oq = <<>> /\ M.iq = 0 /\ M.flags = L.flags \intersect T_SAVE
         /\ ~WillBeHeld(M)
  <1> DEFINE N == [L EXCEPT !.iq = 0, !.oq = <<>>,
                            !.more = IF @ = "inl" THEN "no" ELSE @,
                            !.held = IF Told(L) THEN "lost" ELSE @,
                            !.flags = @ \intersect T_SAVE,
                            !.wake = @ \union {"iq", "oq"}]
  <1>1. /\ N \in Lines /\ N.oq = <<>> /\ N.iq = 0 /\ N.flags = L.flags \intersect T_SAVE
        /\ N.wake = L.wake \union {"iq", "oq"} /\ N.held = IF Told(L) THEN "lost" ELSE L.held
    <2>2. 0 \in 0 .. MaxIn
      BY DEF SetupType, MaxIn
    <2>3. <<>> \in Seq(Chars)
      OBVIOUS
    <2> QED
      BY <2>2, <2>3 DEF Lines, Channels
  <1>2. N.held # "yes"
    BY <1>1 DEF Told
  <1>3. M \in Freed(N)
    BY DEF ttflush
  <1> HIDE DEF N
  <1>4. /\ M \in Lines /\ M.flags = N.flags /\ M.oq = N.oq /\ M.iq = N.iq
        /\ M.held = N.held /\ N.wake \subseteq M.wake
    BY <1>1, <1>3, FreedLine
  <1>5. ~WillBeHeld(M)
    BY <1>1, <1>2, <1>4 DEF WillBeHeld
  <1> QED
    BY <1>1, <1>4, <1>5

-----------------------------------------------------------------------------
(* The invariant.                                                          *)

Clists == {"rclist", "wclist"}
Drains == {"drain", "drainflush", "cdrain"}
Writes == {"wput", "whigh", "wclist"}
Outside == {"closed", "opening", "cdrain"}

TypeInv ==
  /\ setup \in Setups /\ line \in LineType
  /\ mode \in {"cooked", "cbreak", "raw"}
  /\ ie \in {"none", "modem", "all"} /\ dcd \in BOOLEAN
  /\ pc \in [Procs -> Locs] /\ cnt \in [Procs -> 0 .. MaxWrite]
  /\ asleep \subseteq Procs /\ sig \subseteq Procs
  /\ self \in Procs \union {None}

\* Who sleeps at l sleeps rightly.
Rightly(L, l) ==
  /\ l = "rd" => ReadSleeps(L)
  /\ l = "whigh" => WriteSleeps(L)
  /\ l \in Drains => DrainSleeps(L)
SleepInv == \A q \in asleep : Rightly(line, pc[q])

\* t_open is the number of processes that have the line open.
Open == {q \in Procs : pc[q] \notin Outside}
CountInv == topen = Cardinality(Open)

\* A process at a character has one left.
CntInv == \A q \in Procs : pc[q] \in Writes => cnt[q] >= 1

\* The output queue, with the characters that wait for a list and the start
\* character that is owed, is bounded.
Pending == {q \in Procs : pc[q] \in Clists}
Size(L) == Len(L.oq) + IF "T_TSTOP" \in L.flags THEN 1 ELSE 0
BoundInv ==
  Size(line) + Cardinality(Pending) <= MaxOut + MaxEdit + Cardinality(Procs) + 2

IInv ==
  /\ TypeInv /\ SleepInv /\ CountInv /\ CntInv /\ BoundInv
  /\ Full(line) /\ TandemRemembered

LEMMA InitIInv == Init => IInv
  <1> SUFFICES ASSUME Init PROVE IInv
    OBVIOUS
  <1> USE TtyAssumption DEF Init
  <1>1. setup \in SetupType
    OBVIOUS
  <1>2. TypeInv
    <2>1. /\ MaxWrite \in Nat /\ MaxIn \in Nat /\ 0 \in 0 .. MaxWrite /\ 0 \in 0 .. MaxIn
          /\ Modem \in BOOLEAN
      BY <1>1 DEF SetupType, MaxWrite, MaxIn, Modem
    <2>2. line \in LineType
      <3>1. <<>> \in Seq({"x", "start", "stop"}) /\ {} \in {{}}
        OBVIOUS
      <3>2. (IF Modem THEN {"T_CARR", "T_MODC"} ELSE {"T_CARR"}) \in SUBSET Flags
        BY DEF Flags
      <3> QED
        BY <2>1, <3>1, <3>2 DEF LineType
    <2> QED
      BY <2>1, <2>2 DEF TypeInv, Locs
  <1>3. line.oq = <<>> /\ line.held = "no" /\ {"T_ISTOP", "T_TSTOP"} \intersect line.flags = {}
    OBVIOUS
  <1>4. SleepInv /\ CntInv /\ Full(line) /\ TandemRemembered
    BY <1>3 DEF SleepInv, CntInv, Full, TandemRemembered, WillBeHeld, Writes
  <1>5. Open = Procs /\ Pending = {}
    BY DEF Open, Pending, Outside, Clists
  <1>6. CountInv
    BY <1>5 DEF CountInv
  <1>7. BoundInv
    <2>1. Cardinality({}) = 0 /\ Cardinality(Procs) \in Nat
      BY FS_EmptySet, FS_CardinalityType
    <2>2. Size(line) = 0
      BY <1>3 DEF Size
    <2>3. MaxEdit \in Nat
      BY <1>1 DEF MaxEdit, SetupType
    <2> QED
      BY <1>5, <2>1, <2>2, <2>3 DEF BoundInv
  <1> QED
    BY <1>2, <1>4, <1>6, <1>7 DEF IInv

\* Between two steps nobody is being woken.
LEMMA LineAtRest ==
  ASSUME NEW L \in Lines, NEW M, M = [L EXCEPT !.wake = {}]
  PROVE  /\ M \in LineType /\ Same(L, M) /\ M.flags = L.flags /\ M.wake = {}
         /\ M \in Lines
  BY DEF Lines, LineType, Same, Chars

LEMMA LineTypes ==
  ASSUME TypeInv
  PROVE  line \in Lines /\ line.wake = {} /\ setup \in SetupType
  BY TtyAssumption DEF TypeInv, LineType, Lines, Chars

-----------------------------------------------------------------------------
(* The parts of the invariant, in a step in which the line becomes L.      *)

LEMMA SleepKept ==
  ASSUME SleepInv, NEW L \in Lines, Keeps(line, L), line' = [L EXCEPT !.wake = {}],
         NEW S, asleep' \subseteq {q \in asleep : Channel(q) \notin L.wake} \union S,
         \A q \in asleep \ S : pc'[q] = pc[q],
         \A q \in S : Rightly(L, pc'[q])
  PROVE  SleepInv'
  <1>1. line'.flags = L.flags /\ line'.oq = L.oq /\ line'.iq = L.iq
    BY LineAtRest DEF Same
  <1>2. \A l : Rightly(L, l) => Rightly(line', l)
    BY <1>1 DEF Rightly, ReadSleeps, WriteSleeps, DrainSleeps
  <1>3. ASSUME NEW q \in asleep', q \notin S PROVE Rightly(L, pc[q]) /\ pc'[q] = pc[q]
    <2>1. q \in asleep /\ Channel(q) \notin L.wake /\ pc'[q] = pc[q] /\ Rightly(line, pc[q])
      BY <1>3 DEF SleepInv
    <2>2. /\ pc[q] = "rd" => Channel(q) = "iq"
          /\ pc[q] \in Drains \union {"whigh"} => Channel(q) = "oq"
      BY DEF Channel, Drains
    <2> QED
      BY <2>1, <2>2 DEF Rightly, Keeps
  <1> QED
    BY <1>2, <1>3 DEF SleepInv, Rightly, ReadSleeps, WriteSleeps, DrainSleeps

LEMMA TandemKept ==
  ASSUME TandemRemembered, NEW L \in Lines, line' = [L EXCEPT !.wake = {}],
         \/ ~WillBeHeld(L) \/ "T_TSTOP" \in L.flags
         \/ \E q \in Procs : pc'[q] = "rclist"
         \/ /\ Known(line) => Known(L)
            /\ \A q \in Procs : pc[q] = "rclist" => pc'[q] = "rclist"
  PROVE  TandemRemembered'
  <1>1. line'.flags = L.flags /\ line'.oq = L.oq /\ line'.held = L.held
    BY LineAtRest DEF Same
  <1>2. WillBeHeld(line)' => WillBeHeld(L)
    BY <1>1 DEF WillBeHeld
  <1> QED
    BY <1>1, <1>2 DEF TandemRemembered, Known

LEMMA BoundKept ==
  ASSUME BoundInv, TypeInv, setup' = setup, NEW L \in Lines, line' = [L EXCEPT !.wake = {}],
         NEW p \in Procs, \A q \in Procs \ {p} : pc'[q] \in Clists <=> pc[q] \in Clists,
         \/ Size(L) <= MaxOut + MaxEdit + 2
         \/ Size(L) <= Size(line) /\ (pc'[p] \in Clists => pc[p] \in Clists)
         \/ Size(L) + 1 <= Size(line)
         \/ Size(L) <= Size(line) + 1 /\ pc[p] \in Clists /\ pc'[p] \notin Clists
  PROVE  BoundInv'
  <1>1. Size(line)' = Size(L) /\ MaxEdit' = MaxEdit
    BY LineAtRest DEF Same, Size, MaxEdit
  <1>2. Size(L) \in Nat /\ Size(line) \in Nat /\ MaxEdit \in Nat /\ MaxOut \in Nat
    BY LineTypes, TtyAssumption DEF Size, Lines, MaxEdit, SetupType
  <1>3. /\ Pending \subseteq Procs /\ Pending' \subseteq Procs
        /\ IsFiniteSet(Pending) /\ IsFiniteSet(Procs) /\ Cardinality(Procs) \in Nat
        /\ Cardinality(Pending) \in Nat /\ Cardinality(Pending') \in Nat
        /\ Cardinality(Pending') <= Cardinality(Procs)
    <2>1. Pending \subseteq Procs /\ Pending' \subseteq Procs
      BY DEF Pending
    <2> QED
      BY <2>1, TtyAssumption, FS_Subset, FS_CardinalityType
  <1>4. CASE pc'[p] \in Clists => pc[p] \in Clists
    <2>1. Pending' \subseteq Pending
      BY <1>4 DEF Pending
    <2>2. Cardinality(Pending') <= Cardinality(Pending)
      BY <1>3, <2>1, FS_Subset
    <2>3. CASE pc[p] \in Clists /\ pc'[p] \notin Clists
      <3>1. Pending' = Pending \ {p} /\ p \in Pending
        BY <2>3 DEF Pending
      <3>2. Cardinality(Pending') = Cardinality(Pending) - 1
        BY <1>3, <3>1, FS_RemoveElement
      <3> QED
        BY <1>1, <1>2, <1>3, <2>2, <3>2 DEF BoundInv
    <2>4. CASE ~(pc[p] \in Clists /\ pc'[p] \notin Clists)
      BY <1>1, <1>2, <1>3, <2>2, <2>4 DEF BoundInv
    <2> QED
      BY <2>3, <2>4
  <1>5. CASE pc'[p] \in Clists /\ pc[p] \notin Clists
    <2>1. Pending' = Pending \union {p} /\ p \notin Pending
      BY <1>5 DEF Pending
    <2>2. Cardinality(Pending') = Cardinality(Pending) + 1
      BY <1>3, <2>1, FS_AddElement
    <2> QED
      BY <1>1, <1>2, <1>3, <1>5, <2>2 DEF BoundInv
  <1> QED
    BY <1>4, <1>5

LEMMA CountKept ==
  ASSUME CountInv, topen' = topen,
         \A q \in Procs : pc'[q] \in Outside <=> pc[q] \in Outside
  PROVE  CountInv'
  <1>1. Open' = Open
    BY DEF Open
  <1> QED
    BY <1>1 DEF CountInv

LEMMA CountMoved ==
  ASSUME CountInv, NEW p \in Procs,
         \A q \in Procs \ {p} : pc'[q] \in Outside <=> pc[q] \in Outside,
         \/ topen' = topen + 1 /\ pc[p] \in Outside /\ pc'[p] \notin Outside
         \/ topen' = topen - 1 /\ pc[p] \notin Outside /\ pc'[p] \in Outside
  PROVE  CountInv'
  <1>1. IsFiniteSet(Open) /\ Cardinality(Open) \in Nat
    <2>1. Open \subseteq Procs
      BY DEF Open
    <2> QED
      BY <2>1, TtyAssumption, FS_Subset, FS_CardinalityType
  <1>2. CASE pc[p] \in Outside /\ pc'[p] \notin Outside
    <2>1. Open' = Open \union {p} /\ p \notin Open
      BY <1>2 DEF Open
    <2> QED
      BY <1>1, <1>2, <2>1, FS_AddElement DEF CountInv
  <1>3. CASE pc[p] \notin Outside /\ pc'[p] \in Outside
    <2>1. Open' = Open \ {p} /\ p \in Open
      BY <1>3 DEF Open
    <2> QED
      BY <1>1, <1>3, <2>1, FS_RemoveElement DEF CountInv
  <1> QED
    BY <1>2, <1>3

-----------------------------------------------------------------------------
(* Steps of a process and interrupts, in which the line becomes L.         *)

\* What is not of the line or of one process.
Around ==
  /\ setup' = setup /\ mode' \in {"cooked", "cbreak", "raw"}
  /\ ie' \in {"none", "modem", "all"} /\ dcd' \in BOOLEAN

\* What p does to the line on its way to l.
Fine(p, l, L) ==
  /\ L \in Lines /\ Keeps(line, L) /\ Full(L)
  /\ \/ ~WillBeHeld(L) \/ "T_TSTOP" \in L.flags \/ l = "rclist"
     \/ pc[p] # "rclist" /\ (Known(line) => Known(L))
  /\ \/ Size(L) <= MaxOut + MaxEdit + 2
     \/ Size(L) <= Size(line) /\ (l \in Clists => pc[p] \in Clists)
     \/ Size(L) + 1 <= Size(line)
     \/ Size(L) <= Size(line) + 1 /\ pc[p] \in Clists /\ l \notin Clists

\* t_open is counted when p opens or closes the line.
Counted(p, l) ==
  \/ topen' = topen /\ (l \in Outside <=> pc[p] \in Outside)
  \/ topen' = topen + 1 /\ pc[p] \in Outside /\ l \notin Outside
  \/ topen' = topen - 1 /\ pc[p] \notin Outside /\ l \in Outside

LEMMA MoveIInv ==
  ASSUME IInv, Around, NEW p \in Procs, NEW l \in Locs, NEW L, Fine(p, l, L),
         Counted(p, l), p \notin asleep, pc' = [pc EXCEPT ![p] = l],
         line' = [L EXCEPT !.wake = {}], NEW S, S = {} \/ (S = {p} /\ Rightly(L, l)),
         asleep' = {q \in asleep : Channel(q) \notin L.wake} \union S,
         NEW n \in 0 .. MaxWrite, l \in Writes => n >= 1,
         cnt' = [cnt EXCEPT ![p] = n], sig' \subseteq Procs, self' \in {None, p}
  PROVE  IInv'
  <1>0. TypeInv /\ L \in Lines
    BY DEF IInv, Fine
  <1>1. /\ pc' \in [Procs -> Locs] /\ pc'[p] = l
        /\ \A q \in Procs \ {p} : pc'[q] = pc[q]
    BY <1>0 DEF TypeInv
  <1>2. TypeInv'
    <2>1. line' \in LineType /\ LineType' = LineType
      BY <1>0, LineAtRest DEF Around, LineType, MaxIn
    <2>2. cnt' \in [Procs -> 0 .. MaxWrite] /\ MaxWrite' = MaxWrite
      BY <1>0 DEF Around, MaxWrite, TypeInv
    <2>3. asleep' \subseteq Procs
      BY <1>0 DEF TypeInv
    <2> QED
      BY <1>0, <1>1, <2>1, <2>2, <2>3 DEF Around, TypeInv
  <1>3. SleepInv'
    <2>1. \A q \in asleep \ S : pc'[q] = pc[q]
      BY <1>0, <1>1 DEF TypeInv
    <2>2. \A q \in S : Rightly(L, pc'[q])
      BY <1>1
    <2> QED
      BY <1>0, <2>1, <2>2, SleepKept DEF IInv, Fine
  <1>4. CountInv'
    <2>1. CASE topen' = topen /\ (l \in Outside <=> pc[p] \in Outside)
      BY <1>1, <2>1, CountKept DEF IInv
    <2>2. CASE \/ topen' = topen + 1 /\ pc[p] \in Outside /\ l \notin Outside
               \/ topen' = topen - 1 /\ pc[p] \notin Outside /\ l \in Outside
      BY <1>1, <2>2, CountMoved DEF IInv
    <2> QED
      BY <2>1, <2>2 DEF Counted
  <1>5. CntInv'
    BY <1>0, <1>1 DEF CntInv, IInv, TypeInv
  <1>6. BoundInv'
    <2>1. \A q \in Procs \ {p} : pc'[q] \in Clists <=> pc[q] \in Clists
      BY <1>1
    <2>2. \/ Size(L) <= MaxOut + MaxEdit + 2
          \/ Size(L) <= Size(line) /\ (pc'[p] \in Clists => pc[p] \in Clists)
          \/ Size(L) + 1 <= Size(line)
          \/ Size(L) <= Size(line) + 1 /\ pc[p] \in Clists /\ pc'[p] \notin Clists
      BY <1>1 DEF Fine
    <2> QED
      BY <1>0, <2>1, <2>2, BoundKept DEF IInv, Around
  <1>7. Full(line)'
    BY <1>0, LineAtRest DEF Full, Same, Fine
  <1>8. TandemRemembered'
    <2>1. \/ ~WillBeHeld(L) \/ "T_TSTOP" \in L.flags
          \/ \E q \in Procs : pc'[q] = "rclist"
          \/ /\ Known(line) => Known(L)
             /\ \A q \in Procs : pc[q] = "rclist" => pc'[q] = "rclist"
      BY <1>1 DEF Fine
    <2> QED
      BY <1>0, <2>1, TandemKept DEF IInv
  <1> QED
    BY <1>2, <1>3, <1>4, <1>5, <1>6, <1>7, <1>8 DEF IInv

LEMMA SleepsIInv ==
  ASSUME IInv, Around, NEW p \in Procs, NEW l \in Locs, NEW L, Fine(p, l, L),
         Counted(p, l), p \notin asleep, Sleeps(p, l, L), Rightly(L, l),
         l \in Writes => cnt[p] >= 1
  PROVE  IInv'
  <1>1. cnt[p] \in 0 .. MaxWrite /\ cnt' = [cnt EXCEPT ![p] = cnt[p]] /\ sig' \subseteq Procs
    BY DEF IInv, TypeInv, Sleeps
  <1> QED
    BY <1>1, MoveIInv DEF Sleeps, Becomes, Goto

LEMMA GoesOnIInv ==
  ASSUME IInv, Around, NEW p \in Procs, NEW l \in Locs, NEW L, Fine(p, l, L),
         Counted(p, l), p \notin asleep, NEW n \in 0 .. MaxWrite, GoesOn(p, l, L, n),
         l \in Writes => n >= 1
  PROVE  IInv'
  <1>1. sig' \subseteq Procs
    BY DEF IInv, TypeInv, GoesOn
  <1> QED
    BY <1>1, MoveIInv DEF GoesOn, Becomes, Goto

LEMMA ReturnsIInv ==
  ASSUME IInv, Around, NEW p \in Procs, NEW l \in {"user", "closed"}, NEW L,
         Fine(p, l, L), Counted(p, l), p \notin asleep, Returns(p, l, L)
  PROVE  IInv'
  <1>1. sig' \subseteq Procs /\ l \in Locs /\ l \notin Writes
    BY DEF IInv, TypeInv, Returns, Locs, Writes
  <1>2. 0 \in 0 .. MaxWrite
    BY LineTypes DEF IInv, SetupType, MaxWrite
  <1> QED
    BY <1>1, <1>2, MoveIInv DEF Returns, Becomes, Goto

LEMMA InterruptIInv ==
  ASSUME IInv, Around, NEW S \in SUBSET Procs, NEW L \in Lines, Keeps(line, L), Full(L),
         ~WillBeHeld(L) \/ "T_TSTOP" \in L.flags \/ (Known(line) => Known(L)),
         Size(L) <= MaxOut + MaxEdit + 2 \/ Size(L) <= Size(line),
         Interrupt(L, S)
  PROVE  IInv'
  <1> USE DEF Interrupt
  <1>0. TypeInv
    BY DEF IInv
  <1>1. TypeInv'
    <2>1. line' \in LineType /\ LineType' = LineType
      BY LineAtRest DEF Around, LineType, MaxIn
    <2>2. cnt' \in [Procs -> 0 .. MaxWrite] /\ MaxWrite' = MaxWrite
      BY <1>0 DEF Around, MaxWrite, TypeInv
    <2>3. asleep' \subseteq Procs /\ sig' \subseteq Procs
      BY <1>0 DEF TypeInv
    <2> QED
      BY <1>0, <2>1, <2>2, <2>3 DEF Around, TypeInv
  <1>2. SleepInv'
    <2> DEFINE T == {}
    <2>1. asleep' \subseteq {q \in asleep : Channel(q) \notin L.wake} \union T
      OBVIOUS
    <2>2. \A q \in asleep \ T : pc'[q] = pc[q]
      OBVIOUS
    <2>3. \A q \in T : Rightly(L, pc'[q])
      OBVIOUS
    <2>4. SleepInv /\ line' = [L EXCEPT !.wake = {}]
      BY DEF IInv
    <2> HIDE DEF Interrupt, T
    <2> QED
      BY <2>1, <2>2, <2>3, <2>4, SleepKept
  <1>3. CountInv'
    BY CountKept DEF IInv
  <1>4. CntInv'
    BY DEF CntInv, IInv
  <1>5. BoundInv'
    <2>1. Size(line)' = Size(L) /\ MaxEdit' = MaxEdit /\ Pending' = Pending
      BY LineAtRest DEF Same, Size, MaxEdit, Around, Pending
    <2>2. Size(L) \in Nat /\ Size(line) \in Nat /\ MaxEdit \in Nat /\ MaxOut \in Nat
      BY <1>0, LineTypes, TtyAssumption DEF Size, Lines, MaxEdit, SetupType
    <2>3. /\ Cardinality(Procs) \in Nat /\ Cardinality(Pending) \in Nat
          /\ Cardinality(Pending) <= Cardinality(Procs)
      <3>1. Pending \subseteq Procs
        BY DEF Pending
      <3> QED
        BY <3>1, TtyAssumption, FS_Subset, FS_CardinalityType
    <2> QED
      BY <2>1, <2>2, <2>3 DEF BoundInv, IInv
  <1>6. Full(line)'
    BY LineAtRest DEF Full, Same
  <1>7. TandemRemembered'
    BY TandemKept DEF IInv
  <1> QED
    BY <1>1, <1>2, <1>3, <1>4, <1>5, <1>6, <1>7 DEF IInv

-----------------------------------------------------------------------------
(* Routines that add to the output, and leave the stops of the input.      *)

Adds(L, M, n) ==
  /\ M \in Lines /\ Keeps(L, M) /\ M.iq = L.iq /\ Len(M.oq) <= Len(L.oq) + n
  /\ \A f \in {"T_ISTOP", "T_TSTOP"} : f \in M.flags <=> f \in L.flags
  /\ WillBeHeld(M) => WillBeHeld(L)

LEMMA LeqPlus ==
  ASSUME NEW a \in Nat, NEW b \in Nat, NEW c \in Nat, NEW m \in Nat, NEW n \in Nat,
         b <= a + m, c <= b + n
  PROVE  c <= a + (m + n)
  OBVIOUS

LEMMA AddsTrans ==
  ASSUME NEW L \in Lines, NEW M, NEW N, NEW m \in Nat, NEW n \in Nat,
         Adds(L, M, m), Adds(M, N, n)
  PROVE  Adds(L, N, m + n)
  <1>1. M \in Lines /\ N \in Lines
    BY DEF Adds
  <1>2. Len(L.oq) \in Nat /\ Len(M.oq) \in Nat /\ Len(N.oq) \in Nat
    BY <1>1 DEF Lines
  <1>3. Keeps(L, N)
    BY <1>1, KeepsTrans DEF Adds
  <1>4. N.iq = L.iq /\ \A f \in {"T_ISTOP", "T_TSTOP"} : f \in N.flags <=> f \in L.flags
    BY DEF Adds
  <1>5. Len(N.oq) <= Len(L.oq) + (m + n)
    <2>1. Len(M.oq) <= Len(L.oq) + m /\ Len(N.oq) <= Len(M.oq) + n
      BY DEF Adds
    <2> QED
      BY <1>2, <2>1, LeqPlus
  <1> QED
    BY <1>1, <1>3, <1>4, <1>5 DEF Adds

LEMMA AddsNone ==
  ASSUME NEW L \in Lines
  PROVE  Adds(L, L, 0)
  <1>1. Len(L.oq) \in Nat
    BY DEF Lines
  <1> QED
    BY <1>1 DEF Adds, Keeps

LEMMA AddsMore ==
  ASSUME NEW L \in Lines, NEW M, NEW m \in Nat, NEW n \in Nat, m <= n, Adds(L, M, m)
  PROVE  Adds(L, M, n)
  <1>1. Len(L.oq) \in Nat /\ Len(M.oq) \in Nat
    BY DEF Adds, Lines
  <1> QED
    BY <1>1 DEF Adds

LEMMA ttstartAdds ==
  ASSUME NEW L \in Lines, setup \in SetupType, NEW M \in ttstart(L)
  PROVE  Adds(L, M, 0)
  <1>1. Len(L.oq) \in Nat
    BY DEF Lines
  <1> QED
    BY <1>1, ttstartLine DEF Adds

LEMMA SetAdds ==
  ASSUME NEW L \in Lines, NEW f \in Flags \ {"T_ISTOP", "T_TSTOP"}
  PROVE  Adds(L, Set(L, f), 0)
  <1> DEFINE M == Set(L, f)
  <1>1. /\ M \in Lines /\ M.oq = L.oq /\ M.iq = L.iq /\ M.held = L.held
        /\ M.flags = L.flags \union {f} /\ M.wake = L.wake /\ Len(L.oq) \in Nat
    BY SetLine DEF Same, Lines
  <1> HIDE DEF M
  <1>2. Keeps(L, M)
    BY <1>1 DEF Keeps, ReadSleeps, WriteSleeps, DrainSleeps
  <1>3. WillBeHeld(M) => WillBeHeld(L)
    BY <1>1 DEF WillBeHeld
  <1>4. Adds(L, M, 0)
    BY <1>1, <1>2, <1>3 DEF Adds
  <1> QED
    BY <1>4 DEF M

LEMMA ClearAdds ==
  ASSUME NEW L \in Lines, NEW f \in {"T_STOP", "T_HPCL"}
  PROVE  Adds(L, Clear(L, f), 0)
  <1> DEFINE M == Clear(L, f)
  <1>1. /\ M \in Lines /\ M.oq = L.oq /\ M.iq = L.iq /\ M.held = L.held
        /\ M.flags = L.flags \ {f} /\ M.wake = L.wake /\ Len(L.oq) \in Nat
    <2>1. f \in Flags
      BY DEF Flags
    <2> QED
      BY <2>1, ClearLine DEF Same, Lines
  <1> HIDE DEF M
  <1>2. Keeps(L, M)
    BY <1>1 DEF Keeps, ReadSleeps, WriteSleeps, DrainSleeps
  <1>3. WillBeHeld(M) => WillBeHeld(L)
    BY <1>1 DEF WillBeHeld
  <1>4. Adds(L, M, 0)
    BY <1>1, <1>2, <1>3 DEF Adds
  <1> QED
    BY <1>4 DEF M

LEMMA AppendAdds ==
  ASSUME NEW L \in Lines, NEW c \in {"x", "start"}, NEW M,
         M = [L EXCEPT !.oq = Append(L.oq, c)]
  PROVE  Adds(L, M, 1) /\ (c = "start" => ~WillBeHeld(M))
  <1>1. c \in Chars /\ Len(L.oq) \in Nat
    BY DEF Chars, Lines
  <1>2. /\ M \in Lines /\ Len(M.oq) = Len(L.oq) + 1 /\ M.flags = L.flags /\ M.iq = L.iq
        /\ Keeps(L, M)
    BY <1>1, AppendLine
  <1>3. c = "x" => (WillBeHeld(M) => WillBeHeld(L))
    BY <1>1, AppendLine
  <1>4. c = "start" => ~WillBeHeld(M)
    BY <1>1, AppendLine
  <1> QED
    BY <1>1, <1>2, <1>3, <1>4 DEF Adds

LEMMA EchoAdds ==
  ASSUME NEW L \in Lines, setup \in SetupType, NEW M \in Echo(L, "x")
  PROVE  Adds(L, M, 1)
  <1>1. PICK N \in putq(L, "x") : M \in ttstart(N)
    BY DEF Echo
  <1>2. Adds(L, N, 1)
    <2>1. CASE N = [L EXCEPT !.oq = Append(L.oq, "x")]
      BY <2>1, AppendAdds
    <2>2. CASE N = L
      <3>1. Adds(L, N, 0) /\ 0 \in Nat /\ 1 \in Nat /\ 0 <= 1
        BY <2>2, AddsNone
      <3> QED
        BY <3>1, AddsMore
    <2> QED
      BY <1>1, <2>1, <2>2 DEF putq
  <1>3. Adds(N, M, 0)
    BY <1>1, <1>2, ttstartAdds DEF Adds
  <1> QED
    BY <1>2, <1>3, AddsTrans

LEMMA EchoedAdds ==
  ASSUME NEW L \in Lines, setup \in SetupType, NEW M \in Echoed(L) \union {L}
  PROVE  Adds(L, M, 1)
  <1>1. CASE M \in Echo(L, "x")
    BY <1>1, EchoAdds
  <1>2. CASE M = L
    <2>1. Adds(L, M, 0) /\ 0 \in Nat /\ 1 \in Nat /\ 0 <= 1
      BY <1>2, AddsNone
    <2> QED
      BY <2>1, AddsMore
  <1> QED
    BY <1>1, <1>2 DEF Echoed

LEMMA QueuedAdds ==
  ASSUME NEW L \in Lines, setup \in SetupType, NEW c \in {"x", "start"}, NEW M \in Queued(L, c)
  PROVE  Adds(L, M, 1) /\ (c = "start" => ~WillBeHeld(M))
  <1>1. PICK N \in {L} \union ttstart(L) : M = [N EXCEPT !.oq = Append(N.oq, c)]
    BY DEF Queued
  <1>2. Adds(L, N, 0)
    BY <1>1, AddsNone, ttstartAdds
  <1>3. Adds(N, M, 1) /\ (c = "start" => ~WillBeHeld(M))
    BY <1>1, <1>2, AppendAdds DEF Adds
  <1>4. Adds(L, M, 0 + 1)
    BY <1>2, <1>3, AddsTrans
  <1> QED
    BY <1>3, <1>4

LEMMA NoRoomAdds ==
  ASSUME NEW L \in Lines, setup \in SetupType, NEW M \in NoRoom(L)
  PROVE  Adds(L, M, 0)
  BY ttstartAdds DEF NoRoom

LEMMA LiftedAdds ==
  ASSUME NEW L \in Lines, setup \in SetupType, NEW m, NEW M \in Lifted(L, m)
  PROVE  Adds(L, M, 0)
  <1>1. CASE M = L
    BY <1>1, AddsNone
  <1>2. CASE M \in ttstart(Clear(L, "T_STOP"))
    <2>1. Adds(L, Clear(L, "T_STOP"), 0)
      BY ClearAdds
    <2>2. Adds(Clear(L, "T_STOP"), M, 0)
      BY <1>2, <2>1, ttstartAdds DEF Adds
    <2> QED
      BY <2>1, <2>2, AddsTrans
  <1> QED
    BY <1>1, <1>2 DEF Lifted

\* The echo of an erase or a kill.
LEMMA EditAdds ==
  ASSUME NEW L \in Lines, NEW k \in Nat, NEW M,
         M = [L EXCEPT !.oq = L.oq \o [i \in 1 .. k |-> "x"]]
  PROVE  Adds(L, M, k)
  <1> DEFINE e == [i \in 1 .. k |-> "x"]
             s == L.oq \o e
  <1>1. L.oq \in Seq(Chars) /\ Len(L.oq) \in Nat /\ e \in Seq(Chars) /\ Len(e) = k
    <2>1. e \in [1 .. k -> Chars]
      BY DEF Chars
    <2>2. e \in Seq(Chars)
      BY <2>1, SeqDef
    <2>3. Len(e) = k
      BY <2>2, LenProperties
    <2> QED
      BY <2>2, <2>3 DEF Lines
  <1>2. /\ s \in Seq(Chars) /\ Len(s) = Len(L.oq) + k
        /\ \A i \in 1 .. Len(L.oq) : s[i] = L.oq[i]
        /\ \A i \in Len(L.oq) + 1 .. Len(L.oq) + k : s[i] = "x"
    <2>1. s \in Seq(Chars) /\ Len(s) = Len(L.oq) + k
      BY <1>1
    <2>2. \A i \in 1 .. Len(s) : s[i] = IF i <= Len(L.oq) THEN L.oq[i] ELSE e[i - Len(L.oq)]
      BY <1>1
    <2>3. \A i \in Len(L.oq) + 1 .. Len(L.oq) + k : i - Len(L.oq) \in 1 .. k
      BY <1>1
    <2> QED
      BY <1>1, <2>1, <2>2, <2>3
  <1> HIDE DEF s
  <1>3. /\ M \in Lines /\ M.oq = s /\ M.flags = L.flags /\ M.iq = L.iq
        /\ M.wake = L.wake /\ M.held = L.held
    BY <1>2 DEF Lines, s
  <1>4. Keeps(L, M)
    BY <1>1, <1>2, <1>3, TtyAssumption DEF Keeps, ReadSleeps, WriteSleeps, DrainSleeps
  <1>5. ASSUME WillBeHeld(M) PROVE WillBeHeld(L)
    <2>1. CASE M.held = "yes" /\ \A i \in 1 .. Len(M.oq) : M.oq[i] = "x"
      BY <1>1, <1>2, <1>3, <2>1 DEF WillBeHeld
    <2>2. CASE \E i \in 1 .. Len(M.oq) :
                 M.oq[i] = "stop" /\ \A j \in i + 1 .. Len(M.oq) : M.oq[j] = "x"
      <3>1. PICK i \in 1 .. Len(M.oq) :
              M.oq[i] = "stop" /\ \A j \in i + 1 .. Len(M.oq) : M.oq[j] = "x"
        BY <2>2
      <3>2. i \in 1 .. Len(L.oq) /\ L.oq[i] = "stop"
        BY <1>1, <1>2, <1>3, <3>1
      <3>3. \A j \in i + 1 .. Len(L.oq) : L.oq[j] = "x"
        BY <1>1, <1>2, <1>3, <3>1
      <3> QED
        BY <3>2, <3>3 DEF WillBeHeld
    <2> QED
      BY <1>5, <2>1, <2>2 DEF WillBeHeld
  <1> QED
    BY <1>1, <1>2, <1>3, <1>4, <1>5 DEF Adds

\* Input is delivered: a reader that sleeps is woken.
LEMMA DeliveredLine ==
  ASSUME NEW L \in Lines, NEW n \in Nat, L.iq + n <= MaxIn, MaxIn \in Nat
  PROVE  LET M == Delivered(L, n)
         IN  /\ M \in Lines /\ Keeps(L, M) /\ M.oq = L.oq /\ M.held = L.held
             /\ M.iq = L.iq + n /\ M.flags \union {"T_INPUT"} = L.flags \union {"T_INPUT"}
  <1> DEFINE M == [L EXCEPT !.iq = L.iq + n]
  <1>1. /\ M \in Lines /\ M.oq = L.oq /\ M.held = L.held /\ M.iq = L.iq + n
        /\ M.flags = L.flags /\ M.wake = L.wake
    BY DEF Lines
  <1> HIDE DEF M
  <1>2. CASE "T_INPUT" \in L.flags
    <2> DEFINE N == Wake(Clear(M, "T_INPUT"), "iq")
    <2>1. "T_INPUT" \in Flags /\ "iq" \in Channels
      BY DEF Flags, Channels
    <2>2. /\ N \in Lines /\ N.oq = M.oq /\ N.held = M.held /\ N.iq = M.iq
          /\ N.flags = M.flags \ {"T_INPUT"} /\ N.wake = M.wake \union {"iq"}
      BY <1>1, <2>1, ClearWakeLine DEF Same
    <2>3. Delivered(L, n) = N
      BY <1>1, <1>2 DEF Delivered, M
    <2> HIDE DEF N
    <2>4. Keeps(L, N)
      BY <1>1, <2>2 DEF Keeps, WriteSleeps, DrainSleeps
    <2> QED
      BY <1>1, <2>2, <2>3, <2>4
  <1>3. CASE "T_INPUT" \notin L.flags
    <2>1. Delivered(L, n) = M
      BY <1>1, <1>3 DEF Delivered, M
    <2>2. Keeps(L, M)
      BY <1>1, <1>3 DEF Keeps, ReadSleeps, WriteSleeps, DrainSleeps
    <2> QED
      BY <1>1, <2>1, <2>2
  <1> QED
    BY <1>2, <1>3

\* The marks of the input queue: a stop is one of a full queue, and known.
LEMMA LimitsLine ==
  ASSUME NEW L \in Lines, setup \in SetupType, NEW M \in Limits(L)
  PROVE  /\ M \in Lines /\ Keeps(L, M) /\ Len(M.oq) <= Len(L.oq) + 1
         /\ Full(L) => Full(M)
         /\ "T_TSTOP" \in M.flags \/ (Known(L) => Known(M))
  <1>0. /\ Len(L.oq) \in Nat /\ L.iq \in Nat /\ {"T_TSTOP", "T_ISTOP"} \subseteq Flags
        /\ "stop" \in Chars
    BY DEF Lines, Flags, Chars, SetupType, MaxIn
  <1>1. CASE L.iq >= IHILIM
    <2>1. M = Set(L, "T_ISTOP")
      BY <1>1 DEF Limits
    <2>2. /\ M \in Lines /\ M.oq = L.oq /\ M.iq = L.iq /\ M.held = L.held
          /\ M.flags = L.flags \union {"T_ISTOP"} /\ M.wake = L.wake
      BY <1>0, <2>1, SetLine DEF Same
    <2>3. Keeps(L, M)
      BY <2>2 DEF Keeps, ReadSleeps, WriteSleeps, DrainSleeps
    <2>4. Full(M)
      BY <1>0, <1>1, <2>2, TtyAssumption DEF Full
    <2>5. Known(L) => Known(M)
      BY <2>2 DEF Known, WillBeHeld
    <2> QED
      BY <1>0, <2>2, <2>3, <2>4, <2>5
  <1>2. CASE L.iq < IHILIM /\ L.iq >= ITSLIM /\ M \in Echo(Set(L, "T_TSTOP"), "stop")
    <2> DEFINE S == Set(L, "T_TSTOP")
    <2>1. /\ S \in Lines /\ S.oq = L.oq /\ S.iq = L.iq /\ S.held = L.held
          /\ S.flags = L.flags \union {"T_TSTOP"} /\ S.wake = L.wake
      BY <1>0, SetLine DEF Same
    <2> HIDE DEF S
    <2>2. Keeps(L, S)
      BY <2>1 DEF Keeps, ReadSleeps, WriteSleeps, DrainSleeps
    <2>3. PICK A \in putq(S, "stop") : M \in ttstart(A)
      BY <1>2 DEF Echo, S
    <2>4. /\ A \in Lines /\ Keeps(S, A) /\ A.iq = S.iq /\ A.flags = S.flags
          /\ Len(A.oq) <= Len(S.oq) + 1
      <3>1. CASE A = [S EXCEPT !.oq = Append(S.oq, "stop")]
        <4>1. A \in Lines /\ Keeps(S, A) /\ A.iq = S.iq /\ A.flags = S.flags
              /\ Len(A.oq) = Len(S.oq) + 1
          BY <1>0, <2>1, <3>1, AppendLine
        <4> QED
          BY <1>0, <2>1, <4>1
      <3>2. CASE A = S
        BY <1>0, <2>1, <3>2 DEF Keeps
      <3> QED
        BY <2>3, <3>1, <3>2 DEF putq
    <2>5. Adds(A, M, 0)
      BY <2>3, <2>4, ttstartAdds
    <2>6. M \in Lines /\ Keeps(A, M) /\ M.iq = A.iq /\ "T_TSTOP" \in M.flags
          /\ Len(M.oq) <= Len(A.oq)
      <3>1. Len(A.oq) \in Nat
        BY <2>4 DEF Lines
      <3> QED
        BY <2>1, <2>4, <2>5, <3>1 DEF Adds
    <2>7. Keeps(L, M)
      BY <2>1, <2>2, <2>4, <2>6, KeepsTrans
    <2>8. Full(M)
      BY <1>0, <1>2, <2>1, <2>4, <2>6, TtyAssumption DEF Full
    <2>9. Len(M.oq) <= Len(L.oq) + 1
      <3>1. Len(A.oq) \in Nat /\ Len(M.oq) \in Nat
        BY <2>4, <2>6 DEF Lines
      <3> QED
        BY <1>0, <2>1, <2>4, <2>6, <3>1
    <2> QED
      BY <2>6, <2>7, <2>8, <2>9
  <1>3. CASE M = L
    BY <1>0, <1>3 DEF Keeps
  <1>4. \/ M = L \/ L.iq >= IHILIM
        \/ L.iq < IHILIM /\ L.iq >= ITSLIM /\ M \in Echo(Set(L, "T_TSTOP"), "stop")
    BY <1>0, TtyAssumption DEF Limits
  <1> QED
    BY <1>1, <1>2, <1>3, <1>4

-----------------------------------------------------------------------------
(* What a step does to the line is fine.                                   *)

LEMMA SizeAdds ==
  ASSUME NEW L \in Lines, NEW M, NEW n \in Nat, Adds(L, M, n)
  PROVE  Size(M) <= Size(L) + n /\ Size(M) \in Nat /\ Size(L) \in Nat
  <1>1. Len(L.oq) \in Nat /\ Len(M.oq) \in Nat
    BY DEF Adds, Lines
  <1> DEFINE t == IF "T_TSTOP" \in L.flags THEN 1 ELSE 0
  <1>2. t \in Nat /\ Size(L) = Len(L.oq) + t /\ Size(M) = Len(M.oq) + t
    BY DEF Adds, Size
  <1>3. Len(M.oq) <= Len(L.oq) + n
    BY DEF Adds
  <1> HIDE DEF t
  <1> QED
    BY <1>1, <1>2, <1>3

LEMMA SizeLow ==
  ASSUME setup \in SetupType, NEW L \in Lines, NEW n \in Nat, NEW k \in Nat,
         Len(L.oq) <= n + k, n <= MaxOut, k <= MaxEdit + 1
  PROVE  Size(L) <= MaxOut + MaxEdit + 2
  <1>1. Len(L.oq) \in Nat /\ MaxOut \in Nat /\ MaxEdit \in Nat
    BY TtyAssumption DEF Lines, SetupType, MaxEdit
  <1> DEFINE t == IF "T_TSTOP" \in L.flags THEN 1 ELSE 0
  <1>2. t \in {0, 1} /\ Size(L) = Len(L.oq) + t
    BY DEF Size
  <1> HIDE DEF t
  <1> QED
    BY <1>1, <1>2

LEMMA AddsFine ==
  ASSUME IInv, NEW p \in Procs, NEW l, NEW L, Adds(line, L, 0),
         pc[p] = "rclist" => l = "rclist",
         l \in Clists => pc[p] \in Clists
  PROVE  Fine(p, l, L)
  <1>1. line \in Lines /\ L \in Lines /\ Keeps(line, L)
    BY LineTypes DEF IInv, Adds
  <1>2. Full(L)
    BY DEF Adds, Full, IInv
  <1>3. Known(line) => Known(L)
    BY DEF Adds, Known
  <1>4. Size(L) <= Size(line)
    <2>1. 0 \in Nat
      OBVIOUS
    <2>2. Size(L) <= Size(line) + 0 /\ Size(L) \in Nat /\ Size(line) \in Nat
      BY <1>1, <2>1, SizeAdds
    <2> QED
      BY <2>2
  <1> QED
    BY <1>1, <1>2, <1>3, <1>4 DEF Fine

LEMMA FlushFine ==
  ASSUME IInv, NEW p \in Procs, NEW l, NEW L \in Lines, {"iq", "oq"} \subseteq L.wake,
         L.oq = <<>>, ~WillBeHeld(L), {"T_ISTOP", "T_TSTOP"} \intersect L.flags = {}
  PROVE  Fine(p, l, L)
  <1>1. line.wake = {} /\ setup \in SetupType
    BY LineTypes DEF IInv
  <1>2. Keeps(line, L) /\ Full(L)
    BY <1>1 DEF Keeps, Full
  <1>3. Size(L) <= MaxOut + MaxEdit + 2
    BY <1>1, TtyAssumption DEF Size, SetupType, MaxEdit
  <1> QED
    BY <1>2, <1>3 DEF Fine

-----------------------------------------------------------------------------
(* The steps of processes.                                                 *)

LEMMA AroundSame ==
  ASSUME IInv, setup' = setup, UNCHANGED <<mode, topen, hardware>>
  PROVE  Around /\ topen' = topen
  BY DEF IInv, TypeInv, Around, hardware

LEMMA ttstartFine ==
  ASSUME IInv, NEW p \in Procs, NEW l, NEW L \in {line} \union ttstart(line),
         pc[p] = "rclist" => l = "rclist",
         l \in Clists => pc[p] \in Clists
  PROVE  Fine(p, l, L)
  <1>1. line \in Lines /\ setup \in SetupType
    BY LineTypes DEF IInv
  <1>2. Adds(line, L, 0)
    BY <1>1, AddsNone, ttstartAdds
  <1> QED
    BY <1>2, AddsFine

LEMMA waitqIInv ==
  ASSUME IInv, setup' = setup, NEW p \in Procs, waitq(p)
  PROVE  IInv'
  <1>1. /\ pc[p] \in Clists /\ p \notin asleep /\ Sleeps(p, pc[p], line)
        /\ UNCHANGED <<mode, topen, hardware>>
    BY DEF waitq, At, Clists
  <1>2. Around /\ topen' = topen
    BY <1>1, AroundSame
  <1>3. pc[p] \in Locs /\ Rightly(line, pc[p])
    BY <1>1 DEF Clists, Locs, Rightly, Drains
  <1>4. Fine(p, pc[p], line)
    BY ttstartFine
  <1>5. pc[p] \in Writes => cnt[p] >= 1
    BY DEF IInv, CntInv
  <1>6. Counted(p, pc[p])
    BY <1>2 DEF Counted
  <1> QED
    BY <1>1, <1>2, <1>3, <1>4, <1>5, <1>6, SleepsIInv

LEMMA InterruptedIInv ==
  ASSUME IInv, setup' = setup, NEW p \in Procs,
         Interrupted(p) \/ ttreadEnd(p) \/ ttwriteIntr(p) \/ TIOCSETN(p)
  PROVE  IInv'
  <1>1. PICK l \in {"user", "closed"} :
          /\ pc[p] \in {"rd", "opening", "rnext", "whigh", "user"}
          /\ p \notin asleep /\ Returns(p, l, line)
          /\ pc[p] = "opening" <=> l = "closed"
    BY DEF Interrupted, ttreadEnd, ttwriteIntr, TIOCSETN, At
  <1>2. Around /\ topen' = topen
    <2>1. CASE TIOCSETN(p)
      <3>1. mode' \in {"cooked", "cbreak", "raw"}
        BY <2>1, LineTypes DEF IInv, TIOCSETN, SetupType, Modes
      <3> QED
        BY <2>1, <3>1 DEF TIOCSETN, IInv, TypeInv, Around, hardware
    <2>2. CASE ~TIOCSETN(p)
      BY <2>2, AroundSame DEF Interrupted, ttreadEnd, ttwriteIntr
    <2> QED
      BY <2>1, <2>2
  <1>3. Fine(p, l, line)
    BY <1>1, ttstartFine DEF Clists
  <1>4. Counted(p, l)
    BY <1>1, <1>2 DEF Counted, Outside
  <1> QED
    BY <1>1, <1>2, <1>3, <1>4, ReturnsIInv

LEMMA ttreadWaitIInv ==
  ASSUME IInv, setup' = setup, NEW p \in Procs, ttreadWait(p)
  PROVE  IInv'
  <1>1. pc[p] \in {"user", "rnext", "rd"} /\ p \notin asleep /\ line.iq = 0
    BY DEF ttreadWait, InRead, At
  <1>2. Around /\ topen' = topen
    BY AroundSame DEF ttreadWait
  <1>3. CASE Returns(p, "user", line)
    <2>1. Fine(p, "user", line)
      BY <1>1, ttstartFine DEF Clists
    <2>2. Counted(p, "user")
      BY <1>1, <1>2 DEF Counted, Outside
    <2> QED
      BY <1>1, <1>2, <1>3, <2>1, <2>2, ReturnsIInv
  <1>4. CASE "T_CARR" \in line.flags /\ Sleeps(p, "rd", Set(line, "T_INPUT"))
    <2>1. line \in Lines /\ "T_INPUT" \in Flags \ {"T_ISTOP", "T_TSTOP"}
      BY LineTypes DEF IInv, Flags
    <2>2. Fine(p, "rd", Set(line, "T_INPUT"))
      BY <1>1, <2>1, SetAdds, AddsFine DEF Clists
    <2>3. Rightly(Set(line, "T_INPUT"), "rd")
      BY <1>1, <1>4, <2>1, SetLine DEF Rightly, ReadSleeps, Same, Drains
    <2>4. Counted(p, "rd") /\ "rd" \in Locs /\ "rd" \notin Writes
      BY <1>1, <1>2 DEF Counted, Outside, Locs, Writes
    <2> QED
      BY <1>1, <1>2, <1>4, <2>2, <2>3, <2>4, SleepsIInv
  <1> QED
    BY <1>3, <1>4 DEF ttreadWait

\* The start character: it was owed, or a process waits to put it.
LEMMA ResumeIInv ==
  ASSUME IInv, Around, topen' = topen, NEW p \in Procs, p \notin asleep,
         pc[p] \in {"user", "rnext", "rd", "rclist"},
         NEW M \in Lines, Keeps(line, M), Full(M),
         Size(M) + 1 <= Size(line) \/ (Size(M) <= Size(line) /\ pc[p] = "rclist"),
         Resume(p, M)
  PROVE  IInv'
  <1>0. setup \in SetupType /\ line \in Lines /\ 1 \in 0 .. MaxWrite
    BY LineTypes DEF IInv, SetupType, MaxWrite
  <1>1. Counted(p, "rnext") /\ Counted(p, "rclist")
    BY DEF Counted, Outside
  <1>2. {"rnext", "rclist"} \subseteq Locs /\ {"rnext", "rclist"} \intersect Writes = {}
    BY DEF Locs, Writes
  <1>3. Size(line) \in Nat /\ Size(M) \in Nat
    BY <1>0 DEF Size, Lines
  <1>4. CASE \E A \in Queued(M, "start") : \E N \in ttstart(A) : GoesOn(p, "rnext", N, 1)
    <2>0. PICK A \in Queued(M, "start") : \E N \in ttstart(A) : GoesOn(p, "rnext", N, 1)
      BY <1>4
    <2>1. PICK N \in ttstart(A) : GoesOn(p, "rnext", N, 1)
      BY <2>0
    <2>2. Adds(M, A, 1) /\ ~WillBeHeld(A)
      BY <1>0, QueuedAdds
    <2>3. Adds(A, N, 0)
      BY <1>0, <2>2, ttstartAdds DEF Adds
    <2>4. Adds(M, N, 1 + 0)
      BY <2>2, <2>3, AddsTrans
    <2>5. N \in Lines /\ Keeps(line, N) /\ Full(N) /\ ~WillBeHeld(N)
      <3>1. N \in Lines /\ Keeps(M, N) /\ ~WillBeHeld(N)
        BY <2>2, <2>3, <2>4 DEF Adds
      <3>2. Full(N)
        BY <2>4 DEF Adds, Full
      <3> QED
        BY <1>0, <3>1, <3>2, KeepsTrans
    <2>6. Size(N) <= Size(M) + 1 /\ Size(N) \in Nat
      BY <2>4, SizeAdds
    <2>7. Fine(p, "rnext", N)
      BY <1>3, <2>5, <2>6 DEF Fine, Clists
    <2> QED
      BY <1>0, <1>1, <1>2, <2>1, <2>7, GoesOnIInv
  <1>5. CASE \E A \in NoRoom(M) : Sleeps(p, "rclist", A)
    <2>1. PICK A \in NoRoom(M) : Sleeps(p, "rclist", A)
      BY <1>5
    <2>2. Adds(M, A, 0)
      BY <1>0, NoRoomAdds
    <2>3. A \in Lines /\ Keeps(line, A) /\ Full(A)
      <3>1. A \in Lines /\ Keeps(M, A)
        BY <2>2 DEF Adds
      <3>2. Full(A)
        BY <2>2 DEF Adds, Full
      <3> QED
        BY <1>0, <3>1, <3>2, KeepsTrans
    <2>4. Size(A) <= Size(M) + 0 /\ Size(A) \in Nat
      BY <2>2, SizeAdds
    <2>5. Fine(p, "rclist", A)
      BY <1>3, <2>3, <2>4 DEF Fine, Clists
    <2>6. Rightly(A, "rclist")
      BY DEF Rightly, Drains
    <2> QED
      BY <1>1, <1>2, <2>1, <2>5, <2>6, SleepsIInv
  <1> QED
    BY <1>4, <1>5 DEF Resume

LEMMA ttreadGoOnIInv ==
  ASSUME IInv, setup' = setup, NEW p \in Procs, ttreadGoOn(p)
  PROVE  IInv'
  <1>1. line \in Lines /\ Keeps(line, line) /\ Full(line)
    BY LineTypes DEF IInv, Keeps
  <1>2. Around /\ topen' = topen
    BY AroundSame DEF ttreadGoOn
  <1>3. Size(line) <= Size(line)
    BY <1>1 DEF Size, Lines
  <1> QED
    BY <1>1, <1>2, <1>3, ResumeIInv DEF ttreadGoOn, At

LEMMA ttreadCharIInv ==
  ASSUME IInv, setup' = setup, NEW p \in Procs, ttreadChar(p)
  PROVE  IInv'
  <1>1. pc[p] \in {"user", "rnext", "rd"} /\ p \notin asleep /\ line.iq > 0
    BY DEF ttreadChar, InRead, At
  <1>2. Around /\ topen' = topen
    BY AroundSame DEF ttreadChar
  <1>3. setup \in SetupType /\ line \in Lines /\ 1 \in 0 .. MaxWrite
    BY LineTypes DEF IInv, SetupType, MaxWrite
  <1>4. Counted(p, "rnext") /\ "rnext" \in Locs /\ "rnext" \notin Writes
    BY <1>1, <1>2 DEF Counted, Outside, Locs, Writes
  <1> DEFINE T == [line EXCEPT !.iq = line.iq - 1]
  <1>5. /\ T \in Lines /\ T.flags = line.flags /\ T.oq = line.oq /\ T.iq = line.iq - 1
        /\ T.held = line.held /\ T.wake = line.wake /\ T.iq \in Nat
    BY <1>1, <1>3 DEF Lines, SetupType, MaxIn
  <1>6. PICK L \in Freed(T) :
          IF L.iq > ILOLIM THEN GoesOn(p, "rnext", L, 1)
          ELSE LET M == Clear(Clear(L, "T_ISTOP"), "T_TSTOP")
               IN  IF "T_TSTOP" \in L.flags THEN Resume(p, M)
                                            ELSE GoesOn(p, "rnext", M, 1)
    BY DEF ttreadChar
  <1> HIDE DEF T
  <1>7. /\ L \in Lines /\ L.flags = line.flags /\ L.oq = line.oq /\ L.iq \in Nat
        /\ L.held = line.held /\ line.wake \subseteq L.wake
    BY <1>5, FreedLine
  <1>8. Len(line.oq) \in Nat /\ Size(line) \in Nat
    BY <1>3 DEF Lines, Size
  <1>9. CASE L.iq > ILOLIM
    <2>1. GoesOn(p, "rnext", L, 1)
      BY <1>6, <1>9
    <2>2. Keeps(line, L)
      BY <1>1, <1>7 DEF Keeps, ReadSleeps, WriteSleeps, DrainSleeps
    <2>3. Full(L)
      BY <1>9 DEF Full
    <2>4. Known(line) => Known(L)
      BY <1>7 DEF Known, WillBeHeld
    <2>5. Size(L) <= Size(line)
      BY <1>7, <1>8 DEF Size
    <2>6. Fine(p, "rnext", L)
      BY <1>1, <1>7, <2>2, <2>3, <2>4, <2>5 DEF Fine, Clists
    <2> QED
      BY <1>1, <1>2, <1>3, <1>4, <2>1, <2>6, GoesOnIInv
  <1>10. CASE ~(L.iq > ILOLIM)
    <2> DEFINE K == Clear(L, "T_ISTOP")
               M == Clear(K, "T_TSTOP")
    <2>1. "T_ISTOP" \in Flags /\ "T_TSTOP" \in Flags
      BY DEF Flags
    <2>2. K \in Lines /\ Same(L, K) /\ K.flags = L.flags \ {"T_ISTOP"} /\ K.wake = L.wake
      BY <1>7, <2>1, ClearLine
    <2>3. M \in Lines /\ Same(K, M) /\ M.flags = K.flags \ {"T_TSTOP"} /\ M.wake = K.wake
      BY <2>1, <2>2, ClearLine
    <2>4. /\ M.oq = line.oq /\ M.held = line.held /\ line.wake \subseteq M.wake
          /\ M.flags = line.flags \ {"T_ISTOP", "T_TSTOP"}
      BY <1>7, <2>2, <2>3 DEF Same
    <2>5. IF "T_TSTOP" \in L.flags THEN Resume(p, M) ELSE GoesOn(p, "rnext", M, 1)
      BY <1>6, <1>10
    <2> HIDE DEF K, M
    <2>6. Keeps(line, M)
      BY <1>1, <2>4 DEF Keeps, ReadSleeps, WriteSleeps, DrainSleeps
    <2>7. Full(M)
      BY <2>4 DEF Full
    <2>8. CASE "T_TSTOP" \in L.flags
      <3>1. Size(M) + 1 <= Size(line)
        BY <1>7, <1>8, <2>4, <2>8 DEF Size
      <3>2. Resume(p, M)
        BY <2>5, <2>8
      <3> QED
        BY <1>1, <1>2, <2>3, <2>6, <2>7, <3>1, <3>2, ResumeIInv
    <2>9. CASE "T_TSTOP" \notin L.flags
      <3>1. GoesOn(p, "rnext", M, 1)
        BY <2>5, <2>9
      <3>2. Known(line) => Known(M)
        BY <1>7, <2>4, <2>9 DEF Known, WillBeHeld
      <3>3. Size(M) <= Size(line)
        BY <1>7, <1>8, <2>4, <2>9 DEF Size
      <3>4. Fine(p, "rnext", M)
        BY <1>1, <2>3, <2>6, <2>7, <3>2, <3>3 DEF Fine, Clists
      <3> QED
        BY <1>1, <1>2, <1>3, <1>4, <3>1, <3>4, GoesOnIInv
    <2> QED
      BY <2>8, <2>9
  <1> QED
    BY <1>9, <1>10

LEMMA ttwriteIInv ==
  ASSUME IInv, setup' = setup, NEW p \in Procs, ttwrite(p)
  PROVE  IInv'
  <1>1. PICK n \in 1 .. MaxWrite : GoesOn(p, "wnext", line, n)
    BY DEF ttwrite
  <1>2. pc[p] = "user" /\ p \notin asleep
    BY DEF ttwrite, At
  <1>3. Around /\ topen' = topen
    BY AroundSame DEF ttwrite
  <1>4. n \in 0 .. MaxWrite
    BY <1>1, LineTypes DEF IInv, SetupType, MaxWrite
  <1>5. Fine(p, "wnext", line)
    BY <1>2, ttstartFine DEF Clists
  <1>6. Counted(p, "wnext") /\ "wnext" \in Locs /\ "wnext" \notin Writes
    BY <1>2, <1>3 DEF Counted, Outside, Locs, Writes
  <1> QED
    BY <1>1, <1>2, <1>3, <1>4, <1>5, <1>6, GoesOnIInv

LEMMA ttwriteNextIInv ==
  ASSUME IInv, setup' = setup, NEW p \in Procs, ttwriteNext(p)
  PROVE  IInv'
  <1>1. pc[p] = "wnext" /\ p \notin asleep
    BY DEF ttwriteNext, At
  <1>2. Around /\ topen' = topen
    BY AroundSame DEF ttwriteNext
  <1>3. cnt[p] \in 0 .. MaxWrite /\ MaxWrite \in Nat
    BY LineTypes DEF IInv, TypeInv, SetupType, MaxWrite
  <1>4. \/ \E L \in {line} \union ttstart(line) : Returns(p, "user", L)
        \/ cnt[p] >= 1 /\ GoesOn(p, "wput", line, cnt[p])
    <2>1. CASE cnt[p] = 0
      BY <2>1 DEF ttwriteNext
    <2>2. CASE cnt[p] > 0 /\ "T_CARR" \notin line.flags
      BY <1>3, <2>2 DEF ttwriteNext
    <2>3. CASE cnt[p] > 0 /\ "T_CARR" \in line.flags
      BY <1>3, <2>3 DEF ttwriteNext
    <2> QED
      BY <1>3, <2>1, <2>2, <2>3
  <1>5. ASSUME NEW L \in {line} \union ttstart(line), Returns(p, "user", L) PROVE IInv'
    <2>1. Fine(p, "user", L)
      BY <1>1, ttstartFine DEF Clists
    <2>2. Counted(p, "user")
      BY <1>1, <1>2 DEF Counted, Outside
    <2> QED
      BY <1>1, <1>2, <1>5, <2>1, <2>2, ReturnsIInv
  <1>6. CASE cnt[p] >= 1 /\ GoesOn(p, "wput", line, cnt[p])
    <2>1. Fine(p, "wput", line)
      BY <1>1, ttstartFine DEF Clists
    <2>2. Counted(p, "wput") /\ "wput" \in Locs
      BY <1>1, <1>2 DEF Counted, Outside, Locs
    <2> QED
      BY <1>1, <1>2, <1>3, <1>6, <2>1, <2>2, GoesOnIInv
  <1> QED
    BY <1>4, <1>5, <1>6

\* A character is put below the high mark, or it had its place already.
LEMMA EnqueueIInv ==
  ASSUME IInv, Around, topen' = topen, NEW p \in Procs, p \notin asleep,
         pc[p] \in Writes, NEW L, Adds(line, L, 0),
         Len(L.oq) < OHILIM \/ (pc[p] = "wclist" /\ ~L.short),
         Enqueue(p, L)
  PROVE  IInv'
  <1>0. /\ setup \in SetupType /\ line \in Lines /\ L \in Lines /\ MaxEdit \in Nat
        /\ OHILIM \in Nat /\ MaxOut \in Nat /\ OHILIM <= MaxOut
    BY LineTypes, TtyAssumption DEF IInv, SetupType, MaxEdit, Adds
  <1>1. cnt[p] \in 1 .. MaxWrite /\ MaxWrite \in Nat
    BY <1>0 DEF IInv, CntInv, TypeInv, SetupType, MaxWrite
  <1>2. Size(line) \in Nat /\ Len(L.oq) \in Nat /\ Len(line.oq) \in Nat
    BY <1>0 DEF Size, Lines
  <1>3. pc[p] # "rclist" /\ pc[p] \notin Outside
    BY DEF Writes, Outside
  <1>4. ASSUME NEW M, NEW k \in {0, 1}, Adds(line, M, k)
        PROVE  /\ M \in Lines /\ Keeps(line, M) /\ Full(M) /\ (Known(line) => Known(M))
               /\ Size(M) <= Size(line) + k
    <2>1. M \in Lines /\ Keeps(line, M)
      BY <1>4 DEF Adds
    <2>2. Full(M)
      BY <1>4 DEF Adds, Full, IInv
    <2>3. Known(line) => Known(M)
      BY <1>4 DEF Adds, Known
    <2> QED
      BY <1>0, <1>4, <2>1, <2>2, <2>3, SizeAdds
  <1>5. CASE \E M \in Queued(L, "x") : GoesOn(p, "wnext", M, cnt[p] - 1)
    <2>1. PICK M \in Queued(L, "x") : GoesOn(p, "wnext", M, cnt[p] - 1)
      BY <1>5
    <2>2. Adds(L, M, 1)
      BY <1>0, QueuedAdds
    <2>3. Adds(line, M, 0 + 1)
      BY <1>0, <2>2, AddsTrans
    <2>4. /\ M \in Lines /\ Keeps(line, M) /\ Full(M) /\ (Known(line) => Known(M))
          /\ Size(M) <= Size(line) + 1
      BY <1>4, <2>3
    <2>5. \/ Size(M) <= MaxOut + MaxEdit + 2
          \/ Size(M) <= Size(line) + 1 /\ pc[p] \in Clists /\ "wnext" \notin Clists
      <3>1. CASE Len(L.oq) < OHILIM
        <4>1. Len(M.oq) <= Len(L.oq) + 1 /\ Len(L.oq) <= MaxOut /\ 1 <= MaxEdit + 1
          BY <1>0, <1>2, <2>2, <3>1 DEF Adds
        <4> QED
          BY <1>0, <1>2, <2>4, <4>1, SizeLow
      <3>2. CASE pc[p] = "wclist"
        BY <2>4, <3>2 DEF Clists
      <3> QED
        BY <3>1, <3>2
    <2>6. Fine(p, "wnext", M)
      BY <1>3, <2>4, <2>5 DEF Fine
    <2>7. Counted(p, "wnext") /\ "wnext" \in Locs /\ "wnext" \notin Writes
      BY <1>3 DEF Counted, Outside, Locs, Writes
    <2>8. cnt[p] - 1 \in 0 .. MaxWrite
      BY <1>1
    <2> QED
      BY <2>1, <2>6, <2>7, <2>8, GoesOnIInv
  <1>6. CASE \E M \in NoRoom(L) : Sleeps(p, "wclist", M)
    <2>1. PICK M \in NoRoom(L) : Sleeps(p, "wclist", M)
      BY <1>6
    <2>2. L.short /\ Adds(L, M, 0)
      BY <1>0, NoRoomAdds DEF NoRoom
    <2>3. Adds(line, M, 0 + 0)
      BY <1>0, <2>2, AddsTrans
    <2>4. M \in Lines /\ Keeps(line, M) /\ Full(M) /\ (Known(line) => Known(M))
      BY <1>4, <2>3
    <2>5. Size(M) <= MaxOut + MaxEdit + 2
      <3>1. Len(M.oq) <= Len(L.oq) + 0 /\ Len(L.oq) <= MaxOut /\ 0 <= MaxEdit + 1
        BY <1>0, <1>2, <2>2 DEF Adds
      <3> QED
        BY <1>0, <1>2, <2>4, <3>1, SizeLow
    <2>6. Fine(p, "wclist", M)
      BY <1>3, <2>4, <2>5 DEF Fine
    <2>7. Counted(p, "wclist") /\ "wclist" \in Locs /\ Rightly(M, "wclist")
      BY <1>3 DEF Counted, Outside, Locs, Rightly, Drains
    <2>8. cnt[p] >= 1
      BY <1>1
    <2> QED
      BY <2>1, <2>6, <2>7, <2>8, SleepsIInv
  <1> QED
    BY <1>5, <1>6 DEF Enqueue

LEMMA ttwritePutIInv ==
  ASSUME IInv, setup' = setup, NEW p \in Procs, ttwritePut(p)
  PROVE  IInv'
  <1>1. pc[p] \in {"wput", "whigh"} /\ pc[p] \in Writes /\ p \notin asleep
    BY DEF ttwritePut, At, Writes
  <1>2. Around /\ topen' = topen
    BY AroundSame DEF ttwritePut
  <1>3. setup \in SetupType /\ line \in Lines
    BY LineTypes DEF IInv
  <1>4. CASE Len(line.oq) < OHILIM
    <2>1. Enqueue(p, line)
      BY <1>4 DEF ttwritePut
    <2> QED
      BY <1>1, <1>2, <1>3, <1>4, <2>1, AddsNone, EnqueueIInv
  <1>5. CASE ~(Len(line.oq) < OHILIM)
    <2>1. PICK L \in ttstart(line) :
            IF Len(L.oq) < OHILIM THEN Enqueue(p, L)
                                  ELSE Sleeps(p, "whigh", Set(L, "T_HILIM"))
      BY <1>5 DEF ttwritePut
    <2>2. Adds(line, L, 0) /\ L \in Lines
      BY <1>3, ttstartAdds DEF Adds
    <2>3. CASE Len(L.oq) < OHILIM
      <3>1. Enqueue(p, L)
        BY <2>1, <2>3
      <3> QED
        BY <1>1, <1>2, <2>2, <2>3, <3>1, EnqueueIInv
    <2>4. CASE ~(Len(L.oq) < OHILIM)
      <3> DEFINE M == Set(L, "T_HILIM")
      <3>1. Sleeps(p, "whigh", M)
        BY <2>1, <2>4
      <3>2. "T_HILIM" \in Flags \ {"T_ISTOP", "T_TSTOP"}
        BY DEF Flags
      <3>3. Adds(L, M, 0) /\ M.oq = L.oq /\ "T_HILIM" \in M.flags
        BY <2>2, <3>2, SetAdds, SetLine DEF Same
      <3> HIDE DEF M
      <3>4. Adds(line, M, 0 + 0)
        BY <1>3, <2>2, <3>3, AddsTrans
      <3>5. Fine(p, "whigh", M)
        BY <1>1, <3>4, AddsFine DEF Clists
      <3>6. Rightly(M, "whigh")
        <4>1. Len(L.oq) \in Nat
          BY <2>2 DEF Lines
        <4> QED
          BY <2>4, <3>3, <4>1, TtyAssumption DEF Rightly, WriteSleeps, Drains
      <3>7. Counted(p, "whigh") /\ "whigh" \in Locs /\ cnt[p] >= 1
        BY <1>1, <1>2 DEF Counted, Outside, Locs, IInv, CntInv
      <3> QED
        BY <1>1, <1>2, <3>1, <3>5, <3>6, <3>7, SleepsIInv
    <2> QED
      BY <2>3, <2>4
  <1> QED
    BY <1>4, <1>5

LEMMA ttwriteGoOnIInv ==
  ASSUME IInv, setup' = setup, NEW p \in Procs, ttwriteGoOn(p)
  PROVE  IInv'
  <1>1. pc[p] = "wclist" /\ pc[p] \in Writes /\ p \notin asleep /\ ~line.short
        /\ Enqueue(p, line)
    BY DEF ttwriteGoOn, At, Writes
  <1>2. Around /\ topen' = topen
    BY AroundSame DEF ttwriteGoOn
  <1>3. Adds(line, line, 0)
    BY LineTypes, AddsNone DEF IInv
  <1> QED
    BY <1>1, <1>2, <1>3, EnqueueIInv

-----------------------------------------------------------------------------
(* ttioctl, alclose and alopen.                                            *)

LEMMA AfterDrainIInv ==
  ASSUME IInv, setup' = setup, mode' \in {"cooked", "cbreak", "raw"},
         NEW p \in Procs, NEW l \in Drains, p \notin asleep, pc[p] \notin Clists,
         Counted(p, l), NEW L, Adds(line, L, 0), AfterDrain(p, l, L)
  PROVE  IInv'
  <1>0. setup \in SetupType /\ L \in Lines /\ TypeInv /\ pc[p] # "rclist"
    BY LineTypes DEF IInv, Adds, Clists
  <1>1. CASE l = "drain"
    <2>1. Returns(p, "user", L) /\ UNCHANGED hardware
      BY <1>1 DEF AfterDrain
    <2>2. Around
      BY <1>0, <2>1 DEF Around, TypeInv, hardware
    <2>3. Fine(p, "user", L)
      BY <1>0, AddsFine DEF Clists
    <2>4. Counted(p, "user")
      BY <1>1 DEF Counted, Outside
    <2> QED
      BY <2>1, <2>2, <2>3, <2>4, ReturnsIInv
  <1>2. CASE l = "drainflush"
    <2>1. (\E M \in ttflush(L) : Returns(p, "user", M)) /\ UNCHANGED hardware
      BY <1>2 DEF AfterDrain
    <2>2. PICK M \in ttflush(L) : Returns(p, "user", M)
      BY <2>1
    <2>3. Around
      BY <1>0, <2>1 DEF Around, TypeInv, hardware
    <2>4. /\ M \in Lines /\ {"iq", "oq"} \subseteq M.wake /\ M.oq = <<>>
          /\ M.flags = L.flags \intersect T_SAVE /\ ~WillBeHeld(M)
      BY <1>0, ttflushLine
    <2>5. Fine(p, "user", M)
      BY <2>4, FlushFine DEF T_SAVE
    <2>6. Counted(p, "user")
      BY <1>2 DEF Counted, Outside
    <2> QED
      BY <2>2, <2>3, <2>5, <2>6, ReturnsIInv
  <1>3. CASE l = "cdrain"
    <2>1. /\ \E M \in ttflush(L) : Returns(p, "closed", [M EXCEPT !.flags = {}])
          /\ ie' = "none" /\ UNCHANGED dcd
      BY <1>3 DEF AfterDrain
    <2>2. PICK M \in ttflush(L) : Returns(p, "closed", [M EXCEPT !.flags = {}])
      BY <2>1
    <2>3. Around
      BY <1>0, <2>1 DEF Around, TypeInv
    <2>4. /\ M \in Lines /\ {"iq", "oq"} \subseteq M.wake /\ M.oq = <<>>
          /\ M.flags = L.flags \intersect T_SAVE /\ ~WillBeHeld(M)
      BY <1>0, ttflushLine
    <2> DEFINE N == [M EXCEPT !.flags = {}]
    <2>5. /\ N \in Lines /\ N.flags = {} /\ N.oq = M.oq /\ N.wake = M.wake
          /\ N.held = M.held
      BY <2>4 DEF Lines
    <2> HIDE DEF N
    <2>6. ~WillBeHeld(N)
      BY <2>4, <2>5 DEF WillBeHeld
    <2>7. Fine(p, "closed", N)
      BY <2>4, <2>5, <2>6, FlushFine
    <2>8. Counted(p, "closed")
      BY <1>3 DEF Counted, Outside
    <2>9. Returns(p, "closed", N)
      BY <2>2 DEF N
    <2> QED
      BY <2>3, <2>7, <2>8, <2>9, ReturnsIInv
  <1> QED
    BY <1>1, <1>2, <1>3 DEF Drains

LEMMA DrainIInv ==
  ASSUME IInv, setup' = setup, mode' \in {"cooked", "cbreak", "raw"},
         NEW p \in Procs, NEW l \in Drains, p \notin asleep, pc[p] \notin Clists,
         Counted(p, l), NEW L, Adds(line, L, 0), Drain(p, l, L)
  PROVE  IInv'
  <1>1. CASE L.oq = <<>>
    <2>1. AfterDrain(p, l, L)
      BY <1>1 DEF Drain
    <2> QED
      BY <2>1, AfterDrainIInv
  <1>2. CASE L.oq # <<>>
    <2> DEFINE M == Set(L, "T_DRAIN")
    <2>1. Sleeps(p, l, M) /\ UNCHANGED hardware
      BY <1>2 DEF Drain
    <2>2. Around
      BY <2>1 DEF Around, TypeInv, hardware, IInv
    <2>3. L \in Lines /\ line \in Lines /\ "T_DRAIN" \in Flags \ {"T_ISTOP", "T_TSTOP"}
      BY LineTypes DEF Adds, IInv, Flags
    <2>4. Adds(L, M, 0) /\ "T_DRAIN" \in M.flags
      BY <2>3, SetAdds, SetLine
    <2> HIDE DEF M
    <2>5. Adds(line, M, 0 + 0)
      BY <2>3, <2>4, AddsTrans
    <2>6. Fine(p, l, M)
      BY <2>5, AddsFine DEF Drains, Clists
    <2>7. Rightly(M, l) /\ l \in Locs /\ l \notin Writes
      BY <2>4 DEF Rightly, DrainSleeps, Drains, Locs, Writes
    <2> QED
      BY <2>1, <2>2, <2>6, <2>7, SleepsIInv
  <1> QED
    BY <1>1, <1>2

LEMMA DrainedIInv ==
  ASSUME IInv, setup' = setup, NEW p \in Procs, Drained(p)
  PROVE  IInv'
  <1>1. /\ pc[p] \in Drains /\ p \notin asleep /\ pc[p] \notin Clists
        /\ mode' \in {"cooked", "cbreak", "raw"} /\ topen' = topen
    BY DEF Drained, At, Drains, Clists, IInv, TypeInv
  <1>2. Counted(p, pc[p])
    BY <1>1 DEF Counted
  <1>3. Adds(line, line, 0)
    BY LineTypes, AddsNone DEF IInv
  <1>4. AfterDrain(p, pc[p], line) \/ Drain(p, pc[p], line)
    BY DEF Drained
  <1> QED
    BY <1>1, <1>2, <1>3, <1>4, AfterDrainIInv, DrainIInv

LEMMA TIOCSETPIInv ==
  ASSUME IInv, setup' = setup, NEW p \in Procs, TIOCSETP(p) \/ TIOCSETC(p)
  PROVE  IInv'
  <1>1. line \in Lines /\ setup \in SetupType
    BY LineTypes DEF IInv
  <1>2. pc[p] = "user" /\ p \notin asleep /\ pc[p] \notin Clists /\ topen' = topen
    BY DEF TIOCSETP, TIOCSETC, At, Clists
  <1>3. PICK m \in {"cooked", "cbreak", "raw"}, l \in {"drain", "drainflush"} :
          /\ mode' \in {"cooked", "cbreak", "raw"}
          /\ \E L \in Lifted(line, m) : Drain(p, l, L)
    <2>1. CASE TIOCSETP(p)
      <3>1. \A m \in Modes : m \in {"cooked", "cbreak", "raw"}
        BY <1>1 DEF SetupType, Modes
      <3>2. PICK m \in Modes : mode' = m /\ \E L \in Lifted(line, m) : Drain(p, "drainflush", L)
        BY <2>1 DEF TIOCSETP
      <3> QED
        BY <3>1, <3>2
    <2>2. CASE TIOCSETC(p)
      <3>1. mode \in {"cooked", "cbreak", "raw"} /\ mode' = mode
        BY <2>2 DEF TIOCSETC, IInv, TypeInv
      <3>2. \E L \in Lifted(line, mode) : Drain(p, "drain", L)
        BY <2>2 DEF TIOCSETC
      <3> QED
        BY <3>1, <3>2
    <2> QED
      BY <2>1, <2>2
  <1>4. PICK L \in Lifted(line, m) : Drain(p, l, L)
    BY <1>3
  <1>5. Adds(line, L, 0)
    BY <1>1, LiftedAdds
  <1>6. Counted(p, l) /\ l \in Drains
    BY <1>2 DEF Counted, Outside, Drains
  <1> QED
    BY <1>2, <1>3, <1>4, <1>5, <1>6, DrainIInv

LEMMA TIOCFLUSHIInv ==
  ASSUME IInv, setup' = setup, NEW p \in Procs, TIOCFLUSH(p)
  PROVE  IInv'
  <1>1. PICK L \in ttflush(line) : Returns(p, "user", L)
    BY DEF TIOCFLUSH
  <1>2. Around /\ topen' = topen
    BY AroundSame DEF TIOCFLUSH
  <1>3. pc[p] = "user" /\ p \notin asleep
    BY DEF TIOCFLUSH, At
  <1>4. /\ L \in Lines /\ {"iq", "oq"} \subseteq L.wake /\ L.oq = <<>>
        /\ L.flags = line.flags \intersect T_SAVE /\ ~WillBeHeld(L)
    BY LineTypes, ttflushLine DEF IInv
  <1>5. Fine(p, "user", L)
    BY <1>4, FlushFine DEF T_SAVE
  <1>6. Counted(p, "user")
    BY <1>2, <1>3 DEF Counted
  <1> QED
    BY <1>1, <1>2, <1>3, <1>5, <1>6, ReturnsIInv

LEMMA TIOCHPCLIInv ==
  ASSUME IInv, setup' = setup, NEW p \in Procs, TIOCHPCL(p)
  PROVE  IInv'
  <1>1. PICK L \in {Set(line, "T_HPCL"), Clear(line, "T_HPCL")} : Returns(p, "user", L)
    BY DEF TIOCHPCL
  <1>2. Around /\ topen' = topen
    BY AroundSame DEF TIOCHPCL
  <1>3. pc[p] = "user" /\ p \notin asleep
    BY DEF TIOCHPCL, At
  <1>4. line \in Lines /\ "T_HPCL" \in Flags \ {"T_ISTOP", "T_TSTOP"}
    BY LineTypes DEF IInv, Flags
  <1>5. Adds(line, L, 0)
    BY <1>1, <1>4, SetAdds, ClearAdds
  <1>6. Fine(p, "user", L)
    BY <1>3, <1>5, AddsFine DEF Clists
  <1>7. Counted(p, "user")
    BY <1>2, <1>3 DEF Counted
  <1> QED
    BY <1>1, <1>2, <1>3, <1>6, <1>7, ReturnsIInv

LEMMA alcloseIInv ==
  ASSUME IInv, setup' = setup, NEW p \in Procs, alclose(p)
  PROVE  IInv'
  <1>1. /\ pc[p] = "user" /\ p \notin asleep /\ pc[p] \notin Clists /\ topen' = topen - 1
        /\ mode' = mode /\ mode \in {"cooked", "cbreak", "raw"}
    BY DEF alclose, At, Clists, IInv, TypeInv
  <1>2. Adds(line, line, 0)
    BY LineTypes, AddsNone DEF IInv
  <1>3. Counted(p, "cdrain") /\ Counted(p, "closed")
    BY <1>1 DEF Counted, Outside
  <1>4. CASE Drain(p, "cdrain", line)
    BY <1>1, <1>2, <1>3, <1>4, DrainIInv DEF Drains
  <1>5. CASE Returns(p, "closed", line) /\ UNCHANGED hardware
    <2>1. Around
      BY <1>1, <1>5 DEF Around, IInv, TypeInv, hardware
    <2>2. Fine(p, "closed", line)
      BY <1>1, ttstartFine DEF Clists
    <2> QED
      BY <1>1, <1>3, <1>5, <2>1, <2>2, ReturnsIInv
  <1> QED
    BY <1>4, <1>5 DEF alclose

LEMMA OpenedIInv ==
  ASSUME IInv, setup' = setup, dcd' = dcd, NEW p \in Procs, p \notin asleep,
         pc[p] \in {"closed", "opening"}, NEW L, Adds(line, L, 0), Opened(p, L)
  PROVE  IInv'
  <1>1. L \in Lines /\ line \in Lines /\ "T_CARR" \in Flags \ {"T_ISTOP", "T_TSTOP"}
    BY LineTypes DEF IInv, Flags, Adds
  <1>2. Adds(L, Set(L, "T_CARR"), 0)
    BY <1>1, SetAdds
  <1>3. Adds(line, Set(L, "T_CARR"), 0 + 0)
    BY <1>1, <1>2, AddsTrans
  <1>4. Fine(p, "user", Set(L, "T_CARR"))
    BY <1>3, AddsFine DEF Clists
  <1>5. Around /\ Counted(p, "user")
    BY DEF Opened, Around, IInv, TypeInv, Counted, Outside
  <1>6. Returns(p, "user", Set(L, "T_CARR"))
    BY DEF Opened
  <1> QED
    BY <1>4, <1>5, <1>6, ReturnsIInv

LEMMA OpeningIInv ==
  ASSUME IInv, setup' = setup, dcd' = dcd, mode' = mode, topen' = topen,
         ie' \in {"none", "modem", "all"}, NEW p \in Procs, p \notin asleep,
         pc[p] \in {"closed", "opening"}, NEW L, Adds(line, L, 0), Sleeps(p, "opening", L)
  PROVE  IInv'
  <1>1. Fine(p, "opening", L)
    BY AddsFine DEF Clists
  <1>2. Around
    BY DEF Around, IInv, TypeInv
  <1>3. /\ Counted(p, "opening") /\ Rightly(L, "opening") /\ "opening" \in Locs
        /\ "opening" \notin Writes
    BY DEF Counted, Outside, Rightly, Locs, Writes, Drains
  <1> QED
    BY <1>1, <1>2, <1>3, SleepsIInv

LEMMA alopenIInv ==
  ASSUME IInv, setup' = setup, NEW p \in Procs, alopen(p)
  PROVE  IInv'
  <1> DEFINE L == IF Modem THEN Set(line, "T_MODC") ELSE line
  <1>1. line \in Lines /\ "T_MODC" \in Flags \ {"T_ISTOP", "T_TSTOP"}
    BY LineTypes DEF IInv, Flags
  <1>2. Adds(line, L, 0)
    BY <1>1, SetAdds, AddsNone
  <1>3. pc[p] = "closed" /\ p \notin asleep /\ dcd' = dcd
    BY DEF alopen, At
  <1>4. \/ alopenFirst(p, L)
        \/ Returns(p, "user", L) /\ topen' = topen + 1 /\ UNCHANGED <<mode, ie>>
    BY DEF alopen
  <1> HIDE DEF L
  <1>5. CASE alopenFirst(p, L)
    <2>1. CASE Opened(p, L)
      BY <1>2, <1>3, <2>1, OpenedIInv
    <2>2. CASE Sleeps(p, "opening", L) /\ ie' = "modem" /\ UNCHANGED <<mode, topen>>
      BY <1>2, <1>3, <2>2, OpeningIInv
    <2> QED
      BY <1>5, <2>1, <2>2 DEF alopenFirst
  <1>6. CASE Returns(p, "user", L) /\ topen' = topen + 1 /\ UNCHANGED <<mode, ie>>
    <2>1. Fine(p, "user", L)
      BY <1>2, <1>3, AddsFine DEF Clists
    <2>2. Around /\ Counted(p, "user")
      BY <1>3, <1>6 DEF Around, IInv, TypeInv, Counted, Outside
    <2> QED
      BY <1>3, <1>6, <2>1, <2>2, ReturnsIInv
  <1> QED
    BY <1>4, <1>5, <1>6

LEMMA alopenWokenIInv ==
  ASSUME IInv, setup' = setup, NEW p \in Procs, alopenWoken(p)
  PROVE  IInv'
  <1>1. Adds(line, line, 0)
    BY LineTypes, AddsNone DEF IInv
  <1>2. pc[p] = "opening" /\ p \notin asleep /\ dcd' = dcd
    BY DEF alopenWoken, At
  <1>3. CASE Opened(p, line)
    BY <1>1, <1>2, <1>3, OpenedIInv
  <1>4. CASE Sleeps(p, "opening", line) /\ UNCHANGED <<mode, topen, ie>>
    BY <1>1, <1>2, <1>4, OpeningIInv DEF IInv, TypeInv
  <1> QED
    BY <1>3, <1>4 DEF alopenWoken

-----------------------------------------------------------------------------
(* Interrupts.                                                             *)

LEMMA AroundIntr ==
  ASSUME IInv, setup' = setup, NEW L, NEW S, Interrupt(L, S), UNCHANGED hardware
  PROVE  Around
  BY DEF IInv, TypeInv, Around, hardware, Interrupt

\* An interrupt that leaves the queues, or only sends.
LEMMA AddsIntr ==
  ASSUME IInv, Around, NEW S \in SUBSET Procs, NEW L, Adds(line, L, 0), Interrupt(L, S)
  PROVE  IInv'
  <1>1. line \in Lines /\ L \in Lines /\ Keeps(line, L)
    BY LineTypes DEF IInv, Adds
  <1>2. Full(L)
    BY DEF Adds, Full, IInv
  <1>3. Known(line) => Known(L)
    BY DEF Adds, Known
  <1>4. Size(L) <= Size(line)
    <2>1. 0 \in Nat
      OBVIOUS
    <2>2. Size(L) <= Size(line) + 0 /\ Size(L) \in Nat /\ Size(line) \in Nat
      BY <1>1, <2>1, SizeAdds
    <2> QED
      BY <2>2
  <1> QED
    BY <1>1, <1>2, <1>3, <1>4, InterruptIInv

\* An interrupt that flushes.
LEMMA FlushIntr ==
  ASSUME IInv, Around, NEW S \in SUBSET Procs, NEW K \in Lines, NEW L \in ttflush(K),
         Interrupt(L, S)
  PROVE  IInv'
  <1>1. line.wake = {} /\ setup \in SetupType
    BY LineTypes DEF IInv
  <1>2. /\ L \in Lines /\ {"iq", "oq"} \subseteq L.wake /\ L.oq = <<>>
        /\ L.flags = K.flags \intersect T_SAVE /\ ~WillBeHeld(L)
    BY <1>1, ttflushLine
  <1>3. Keeps(line, L) /\ Full(L)
    BY <1>1, <1>2 DEF Keeps, Full, T_SAVE
  <1>4. Size(L) <= MaxOut + MaxEdit + 2
    BY <1>1, <1>2, TtyAssumption DEF Size, SetupType, MaxEdit
  <1> QED
    BY <1>2, <1>3, <1>4, InterruptIInv

\* A change of the chip or of the character lists.
LEMMA ChipAdds ==
  ASSUME NEW L \in Lines, NEW M \in Lines, M.oq = L.oq, M.iq = L.iq, M.flags = L.flags,
         M.held = L.held, L.wake \subseteq M.wake
  PROVE  Adds(L, M, 0)
  <1>1. Len(L.oq) \in Nat
    BY DEF Lines
  <1>2. Keeps(L, M)
    BY DEF Keeps, ReadSleeps, WriteSleeps, DrainSleeps
  <1>3. WillBeHeld(M) => WillBeHeld(L)
    BY DEF WillBeHeld
  <1> QED
    BY <1>1, <1>2, <1>3 DEF Adds

LEMMA ChipIInv ==
  ASSUME IInv, setup' = setup, Shifted \/ RunsOut \/ Recovers \/ alTxintr
  PROVE  IInv'
  <1>0. line \in Lines /\ setup \in SetupType /\ {} \in SUBSET Procs /\ "clt" \in Channels
    BY LineTypes DEF IInv, Channels
  <1>1. CASE Shifted
    <2> DEFINE M == [line EXCEPT !.txe = TRUE, !.tip = (ie = "all")]
    <2>1. /\ M \in Lines /\ M.oq = line.oq /\ M.iq = line.iq /\ M.flags = line.flags
          /\ M.held = line.held /\ M.wake = line.wake
      BY <1>0 DEF Lines
    <2>2. Interrupt(M, {}) /\ UNCHANGED hardware
      BY <1>1 DEF Shifted
    <2> HIDE DEF M
    <2> QED
      BY <1>0, <2>1, <2>2, ChipAdds, AroundIntr, AddsIntr
  <1>2. CASE RunsOut
    <2> DEFINE M == [line EXCEPT !.short = TRUE]
    <2>1. /\ M \in Lines /\ M.oq = line.oq /\ M.iq = line.iq /\ M.flags = line.flags
          /\ M.held = line.held /\ M.wake = line.wake
      BY <1>0 DEF Lines
    <2>2. Interrupt(M, {}) /\ UNCHANGED hardware
      BY <1>2 DEF RunsOut
    <2> HIDE DEF M
    <2> QED
      BY <1>0, <2>1, <2>2, ChipAdds, AroundIntr, AddsIntr
  <1>3. CASE Recovers
    <2> DEFINE M == [line EXCEPT !.short = FALSE]
               N == Wake(M, "clt")
    <2>1. /\ M \in Lines /\ M.oq = line.oq /\ M.iq = line.iq /\ M.flags = line.flags
          /\ M.held = line.held /\ M.wake = line.wake
      BY <1>0 DEF Lines
    <2>2. Interrupt(N, {}) /\ UNCHANGED hardware
      BY <1>3 DEF Recovers
    <2> HIDE DEF M
    <2>3. /\ N \in Lines /\ N.oq = line.oq /\ N.iq = line.iq /\ N.flags = line.flags
          /\ N.held = line.held /\ line.wake \subseteq N.wake
      BY <1>0, <2>1, WakeLine DEF Same
    <2> HIDE DEF N
    <2> QED
      BY <1>0, <2>2, <2>3, ChipAdds, AroundIntr, AddsIntr
  <1>4. CASE alTxintr
    <2> DEFINE M == [line EXCEPT !.tip = FALSE]
    <2>1. /\ M \in Lines /\ M.oq = line.oq /\ M.iq = line.iq /\ M.flags = line.flags
          /\ M.held = line.held /\ M.wake = line.wake
      BY <1>0 DEF Lines
    <2>2. PICK L \in ttstart(M) : Interrupt(L, {})
      BY <1>4 DEF alTxintr
    <2>3. UNCHANGED hardware
      BY <1>4 DEF alTxintr
    <2> HIDE DEF M
    <2>4. Adds(line, M, 0)
      BY <1>0, <2>1, ChipAdds
    <2>5. Adds(M, L, 0)
      BY <1>0, <2>1, ttstartAdds
    <2>6. Adds(line, L, 0 + 0)
      BY <1>0, <2>4, <2>5, AddsTrans
    <2> QED
      BY <1>0, <2>2, <2>3, <2>6, AroundIntr, AddsIntr
  <1> QED
    BY <1>1, <1>2, <1>3, <1>4

\* A character of input: what it adds to the queues is known and bounded.
LEMMA InputIntr ==
  ASSUME IInv, setup' = setup, UNCHANGED hardware, NEW L \in Lines, Keeps(line, L), Full(L),
         "T_TSTOP" \in L.flags \/ (Known(line) => Known(L)),
         NEW n \in Nat, n <= MaxOut, NEW k \in Nat, k <= MaxEdit + 1, Len(L.oq) <= n + k,
         Interrupt(L, {})
  PROVE  IInv'
  <1>1. Around
    BY AroundIntr
  <1>2. Size(L) <= MaxOut + MaxEdit + 2
    BY LineTypes, SizeLow DEF IInv
  <1>3. {} \in SUBSET Procs
    OBVIOUS
  <1> QED
    BY <1>1, <1>2, <1>3, InterruptIInv

LEMMA ttinStopIInv ==
  ASSUME IInv, setup' = setup, ttinStop \/ ttinStart
  PROVE  IInv'
  <1>0. /\ line \in Lines /\ setup \in SetupType /\ {} \in SUBSET Procs
        /\ "T_STOP" \in Flags \ {"T_ISTOP", "T_TSTOP"}
    BY LineTypes DEF IInv, Flags
  <1>1. CASE ttinStop
    <2>1. Interrupt(Set(line, "T_STOP"), {}) /\ UNCHANGED hardware
      BY <1>1 DEF ttinStop
    <2> QED
      BY <1>0, <2>1, SetAdds, AroundIntr, AddsIntr
  <1>2. CASE ttinStart
    <2>1. PICK L \in ttstart(Clear(line, "T_STOP")) : Interrupt(L, {})
      BY <1>2 DEF ttinStart
    <2>2. UNCHANGED hardware
      BY <1>2 DEF ttinStart
    <2>3. Adds(line, Clear(line, "T_STOP"), 0)
      BY <1>0, ClearAdds
    <2>4. Adds(Clear(line, "T_STOP"), L, 0)
      BY <1>0, <2>3, ttstartAdds DEF Adds
    <2>5. Adds(line, L, 0 + 0)
      BY <1>0, <2>3, <2>4, AddsTrans
    <2> QED
      BY <1>0, <2>1, <2>2, <2>5, AroundIntr, AddsIntr
  <1> QED
    BY <1>1, <1>2

LEMMA InKernelProcs == InKernel \subseteq Procs
  BY DEF InKernel

LEMMA ttsignalIInv ==
  ASSUME IInv, setup' = setup, UNCHANGED hardware, ttsignal(line)
  PROVE  IInv'
  <1>1. line \in Lines /\ Adds(line, line, 0) /\ {} \in SUBSET Procs
    BY LineTypes, AddsNone DEF IInv
  <1>2. CASE Interrupt(line, {})
    BY <1>1, <1>2, AroundIntr, AddsIntr
  <1>3. CASE \E M \in ttflush(line), S \in SUBSET InKernel : Interrupt(M, S)
    BY <1>1, <1>3, InKernelProcs, AroundIntr, FlushIntr
  <1> QED
    BY <1>2, <1>3 DEF ttsignal

LEMMA ttinIntrIInv ==
  ASSUME IInv, setup' = setup, ttinIntr \/ alESbreak
  PROVE  IInv'
  <1>1. CASE ttinIntr
    BY <1>1, ttsignalIInv DEF ttinIntr
  <1>2. CASE alESbreak
    <2>1. PICK L \in ttflush(line), S \in SUBSET InKernel : Interrupt(L, S)
      BY <1>2 DEF alESbreak
    <2>2. line \in Lines /\ S \in SUBSET Procs /\ Around
      BY <1>2, <2>1, LineTypes, InKernelProcs, AroundIntr DEF IInv, alESbreak
    <2> QED
      BY <2>1, <2>2, FlushIntr
  <1> QED
    BY <1>1, <1>2

LEMMA ttinEditIInv ==
  ASSUME IInv, setup' = setup, ttinEdit
  PROVE  IInv'
  <1>0. line \in Lines /\ setup \in SetupType /\ MaxEdit \in Nat
    BY LineTypes DEF IInv, SetupType, MaxEdit
  <1>1. PICK k \in 0 .. MaxEdit :
          \E L \in ttstart([line EXCEPT !.oq = line.oq \o [i \in 1 .. k |-> "x"]]) :
            Interrupt(L, {})
    BY DEF ttinEdit
  <1> DEFINE M == [line EXCEPT !.oq = line.oq \o [i \in 1 .. k |-> "x"]]
  <1>2. PICK L \in ttstart(M) : Interrupt(L, {})
    BY <1>1
  <1>3. k \in Nat /\ k <= MaxEdit + 1
    BY <1>0
  <1>4. Adds(line, M, k) /\ M \in Lines
    <2>1. M = [line EXCEPT !.oq = line.oq \o [i \in 1 .. k |-> "x"]]
      OBVIOUS
    <2> HIDE DEF M
    <2>2. Adds(line, M, k)
      BY <1>0, <1>3, <2>1, EditAdds
    <2> QED
      BY <2>2 DEF Adds
  <1> HIDE DEF M
  <1>5. Adds(M, L, 0)
    BY <1>0, <1>4, ttstartAdds
  <1>6. Adds(line, L, k + 0)
    BY <1>0, <1>3, <1>4, <1>5, AddsTrans
  <1>7. L \in Lines /\ Keeps(line, L) /\ Full(L) /\ (Known(line) => Known(L))
    <2>1. L \in Lines /\ Keeps(line, L)
      BY <1>6 DEF Adds
    <2>2. Full(L)
      BY <1>6 DEF Adds, Full, IInv
    <2>3. Known(line) => Known(L)
      BY <1>6 DEF Adds, Known
    <2> QED
      BY <2>1, <2>2, <2>3
  <1>8. Len(line.oq) \in Nat /\ Len(line.oq) <= MaxOut /\ Len(L.oq) <= Len(line.oq) + k
    <2>1. Len(line.oq) \in Nat /\ MaxOut \in Nat /\ Len(line.oq) < MaxOut
      BY <1>0, TtyAssumption DEF Lines, ttinEdit, alRxintr
    <2>2. Len(L.oq) <= Len(line.oq) + (k + 0)
      BY <1>6 DEF Adds
    <2> QED
      BY <1>3, <2>1, <2>2
  <1>9. UNCHANGED hardware
    BY DEF ttinEdit
  <1> QED
    BY <1>2, <1>3, <1>7, <1>8, <1>9, InputIntr

\* Delivered, echoed, and the marks.
LEMMA DeliveredFine ==
  ASSUME IInv, NEW lim, NEW L \in {line} \union {Delivered(line, n) : n \in Arrives(lim)},
         lim \in Nat
  PROVE  L \in Lines /\ Keeps(line, L) /\ Full(L) /\ (Known(line) => Known(L)) /\ L.oq = line.oq
  <1>0. line \in Lines /\ MaxIn \in Nat /\ line.iq \in Nat
    BY LineTypes DEF IInv, SetupType, MaxIn, Lines
  <1>1. CASE L = line
    BY <1>0, <1>1 DEF IInv, Keeps
  <1>2. CASE \E n \in Arrives(lim) : L = Delivered(line, n)
    <2>1. PICK n \in Arrives(lim) : L = Delivered(line, n)
      BY <1>2
    <2>2. n \in Nat /\ line.iq + n <= MaxIn
      BY DEF Arrives
    <2>3. /\ L \in Lines /\ Keeps(line, L) /\ L.oq = line.oq /\ L.held = line.held
          /\ L.iq = line.iq + n
          /\ L.flags \union {"T_INPUT"} = line.flags \union {"T_INPUT"}
      BY <1>0, <2>1, <2>2, DeliveredLine
    <2>4. \A f \in {"T_ISTOP", "T_TSTOP"} : f \in L.flags <=> f \in line.flags
      BY <2>3
    <2>5. Full(L)
      BY <1>0, <2>2, <2>3, <2>4, TtyAssumption DEF Full, IInv
    <2>6. Known(line) => Known(L)
      BY <2>3, <2>4 DEF Known, WillBeHeld
    <2> QED
      BY <2>3, <2>5, <2>6
  <1> QED
    BY <1>1, <1>2

LEMMA EchoedFine ==
  ASSUME IInv, alRxintr, NEW L \in Lines, Keeps(line, L), Full(L), Known(line) => Known(L),
         L.oq = line.oq, NEW M \in Echoed(L) \union {L}
  PROVE  /\ M \in Lines /\ Keeps(line, M) /\ Full(M) /\ (Known(line) => Known(M))
         /\ Len(M.oq) <= MaxOut /\ Len(M.oq) \in Nat
  <1>0. line \in Lines /\ setup \in SetupType /\ Len(line.oq) \in Nat /\ MaxOut \in Nat
    BY LineTypes, TtyAssumption DEF IInv, Lines
  <1>1. Adds(L, M, 1)
    BY <1>0, EchoedAdds
  <1>2. M \in Lines /\ Keeps(line, M) /\ Len(M.oq) \in Nat
    <2>1. M \in Lines /\ Keeps(L, M)
      BY <1>1 DEF Adds
    <2> QED
      BY <1>0, <2>1, KeepsTrans DEF Lines
  <1>3. Full(M)
    BY <1>1 DEF Adds, Full
  <1>4. Known(line) => Known(M)
    BY <1>1 DEF Adds, Known
  <1>5. Len(M.oq) <= MaxOut
    <2>1. Len(M.oq) <= Len(line.oq) + 1 /\ Len(line.oq) < MaxOut
      BY <1>1 DEF Adds, alRxintr
    <2> QED
      BY <1>0, <1>2, <2>1
  <1> QED
    BY <1>2, <1>3, <1>4, <1>5

LEMMA ttinCharIInv ==
  ASSUME IInv, setup' = setup, ttinChar
  PROVE  IInv'
  <1>0. line \in Lines /\ setup \in SetupType /\ MaxEdit \in Nat /\ NCIB \in Nat
    BY LineTypes, TtyAssumption DEF IInv, SetupType, MaxEdit
  <1> DEFINE lim == IF mode = "cooked" THEN NCIB ELSE 1
  <1>1. PICK L \in {line} \union {Delivered(line, n) : n \in Arrives(lim)} :
          \E M \in Echoed(L) \union {L} : \E N \in Limits(M) : Interrupt(N, {})
    BY DEF ttinChar
  <1>2. lim \in Nat
    BY <1>0
  <1> HIDE DEF lim
  <1>3. PICK M \in Echoed(L) \union {L} : \E N \in Limits(M) : Interrupt(N, {})
    BY <1>1
  <1>4. PICK N \in Limits(M) : Interrupt(N, {})
    BY <1>3
  <1>5. L \in Lines /\ Keeps(line, L) /\ Full(L) /\ (Known(line) => Known(L)) /\ L.oq = line.oq
    BY <1>2, DeliveredFine
  <1>6. /\ M \in Lines /\ Keeps(line, M) /\ Full(M) /\ (Known(line) => Known(M))
        /\ Len(M.oq) <= MaxOut /\ Len(M.oq) \in Nat
    BY <1>5, EchoedFine DEF ttinChar
  <1>7. /\ N \in Lines /\ Keeps(M, N) /\ Len(N.oq) <= Len(M.oq) + 1 /\ Full(N)
        /\ "T_TSTOP" \in N.flags \/ (Known(line) => Known(N))
    BY <1>0, <1>6, LimitsLine
  <1>8. Keeps(line, N)
    BY <1>0, <1>6, <1>7, KeepsTrans
  <1>9. UNCHANGED hardware
    BY DEF ttinChar
  <1>10. 1 \in Nat /\ 1 <= MaxEdit + 1
    BY <1>0
  <1> QED
    BY <1>4, <1>6, <1>7, <1>8, <1>9, <1>10, InputIntr

LEMMA ttinEscapedIInv ==
  ASSUME IInv, setup' = setup, ttinEscaped
  PROVE  IInv'
  <1>0. MaxEdit \in Nat /\ NCIB \in Nat
    BY LineTypes, TtyAssumption DEF IInv, SetupType, MaxEdit
  <1>1. PICK n \in Arrives(NCIB) : \E M \in Echoed(Delivered(line, n)) : Interrupt(M, {})
    BY DEF ttinEscaped
  <1> DEFINE L == Delivered(line, n)
  <1>2. PICK M \in Echoed(L) : Interrupt(M, {})
    BY <1>1
  <1>3. L \in Lines /\ Keeps(line, L) /\ Full(L) /\ (Known(line) => Known(L)) /\ L.oq = line.oq
    <2>1. L \in {line} \union {Delivered(line, k) : k \in Arrives(NCIB)}
      OBVIOUS
    <2> HIDE DEF L
    <2> QED
      BY <1>0, <2>1, DeliveredFine
  <1> HIDE DEF L
  <1>4. /\ M \in Lines /\ Keeps(line, M) /\ Full(M) /\ (Known(line) => Known(M))
        /\ Len(M.oq) <= MaxOut /\ Len(M.oq) \in Nat
    BY <1>3, EchoedFine DEF ttinEscaped
  <1>5. 0 \in Nat /\ 0 <= MaxEdit + 1 /\ Len(M.oq) <= Len(M.oq) + 0
    BY <1>0, <1>4
  <1>6. UNCHANGED hardware
    BY DEF ttinEscaped
  <1> QED
    BY <1>2, <1>4, <1>5, <1>6, InputIntr

LEMMA alEScarrierIInv ==
  ASSUME IInv, setup' = setup, alEScarrier
  PROVE  IInv'
  <1>0. line \in Lines /\ setup \in SetupType /\ {} \in SUBSET Procs /\ "open" \in Channels
        /\ "T_CARR" \in Flags
    BY LineTypes DEF IInv, Channels, Flags
  <1>1. dcd' \in BOOLEAN /\ ie' = ie
    BY DEF alEScarrier
  <1>2. ASSUME NEW L, NEW S, Interrupt(L, S) PROVE Around
    BY <1>1, <1>2 DEF Around, IInv, TypeInv, Interrupt
  <1>3. CASE Interrupt(line, {})
    BY <1>0, <1>2, <1>3, AddsNone, AddsIntr
  <1>4. CASE Interrupt(Wake(line, "open"), {})
    <2> DEFINE N == Wake(line, "open")
    <2>1. /\ N \in Lines /\ N.oq = line.oq /\ N.iq = line.iq /\ N.flags = line.flags
          /\ N.held = line.held /\ line.wake \subseteq N.wake
      BY <1>0, WakeLine DEF Same
    <2>2. Interrupt(N, {})
      BY <1>4
    <2> HIDE DEF N
    <2> QED
      BY <1>0, <1>2, <2>1, <2>2, ChipAdds, AddsIntr
  <1>5. CASE tthup
    <2>1. Clear(line, "T_CARR") \in Lines
      BY <1>0, ClearLine
    <2>2. PICK L \in ttflush(Clear(line, "T_CARR")) : ttsignal(L)
      BY <1>5 DEF tthup
    <2>3. L \in Lines
      BY <1>0, <2>1, <2>2, ttflushLine
    <2>4. CASE Interrupt(L, {})
      BY <1>0, <1>2, <2>1, <2>4, FlushIntr
    <2>5. CASE \E M \in ttflush(L), S \in SUBSET InKernel : Interrupt(M, S)
      BY <1>2, <2>3, <2>5, InKernelProcs, FlushIntr
    <2> QED
      BY <2>2, <2>4, <2>5 DEF ttsignal
  <1> QED
    BY <1>3, <1>4, <1>5 DEF alEScarrier

LEMMA SignalIInv ==
  ASSUME IInv, setup' = setup, NEW p \in Procs, Signal(p)
  PROVE  IInv'
  <1>1. Adds(line, line, 0)
    BY LineTypes, AddsNone DEF IInv
  <1>2. Interrupt(line, {p}) /\ UNCHANGED hardware /\ {p} \in SUBSET Procs
    BY DEF Signal
  <1> QED
    BY <1>1, <1>2, AroundIntr, AddsIntr

-----------------------------------------------------------------------------
(* The theorems.                                                           *)

LEMMA NextIInv == IInv /\ [Next]_vars => IInv'
  <1>1. ASSUME IInv, UNCHANGED vars PROVE IInv'
    <2> USE <1>1 DEF vars
    <2>1. TypeInv'
      BY DEF IInv, TypeInv, LineType, MaxIn, MaxWrite
    <2>2. SleepInv' /\ CntInv' /\ Full(line)' /\ TandemRemembered'
      BY DEF IInv, SleepInv, CntInv, Full, TandemRemembered, Rightly, ReadSleeps,
             WriteSleeps, DrainSleeps, WillBeHeld
    <2>3. CountInv' /\ BoundInv'
      BY DEF IInv, CountInv, Open, BoundInv, Pending, Size, MaxEdit
    <2> QED
      BY <2>1, <2>2, <2>3 DEF IInv
  <1>2. ASSUME IInv, setup' = setup, NEW p \in Procs, Calls(p) PROVE IInv'
    BY <1>2, ttwriteIInv, TIOCSETPIInv, InterruptedIInv, TIOCFLUSHIInv, TIOCHPCLIInv,
       alcloseIInv, alopenIInv DEF Calls
  <1>3. ASSUME IInv, setup' = setup, NEW p \in Procs, Runs(p) PROVE IInv'
    BY <1>3, waitqIInv, InterruptedIInv, ttreadWaitIInv, ttreadCharIInv, ttreadGoOnIInv,
       ttwriteNextIInv, ttwritePutIInv, ttwriteGoOnIInv, DrainedIInv, alopenWokenIInv
       DEF Runs
  <1>4. ASSUME IInv, setup' = setup, Input PROVE IInv'
    BY <1>4, ttinIntrIInv, ttinStopIInv, ttinEditIInv, ttinCharIInv, ttinEscapedIInv,
       alEScarrierIInv DEF Input
  <1> QED
    BY <1>1, <1>2, <1>3, <1>4, SignalIInv, ChipIInv DEF Next

\* The invariant holds of every state of a terminal line.
THEOREM TtyInvariant == Spec => []IInv
  <1> QED
    BY InitIInv, NextIInv, PTL DEF Spec

\* ttread, ttwrite, ttin, ttstart and ttflush: nobody sleeps through what it
\* waits for, t_open is at most the number of processes, and the output
\* queue is bounded.
THEOREM TtySleepsRightly == Spec => []SleepsRightly
  <1>1. IInv => SleepsRightly
    <2> SUFFICES ASSUME IInv PROVE SleepsRightly
      OBVIOUS
    <2>1. Cardinality(Procs) \in Nat /\ topen \in 0 .. Cardinality(Procs)
      <3>1. Open \subseteq Procs
        BY DEF Open
      <3>2. /\ Cardinality(Open) \in Nat /\ Cardinality(Procs) \in Nat
            /\ Cardinality(Open) <= Cardinality(Procs)
        BY <3>1, TtyAssumption, FS_Subset, FS_CardinalityType
      <3> QED
        BY <3>2 DEF IInv, CountInv
    <2>2. Len(line.oq) <= MaxOut + MaxEdit + Cardinality(Procs) + 2
      <3>1. Pending \subseteq Procs
        BY DEF Pending
      <3>2. Cardinality(Pending) \in Nat
        BY <3>1, TtyAssumption, FS_Subset, FS_CardinalityType
      <3>3. Len(line.oq) \in Nat /\ MaxEdit \in Nat /\ MaxOut \in Nat
        BY LineTypes, TtyAssumption DEF IInv, Lines, SetupType, MaxEdit
      <3>4. Size(line) \in Nat /\ Len(line.oq) <= Size(line)
        <4> DEFINE t == IF "T_TSTOP" \in line.flags THEN 1 ELSE 0
        <4>1. t \in {0, 1} /\ Size(line) = Len(line.oq) + t
          BY DEF Size
        <4> HIDE DEF t
        <4> QED
          BY <3>3, <4>1
      <3> QED
        BY <2>1, <3>2, <3>3, <3>4 DEF IInv, BoundInv
    <2>3. TypeOK
      BY <2>1, <2>2 DEF TypeOK, IInv, TypeInv
    <2> QED
      BY <2>3 DEF SleepsRightly, IInv, SleepInv, Rightly, ReadSleeps, WriteSleeps
  <1> QED
    BY <1>1, TtyInvariant, PTL

\* ttin, ttread and ttflush: input is refused, or the other end stopped, only
\* while the queue is above the low mark.
THEOREM TtyStopMeansFull == Spec => []StopMeansFull
  <1>1. IInv => StopMeansFull
    BY DEF IInv, Full, StopMeansFull
  <1> QED
    BY <1>1, TtyInvariant, PTL

\* ttin and ttread in tandem mode: an end that was stopped is not forgotten,
\* whatever putq says of the character that starts it.
THEOREM TtyTandemRemembered == Spec => []TandemRemembered
  <1>1. IInv => TandemRemembered
    BY DEF IInv
  <1> QED
    BY <1>1, TtyInvariant, PTL

-----------------------------------------------------------------------------
(* The drain of a line that has no modem control and is not opened again.  *)

Plain == \A s \in Setups : ~s.Modem /\ ~s.Reopen

\* A writer at low priority has yet to call ttstart.
Starts == self # None /\ pc[self] \in {"wnext", "wput"}

\* Output in the queue, or a wait for it, is output that moves.
MoveInv == Starts \/ Moving(line)

\* The chip interrupts, and there is a carrier, until the last close has ended.
ChipInv ==
  /\ ie # "modem"
  /\ ie = "all" => "T_CARR" \in line.flags
  /\ ie # "all" => /\ line.oq = <<>> /\ "T_DRAIN" \notin line.flags
                   /\ \A q \in Procs : pc[q] = "closed"

\* Who waits for the drain of a close is the last one.
LastInv ==
  \A q \in Procs :
    /\ pc[q] # "opening"
    /\ pc[q] = "cdrain" => \A r \in Procs \ {q} : pc[r] = "closed"

DInv == MoveInv /\ ChipInv /\ LastInv

\* From L to M: what moves goes on moving, and the carrier stays.
Goes(L, M) ==
  /\ M \in Lines
  /\ Moving(L) => Moving(M)
  /\ "T_CARR" \in L.flags => "T_CARR" \in M.flags

LEMMA ttstartGoes ==
  ASSUME NEW L \in Lines, setup \in SetupType, NEW M \in ttstart(L)
  PROVE  Goes(L, M) /\ Moving(M)
  BY ttstartLine DEF Goes

\* Flags other than those of the output, the carrier and the input queue.
LEMMA AsideGoes ==
  ASSUME NEW L \in Lines, NEW M \in Lines, M.oq = L.oq, M.txe = L.txe, M.tip = L.tip,
         \A f \in {"T_DRAIN", "T_STOP", "T_CARR"} : f \in M.flags <=> f \in L.flags
  PROVE  Goes(L, M)
  BY DEF Goes, Moving

LEMMA SetGoes ==
  ASSUME NEW L \in Lines, NEW f \in Flags \ {"T_DRAIN"}
  PROVE  Goes(L, Set(L, f))
  <1> DEFINE M == Set(L, f)
  <1>1. /\ M \in Lines /\ M.oq = L.oq /\ M.txe = L.txe /\ M.tip = L.tip
        /\ M.flags = L.flags \union {f}
    BY SetLine DEF Same
  <1> HIDE DEF M
  <1>2. Goes(L, M)
    BY <1>1 DEF Goes, Moving
  <1> QED
    BY <1>2 DEF M

LEMMA ClearGoes ==
  ASSUME NEW L \in Lines, NEW f \in Flags \ {"T_STOP", "T_CARR"}
  PROVE  Goes(L, Clear(L, f))
  <1> DEFINE M == Clear(L, f)
  <1>1. /\ M \in Lines /\ M.oq = L.oq /\ M.txe = L.txe /\ M.tip = L.tip
        /\ M.flags = L.flags \ {f}
    BY ClearLine DEF Same
  <1> HIDE DEF M
  <1>2. Goes(L, M)
    BY <1>1 DEF Goes, Moving
  <1> QED
    BY <1>2 DEF M

LEMMA ttflushGoes ==
  ASSUME NEW L \in Lines, setup \in SetupType, NEW M \in ttflush(L)
  PROVE  Goes(L, M) /\ Moving(M)
  BY ttflushLine DEF Goes, Moving, T_SAVE

LEMMA EchoGoes ==
  ASSUME NEW L \in Lines, setup \in SetupType, NEW c \in Chars, NEW M \in Echo(L, c)
  PROVE  Goes(L, M) /\ Moving(M)
  <1>1. PICK N \in putq(L, c) : M \in ttstart(N)
    BY DEF Echo
  <1>2. N \in Lines /\ N.flags = L.flags
    <2>1. CASE N = [L EXCEPT !.oq = Append(L.oq, c)]
      BY <2>1, AppendLine
    <2> QED
      BY <1>1, <2>1 DEF putq
  <1>3. Goes(N, M) /\ Moving(M)
    BY <1>1, <1>2, ttstartGoes
  <1> QED
    BY <1>2, <1>3 DEF Goes

LEMMA QueuedCarr ==
  ASSUME NEW L \in Lines, setup \in SetupType, NEW c \in Chars, NEW M \in Queued(L, c)
  PROVE  M \in Lines /\ ("T_CARR" \in L.flags => "T_CARR" \in M.flags)
  <1>1. PICK N \in {L} \union ttstart(L) : M = [N EXCEPT !.oq = Append(N.oq, c)]
    BY DEF Queued
  <1>2. N \in Lines /\ ("T_CARR" \in L.flags => "T_CARR" \in N.flags)
    BY <1>1, ttstartGoes DEF Goes
  <1> QED
    BY <1>1, <1>2, AppendLine

LEMMA DeliveredGoes ==
  ASSUME IInv, NEW lim \in Nat,
         NEW L \in {line} \union {Delivered(line, n) : n \in Arrives(lim)}
  PROVE  Goes(line, L)
  <1>0. line \in Lines /\ MaxIn \in Nat /\ line.iq \in Nat
    BY LineTypes DEF IInv, SetupType, MaxIn, Lines
  <1>1. CASE L = line
    BY <1>0, <1>1 DEF Goes
  <1>2. CASE \E n \in Arrives(lim) : L = Delivered(line, n)
    <2>1. PICK n \in Arrives(lim) : L = Delivered(line, n)
      BY <1>2
    <2>2. n \in Nat /\ line.iq + n <= MaxIn
      BY DEF Arrives
    <2> DEFINE M == [line EXCEPT !.iq = line.iq + n]
    <2>3. /\ M \in Lines /\ M.oq = line.oq /\ M.txe = line.txe /\ M.tip = line.tip
          /\ M.flags = line.flags
      BY <1>0, <2>2 DEF Lines
    <2>4. L = M \/ L = Wake(Clear(M, "T_INPUT"), "iq")
      BY <2>1 DEF Delivered
    <2> HIDE DEF M
    <2>5. "T_INPUT" \in Flags /\ "iq" \in Channels
      BY DEF Flags, Channels
    <2>6. /\ L \in Lines /\ L.oq = M.oq /\ L.txe = M.txe /\ L.tip = M.tip
          /\ L.flags \union {"T_INPUT"} = M.flags \union {"T_INPUT"}
      BY <2>3, <2>4, <2>5, ClearWakeLine DEF Same
    <2>7. \A f \in {"T_DRAIN", "T_STOP", "T_CARR"} : f \in L.flags <=> f \in line.flags
      BY <2>3, <2>6
    <2> QED
      BY <1>0, <2>3, <2>6, <2>7, AsideGoes
  <1> QED
    BY <1>1, <1>2

LEMMA LimitsGoes ==
  ASSUME NEW L \in Lines, setup \in SetupType, NEW M \in Limits(L)
  PROVE  Goes(L, M)
  <1>0. {"T_ISTOP", "T_TSTOP"} \subseteq Flags \ {"T_DRAIN"} /\ "stop" \in Chars
    BY DEF Flags, Chars
  <1>1. CASE M = L
    BY <1>1 DEF Goes
  <1>2. CASE M = Set(L, "T_ISTOP")
    BY <1>0, <1>2, SetGoes
  <1>3. CASE M \in Echo(Set(L, "T_TSTOP"), "stop")
    <2>1. Goes(L, Set(L, "T_TSTOP"))
      BY <1>0, SetGoes
    <2>2. Goes(Set(L, "T_TSTOP"), M)
      BY <1>0, <1>3, <2>1, EchoGoes DEF Goes
    <2> QED
      BY <2>1, <2>2 DEF Goes
  <1> QED
    BY <1>1, <1>2, <1>3 DEF Limits

-----------------------------------------------------------------------------
(* Steps of a line that is plain.                                          *)

\* p goes to l, neither opening nor closing the line.
LEMMA MoveDInv ==
  ASSUME DInv, IInv, setup' = setup, ie' = ie, NEW p \in Procs, pc[p] # "closed",
         NEW l \in Locs \ {"closed", "opening", "cdrain"}, pc' = [pc EXCEPT ![p] = l],
         NEW L \in Lines, line' = [L EXCEPT !.wake = {}],
         "T_CARR" \in line.flags => "T_CARR" \in L.flags,
         Moving(L) \/ (self' = p /\ l \in {"wnext", "wput"})
  PROVE  DInv'
  <1>1. /\ pc'[p] = l /\ \A q \in Procs \ {p} : pc'[q] = pc[q]
        /\ p # None
    BY TtyAssumption DEF IInv, TypeInv
  <1>2. /\ line'.flags = L.flags /\ line'.oq = L.oq /\ line'.txe = L.txe /\ line'.tip = L.tip
    BY LineAtRest DEF Same
  <1>3. ie = "all"
    BY DEF DInv, ChipInv
  <1>4. ChipInv'
    BY <1>2, <1>3 DEF DInv, ChipInv
  <1>5. LastInv'
    BY <1>1 DEF DInv, LastInv
  <1>6. MoveInv'
    BY <1>1, <1>2 DEF MoveInv, Moving, Starts
  <1> QED
    BY <1>4, <1>5, <1>6 DEF DInv

\* The output moves when p has the processor, unless p writes.
LEMMA MovesAt ==
  ASSUME DInv, NEW p \in Procs, NEW ls, At(p, ls), pc[p] \notin {"wnext", "wput"}
  PROVE  Moving(line)
  BY DEF At, DInv, MoveInv, Starts

LEMMA ReturnsDInv ==
  ASSUME DInv, IInv, setup' = setup, ie' = ie, NEW p \in Procs, pc[p] # "closed",
         NEW L, Goes(line, L), Moving(L), Returns(p, "user", L)
  PROVE  DInv'
  <1>1. "user" \in Locs \ {"closed", "opening", "cdrain"}
    BY DEF Locs
  <1> QED
    BY <1>1, MoveDInv DEF Returns, Becomes, Goto, Goes

LEMMA SleepsDInv ==
  ASSUME DInv, IInv, setup' = setup, ie' = ie, NEW p \in Procs, pc[p] # "closed",
         NEW l \in Locs \ {"closed", "opening", "cdrain"},
         NEW L, Goes(line, L), Moving(L), Sleeps(p, l, L)
  PROVE  DInv'
  BY MoveDInv DEF Sleeps, Becomes, Goto, Goes

LEMMA GoesOnDInv ==
  ASSUME DInv, IInv, setup' = setup, ie' = ie, NEW p \in Procs, pc[p] # "closed",
         NEW l \in Locs \ {"closed", "opening", "cdrain"}, NEW n,
         NEW L \in Lines, "T_CARR" \in line.flags => "T_CARR" \in L.flags,
         Moving(L) \/ l \in {"wnext", "wput"}, GoesOn(p, l, L, n)
  PROVE  DInv'
  BY MoveDInv DEF GoesOn, Becomes, Goto

LEMMA IntrDInv ==
  ASSUME DInv, IInv, setup' = setup, ie' = ie, ie = "all", NEW L, NEW S, Goes(line, L),
         Interrupt(L, S)
  PROVE  DInv'
  <1>1. line' = [L EXCEPT !.wake = {}] /\ pc' = pc /\ self' = self /\ L \in Lines
    BY DEF Interrupt, Goes
  <1>2. line'.flags = L.flags /\ line'.oq = L.oq /\ line'.txe = L.txe /\ line'.tip = L.tip
    BY <1>1, LineAtRest DEF Same
  <1>3. ChipInv'
    BY <1>2 DEF DInv, ChipInv, Goes
  <1>4. LastInv'
    BY <1>1 DEF DInv, LastInv
  <1>5. MoveInv'
    BY <1>1, <1>2 DEF DInv, MoveInv, Moving, Starts, Goes
  <1> QED
    BY <1>3, <1>4, <1>5 DEF DInv

LEMMA InitDInv == Init => DInv
  <1> SUFFICES ASSUME Init PROVE DInv
    OBVIOUS
  <1>1. line.oq = <<>> /\ "T_CARR" \in line.flags /\ "T_DRAIN" \notin line.flags
    BY DEF Init
  <1> QED
    BY <1>1 DEF Init, DInv, MoveInv, Moving, ChipInv, LastInv

LEMMA ReadDInv ==
  ASSUME DInv, IInv, setup' = setup, NEW p \in Procs,
         ttreadWait(p) \/ ttreadChar(p) \/ ttreadGoOn(p) \/ ttreadEnd(p)
  PROVE  DInv'
  <1>0. line \in Lines /\ setup \in SetupType /\ Goes(line, line)
    BY LineTypes DEF IInv, Goes
  <1>1. pc[p] \in {"user", "rnext", "rd", "rclist"} /\ ie' = ie
    BY DEF ttreadWait, ttreadChar, ttreadGoOn, ttreadEnd, InRead, At, hardware
  <1>2. Moving(line)
    <2>1. \E ls : At(p, ls)
      BY DEF ttreadWait, ttreadChar, ttreadGoOn, ttreadEnd, InRead
    <2> QED
      BY <1>1, <2>1, MovesAt
  <1>3. {"rnext", "rclist", "rd", "user"} \subseteq Locs \ {"closed", "opening", "cdrain"}
    BY DEF Locs
  <1>4. ASSUME NEW M \in Lines, "T_CARR" \in line.flags => "T_CARR" \in M.flags, Resume(p, M)
        PROVE  DInv'
    <2>1. CASE \E A \in Queued(M, "start") : \E N \in ttstart(A) : GoesOn(p, "rnext", N, 1)
      <3>1. PICK A \in Queued(M, "start") : \E N \in ttstart(A) : GoesOn(p, "rnext", N, 1)
        BY <2>1
      <3>2. PICK N \in ttstart(A) : GoesOn(p, "rnext", N, 1)
        BY <3>1
      <3>3. A \in Lines /\ ("T_CARR" \in M.flags => "T_CARR" \in A.flags)
        BY <1>0, QueuedCarr DEF Chars
      <3>4. Goes(A, N) /\ Moving(N)
        BY <1>0, <3>3, ttstartGoes
      <3> QED
        BY <1>1, <1>3, <1>4, <3>2, <3>3, <3>4, GoesOnDInv DEF Goes
    <2>2. CASE \E A \in NoRoom(M) : Sleeps(p, "rclist", A)
      <3>1. PICK A \in NoRoom(M) : Sleeps(p, "rclist", A)
        BY <2>2
      <3>2. A \in ttstart(M)
        BY DEF NoRoom
      <3>3. Goes(M, A) /\ Moving(A)
        BY <1>0, <3>2, ttstartGoes
      <3>4. Goes(line, A)
        BY <1>4, <3>3 DEF Goes
      <3> QED
        BY <1>1, <1>3, <3>1, <3>3, <3>4, SleepsDInv
    <2> QED
      BY <1>4, <2>1, <2>2 DEF Resume
  <1>5. CASE ttreadWait(p) \/ ttreadEnd(p)
    <2>1. CASE Returns(p, "user", line)
      BY <1>0, <1>1, <1>2, <2>1, ReturnsDInv
    <2>2. CASE Sleeps(p, "rd", Set(line, "T_INPUT"))
      <3>1. Goes(line, Set(line, "T_INPUT"))
        BY <1>0, SetGoes DEF Flags
      <3> QED
        BY <1>1, <1>2, <1>3, <2>2, <3>1, SleepsDInv DEF Goes
    <2> QED
      BY <1>5, <2>1, <2>2 DEF ttreadWait, ttreadEnd
  <1>6. CASE ttreadGoOn(p)
    BY <1>0, <1>4, <1>6 DEF ttreadGoOn
  <1>7. CASE ttreadChar(p)
    <2> DEFINE T == [line EXCEPT !.iq = line.iq - 1]
    <2>1. /\ T \in Lines /\ T.flags = line.flags /\ T.oq = line.oq /\ T.txe = line.txe
          /\ T.tip = line.tip
      BY <1>0, <1>7 DEF Lines, ttreadChar, SetupType, MaxIn
    <2>2. PICK L \in Freed(T) :
            IF L.iq > ILOLIM THEN GoesOn(p, "rnext", L, 1)
            ELSE LET M == Clear(Clear(L, "T_ISTOP"), "T_TSTOP")
                 IN  IF "T_TSTOP" \in L.flags THEN Resume(p, M)
                                              ELSE GoesOn(p, "rnext", M, 1)
      BY <1>7 DEF ttreadChar
    <2> HIDE DEF T
    <2>3. /\ L \in Lines /\ L.flags = line.flags /\ L.oq = line.oq /\ L.txe = line.txe
          /\ L.tip = line.tip
      BY <2>1, FreedLine
    <2>4. Goes(line, L)
      BY <1>0, <2>3, AsideGoes
    <2> DEFINE K == Clear(L, "T_ISTOP")
               M == Clear(K, "T_TSTOP")
    <2>5. {"T_ISTOP", "T_TSTOP"} \subseteq Flags \ {"T_STOP", "T_CARR"}
      BY DEF Flags
    <2>6. Goes(L, K)
      BY <2>3, <2>5, ClearGoes
    <2>7. Goes(K, M)
      BY <2>5, <2>6, ClearGoes DEF Goes
    <2>8. GoesOn(p, "rnext", L, 1) \/ Resume(p, M) \/ GoesOn(p, "rnext", M, 1)
      BY <2>2
    <2> HIDE DEF K, M
    <2>9. Goes(line, M) /\ Moving(M) /\ Moving(L)
      BY <1>2, <2>4, <2>6, <2>7 DEF Goes
    <2> QED
      BY <1>1, <1>3, <1>4, <2>4, <2>8, <2>9, GoesOnDInv DEF Goes
  <1> QED
    BY <1>5, <1>6, <1>7

LEMMA WriteDInv ==
  ASSUME DInv, IInv, setup' = setup, NEW p \in Procs,
         \/ ttwrite(p) \/ ttwriteNext(p) \/ ttwritePut(p) \/ ttwriteIntr(p) \/ ttwriteGoOn(p)
  PROVE  DInv'
  <1>0. line \in Lines /\ setup \in SetupType /\ Goes(line, line)
    BY LineTypes DEF IInv, Goes
  <1>1. pc[p] \in {"user", "wnext", "wput", "whigh", "wclist"} /\ ie' = ie
    BY DEF ttwrite, ttwriteNext, ttwritePut, ttwriteIntr, ttwriteGoOn, At, hardware
  <1>2. {"user", "wnext", "wput", "whigh", "wclist"} \subseteq Locs \ {"closed", "opening", "cdrain"}
    BY DEF Locs
  <1>3. ASSUME NEW L, Goes(line, L), Enqueue(p, L) PROVE DInv'
    <2>1. CASE \E M \in Queued(L, "x") : GoesOn(p, "wnext", M, cnt[p] - 1)
      <3>1. PICK M \in Queued(L, "x") : GoesOn(p, "wnext", M, cnt[p] - 1)
        BY <2>1
      <3>2. M \in Lines /\ ("T_CARR" \in L.flags => "T_CARR" \in M.flags)
        BY <1>0, <1>3, QueuedCarr DEF Goes, Chars
      <3> QED
        BY <1>1, <1>2, <1>3, <3>1, <3>2, GoesOnDInv DEF Goes
    <2>2. CASE \E M \in NoRoom(L) : Sleeps(p, "wclist", M)
      <3>1. PICK M \in NoRoom(L) : Sleeps(p, "wclist", M)
        BY <2>2
      <3>2. M \in ttstart(L)
        BY DEF NoRoom
      <3>3. Goes(L, M) /\ Moving(M)
        BY <1>0, <1>3, <3>2, ttstartGoes DEF Goes
      <3>4. Goes(line, M)
        BY <1>3, <3>3 DEF Goes
      <3> QED
        BY <1>1, <1>2, <3>1, <3>3, <3>4, SleepsDInv
    <2> QED
      BY <1>3, <2>1, <2>2 DEF Enqueue
  <1>4. CASE ttwrite(p)
    <2>1. PICK n \in 1 .. MaxWrite : GoesOn(p, "wnext", line, n)
      BY <1>4 DEF ttwrite
    <2> QED
      BY <1>0, <1>1, <1>2, <2>1, GoesOnDInv
  <1>5. CASE ttwriteNext(p)
    <2>0. pc[p] = "wnext"
      BY <1>5 DEF ttwriteNext, At
    <2>1. "T_CARR" \in line.flags
      BY <2>0 DEF DInv, ChipInv
    <2>2. \/ \E L \in ttstart(line) : Returns(p, "user", L)
          \/ GoesOn(p, "wput", line, cnt[p])
      BY <1>5, <2>1 DEF ttwriteNext
    <2>3. CASE \E L \in ttstart(line) : Returns(p, "user", L)
      BY <1>0, <1>1, <2>3, ttstartGoes, ReturnsDInv
    <2>4. CASE GoesOn(p, "wput", line, cnt[p])
      BY <1>0, <1>1, <1>2, <2>4, GoesOnDInv
    <2> QED
      BY <2>2, <2>3, <2>4
  <1>6. CASE ttwritePut(p)
    <2>1. CASE Len(line.oq) < OHILIM
      BY <1>0, <1>3, <1>6, <2>1 DEF ttwritePut
    <2>2. CASE ~(Len(line.oq) < OHILIM)
      <3>1. PICK L \in ttstart(line) :
              IF Len(L.oq) < OHILIM THEN Enqueue(p, L)
                                    ELSE Sleeps(p, "whigh", Set(L, "T_HILIM"))
        BY <1>6, <2>2 DEF ttwritePut
      <3>2. Goes(line, L) /\ Moving(L) /\ L \in Lines
        BY <1>0, ttstartGoes DEF Goes
      <3>3. Goes(L, Set(L, "T_HILIM"))
        BY <3>2, SetGoes DEF Flags
      <3>4. Goes(line, Set(L, "T_HILIM")) /\ Moving(Set(L, "T_HILIM"))
        BY <3>2, <3>3 DEF Goes
      <3>5. CASE Enqueue(p, L)
        BY <1>3, <3>2, <3>5
      <3>6. CASE Sleeps(p, "whigh", Set(L, "T_HILIM"))
        BY <1>1, <1>2, <3>4, <3>6, SleepsDInv
      <3> QED
        BY <3>1, <3>5, <3>6
    <2> QED
      BY <2>1, <2>2
  <1>7. CASE ttwriteIntr(p)
    <2>1. Returns(p, "user", line) /\ At(p, {"whigh"}) /\ pc[p] = "whigh"
      BY <1>7 DEF ttwriteIntr, At
    <2>2. Moving(line)
      BY <2>1, MovesAt
    <2> QED
      BY <1>0, <1>1, <2>1, <2>2, ReturnsDInv
  <1>8. CASE ttwriteGoOn(p)
    BY <1>0, <1>3, <1>8 DEF ttwriteGoOn
  <1> QED
    BY <1>4, <1>5, <1>6, <1>7, <1>8

LEMMA SimpleDInv ==
  ASSUME DInv, IInv, setup' = setup, NEW p \in Procs,
         \/ waitq(p) \/ Interrupted(p) \/ TIOCSETN(p) \/ TIOCFLUSH(p) \/ TIOCHPCL(p)
  PROVE  DInv'
  <1>0. line \in Lines /\ setup \in SetupType /\ Goes(line, line)
    BY LineTypes DEF IInv, Goes
  <1>1. pc[p] \in {"rclist", "wclist", "rd", "user"} /\ ie' = ie
    BY DEF waitq, Interrupted, TIOCSETN, TIOCFLUSH, TIOCHPCL, At, hardware, DInv, LastInv
  <1>2. Moving(line)
    <2>1. \E ls : At(p, ls)
      BY DEF waitq, Interrupted, TIOCSETN, TIOCFLUSH, TIOCHPCL
    <2> QED
      BY <1>1, <2>1, MovesAt
  <1>3. CASE waitq(p)
    <2>1. pc[p] \in Locs \ {"closed", "opening", "cdrain"} /\ Sleeps(p, pc[p], line)
      BY <1>1, <1>3 DEF waitq, Locs
    <2> QED
      BY <1>0, <1>1, <1>2, <2>1, SleepsDInv
  <1>4. CASE Interrupted(p) \/ TIOCSETN(p)
    <2>1. Returns(p, "user", line)
      BY <1>1, <1>4 DEF Interrupted, TIOCSETN, At
    <2> QED
      BY <1>0, <1>1, <1>2, <2>1, ReturnsDInv
  <1>5. CASE TIOCFLUSH(p)
    <2>1. PICK L \in ttflush(line) : Returns(p, "user", L)
      BY <1>5 DEF TIOCFLUSH
    <2> QED
      BY <1>0, <1>1, <2>1, ttflushGoes, ReturnsDInv
  <1>6. CASE TIOCHPCL(p)
    <2>1. PICK L \in {Set(line, "T_HPCL"), Clear(line, "T_HPCL")} : Returns(p, "user", L)
      BY <1>6 DEF TIOCHPCL
    <2>2. Goes(line, L)
      BY <1>0, <2>1, SetGoes, ClearGoes DEF Flags
    <2> QED
      BY <1>1, <1>2, <2>1, <2>2, ReturnsDInv DEF Goes
  <1> QED
    BY <1>3, <1>4, <1>5, <1>6

\* A drain that is not of a close.
LEMMA DrainDInv ==
  ASSUME DInv, IInv, setup' = setup, NEW p \in Procs, pc[p] # "closed",
         NEW l \in {"drain", "drainflush"}, NEW L, Goes(line, L), Moving(L),
         Drain(p, l, L) \/ AfterDrain(p, l, L)
  PROVE  DInv'
  <1>0. setup \in SetupType /\ L \in Lines
    BY LineTypes DEF IInv, Goes
  <1>1. CASE AfterDrain(p, l, L)
    <2>1. CASE l = "drain"
      <3>1. Returns(p, "user", L) /\ ie' = ie
        BY <1>1, <2>1 DEF AfterDrain, hardware
      <3> QED
        BY <3>1, ReturnsDInv
    <2>2. CASE l = "drainflush"
      <3>1. (\E M \in ttflush(L) : Returns(p, "user", M)) /\ ie' = ie
        BY <1>1, <2>2 DEF AfterDrain, hardware
      <3>2. PICK M \in ttflush(L) : Returns(p, "user", M)
        BY <3>1
      <3>3. Goes(L, M) /\ Moving(M)
        BY <1>0, ttflushGoes
      <3>4. Goes(line, M)
        BY <3>3 DEF Goes
      <3> QED
        BY <3>1, <3>2, <3>3, <3>4, ReturnsDInv
    <2> QED
      BY <2>1, <2>2
  <1>2. CASE L.oq # <<>> /\ Drain(p, l, L)
    <2> DEFINE M == Set(L, "T_DRAIN")
    <2>1. Sleeps(p, l, M) /\ ie' = ie
      BY <1>2 DEF Drain, hardware
    <2>2. /\ M \in Lines /\ M.oq = L.oq /\ M.txe = L.txe /\ M.tip = L.tip
          /\ M.flags = L.flags \union {"T_DRAIN"}
      BY <1>0, SetLine DEF Same, Flags
    <2> HIDE DEF M
    <2>3. Moving(M) /\ Goes(line, M)
      BY <1>2, <2>2 DEF Moving, Goes
    <2>4. l \in Locs \ {"closed", "opening", "cdrain"}
      BY DEF Locs
    <2> QED
      BY <2>1, <2>3, <2>4, SleepsDInv
  <1> QED
    BY <1>1, <1>2 DEF Drain

\* The last close: it drains, or it is done.
LEMMA CloseDInv ==
  ASSUME DInv, IInv, setup' = setup, NEW p \in Procs, pc[p] # "closed", Moving(line),
         \A q \in Procs \ {p} : pc[q] = "closed",
         Drain(p, "cdrain", line) \/ AfterDrain(p, "cdrain", line)
  PROVE  DInv'
  <1>0. setup \in SetupType /\ line \in Lines
    BY LineTypes DEF IInv
  <1>1. CASE AfterDrain(p, "cdrain", line)
    <2>1. (\E M \in ttflush(line) : Returns(p, "closed", [M EXCEPT !.flags = {}])) /\ ie' = "none"
      BY <1>1 DEF AfterDrain
    <2>2. PICK M \in ttflush(line) : Returns(p, "closed", [M EXCEPT !.flags = {}])
      BY <2>1
    <2>3. M \in Lines /\ M.oq = <<>>
      BY <1>0, ttflushLine
    <2> DEFINE N == [M EXCEPT !.flags = {}]
    <2>4. N \in Lines /\ N.flags = {} /\ N.oq = <<>>
      BY <2>3 DEF Lines
    <2>5. line' = [N EXCEPT !.wake = {}] /\ pc' = [pc EXCEPT ![p] = "closed"]
      BY <2>2 DEF Returns, Becomes, Goto
    <2> HIDE DEF N
    <2>6. line'.flags = {} /\ line'.oq = <<>>
      BY <2>4, <2>5, LineAtRest DEF Same
    <2>7. \A q \in Procs : pc'[q] = "closed"
      BY <2>5 DEF IInv, TypeInv
    <2> QED
      BY <2>1, <2>6, <2>7 DEF DInv, MoveInv, Moving, ChipInv, LastInv
  <1>2. CASE line.oq # <<>> /\ Drain(p, "cdrain", line)
    <2> DEFINE M == Set(line, "T_DRAIN")
    <2>1. Sleeps(p, "cdrain", M) /\ ie' = ie
      BY <1>2 DEF Drain, hardware
    <2>2. /\ M \in Lines /\ M.oq = line.oq /\ M.txe = line.txe /\ M.tip = line.tip
          /\ M.flags = line.flags \union {"T_DRAIN"}
      BY <1>0, SetLine DEF Same, Flags
    <2>3. line' = [M EXCEPT !.wake = {}] /\ pc' = [pc EXCEPT ![p] = "cdrain"]
      BY <2>1 DEF Sleeps, Becomes, Goto
    <2> HIDE DEF M
    <2>4. /\ line'.flags = M.flags /\ line'.oq = M.oq /\ line'.txe = M.txe
          /\ line'.tip = M.tip
      BY <2>2, <2>3, LineAtRest DEF Same
    <2>5. pc'[p] = "cdrain" /\ \A q \in Procs \ {p} : pc'[q] = "closed"
      BY <2>3 DEF IInv, TypeInv
    <2>6. ie = "all" /\ "T_CARR" \in line.flags
      BY DEF DInv, ChipInv
    <2>7. MoveInv'
      BY <1>2, <2>2, <2>4 DEF MoveInv, Moving
    <2>8. ChipInv'
      BY <2>1, <2>2, <2>4, <2>6 DEF ChipInv
    <2>9. LastInv'
      BY <2>5 DEF LastInv
    <2> QED
      BY <2>7, <2>8, <2>9 DEF DInv
  <1> QED
    BY <1>1, <1>2 DEF Drain

LEMMA DrainedDInv ==
  ASSUME DInv, IInv, setup' = setup, NEW p \in Procs, Drained(p)
  PROVE  DInv'
  <1>0. line \in Lines /\ Goes(line, line)
    BY LineTypes DEF IInv, Goes
  <1>1. /\ At(p, {"drain", "drainflush", "cdrain"}) /\ pc[p] \in {"drain", "drainflush", "cdrain"}
        /\ AfterDrain(p, pc[p], line) \/ Drain(p, pc[p], line)
    BY DEF Drained, At
  <1>2. Moving(line)
    BY <1>1, MovesAt
  <1>3. CASE pc[p] = "cdrain"
    <2>1. \A q \in Procs \ {p} : pc[q] = "closed"
      BY <1>3 DEF DInv, LastInv
    <2> QED
      BY <1>1, <1>2, <1>3, <2>1, CloseDInv
  <1>4. CASE pc[p] # "cdrain"
    BY <1>0, <1>1, <1>2, <1>4, DrainDInv
  <1> QED
    BY <1>3, <1>4

LEMMA IoctlDInv ==
  ASSUME DInv, IInv, setup' = setup, NEW p \in Procs, TIOCSETP(p) \/ TIOCSETC(p)
  PROVE  DInv'
  <1>0. line \in Lines /\ setup \in SetupType /\ Goes(line, line) /\ "T_STOP" \in Flags
    BY LineTypes DEF IInv, Goes, Flags
  <1>1. At(p, {"user"}) /\ pc[p] = "user"
    BY DEF TIOCSETP, TIOCSETC, At
  <1>2. Moving(line)
    BY <1>1, MovesAt
  <1>3. \E m, l : l \in {"drain", "drainflush"} /\ \E L \in Lifted(line, m) : Drain(p, l, L)
    BY DEF TIOCSETP, TIOCSETC
  <1>4. PICK m, l : l \in {"drain", "drainflush"} /\ \E L \in Lifted(line, m) : Drain(p, l, L)
    BY <1>3
  <1>5. PICK L \in Lifted(line, m) : Drain(p, l, L)
    BY <1>4
  <1>6. Goes(line, L) /\ Moving(L)
    <2>1. CASE L = line
      BY <1>0, <1>2, <2>1
    <2>2. CASE L \in ttstart(Clear(line, "T_STOP"))
      <3> DEFINE M == Clear(line, "T_STOP")
      <3>1. M \in Lines /\ M.flags = line.flags \ {"T_STOP"}
        BY <1>0, ClearLine
      <3>2. Goes(M, L) /\ Moving(L)
        BY <1>0, <2>2, <3>1, ttstartGoes
      <3> QED
        BY <3>1, <3>2 DEF Goes
    <2> QED
      BY <2>1, <2>2 DEF Lifted
  <1> QED
    BY <1>1, <1>4, <1>5, <1>6, DrainDInv

LEMMA alcloseDInv ==
  ASSUME DInv, IInv, setup' = setup, NEW p \in Procs, alclose(p)
  PROVE  DInv'
  <1>0. line \in Lines
    BY LineTypes DEF IInv
  <1>1. At(p, {"user"}) /\ pc[p] = "user"
    BY DEF alclose, At
  <1>2. Moving(line)
    BY <1>1, MovesAt
  <1>3. CASE topen = 1
    <2>1. Drain(p, "cdrain", line)
      BY <1>3 DEF alclose
    <2>2. p \in Open /\ IsFiniteSet(Open) /\ Cardinality(Open) = 1
      <3>1. Open \subseteq Procs
        BY DEF Open
      <3> QED
        BY <1>1, <1>3, <3>1, TtyAssumption, FS_Subset DEF Open, Outside, IInv, CountInv
    <2>3. Open = {p}
      <3>1. Cardinality({p}) = 1 /\ {p} \subseteq Open
        BY <2>2, FS_Singleton
      <3> QED
        BY <2>2, <3>1, FS_Subset
    <2>4. ASSUME NEW q \in Procs \ {p} PROVE pc[q] = "closed"
      <3>1. pc[q] \in Outside /\ pc[q] # "opening" /\ pc[q] # "cdrain"
        BY <1>1, <2>3 DEF Open, DInv, LastInv
      <3> QED
        BY <3>1 DEF Outside
    <2> QED
      BY <1>1, <1>2, <2>1, <2>4, CloseDInv
  <1>4. CASE topen # 1
    <2>1. Returns(p, "closed", line) /\ ie' = ie
      BY <1>4 DEF alclose, hardware
    <2>2. line' = [line EXCEPT !.wake = {}] /\ pc' = [pc EXCEPT ![p] = "closed"]
      BY <2>1 DEF Returns, Becomes, Goto
    <2>3. /\ line'.flags = line.flags /\ line'.oq = line.oq /\ line'.txe = line.txe
          /\ line'.tip = line.tip
      BY <1>0, <2>2, LineAtRest DEF Same
    <2>4. pc'[p] = "closed" /\ \A q \in Procs \ {p} : pc'[q] = pc[q]
      BY <2>2 DEF IInv, TypeInv
    <2>5. MoveInv'
      BY <1>2, <2>3 DEF MoveInv, Moving
    <2>6. ChipInv' /\ LastInv'
      BY <1>1, <2>1, <2>3, <2>4 DEF DInv, ChipInv, LastInv
    <2> QED
      BY <2>5, <2>6 DEF DInv
  <1> QED
    BY <1>3, <1>4

\* The chip and the character lists, of a line that may be closed.
LEMMA ChipDInv ==
  ASSUME DInv, IInv, setup' = setup, Shifted \/ RunsOut \/ Recovers \/ alTxintr
  PROVE  DInv'
  <1>0. line \in Lines /\ setup \in SetupType /\ "clt" \in Channels
    BY LineTypes DEF IInv, Channels
  <1>1. ASSUME NEW M \in Lines, M.oq = line.oq, M.flags = line.flags,
               (M.txe = line.txe /\ M.tip = line.tip) \/ (ie = "all" => M.tip),
               Interrupt(M, {}), ie' = ie
        PROVE  DInv'
    <2>1. line' = [M EXCEPT !.wake = {}] /\ pc' = pc /\ self' = self
      BY <1>1 DEF Interrupt
    <2>2. /\ line'.flags = line.flags /\ line'.oq = line.oq /\ line'.txe = M.txe
          /\ line'.tip = M.tip
      BY <1>1, <2>1, LineAtRest DEF Same
    <2>3. ChipInv' /\ LastInv'
      BY <1>1, <2>1, <2>2 DEF DInv, ChipInv, LastInv
    <2>4. CASE Starts
      BY <2>1, <2>3, <2>4 DEF DInv, MoveInv, Starts
    <2>5. CASE Moving(line)
      <3>1. Moving(line)'
        BY <1>1, <2>2, <2>5 DEF Moving, DInv, ChipInv
      <3> QED
        BY <2>3, <3>1 DEF DInv, MoveInv
    <2> QED
      BY <2>4, <2>5 DEF DInv, MoveInv
  <1>2. CASE Shifted
    <2> DEFINE M == [line EXCEPT !.txe = TRUE, !.tip = (ie = "all")]
    <2>1. /\ M \in Lines /\ M.oq = line.oq /\ M.flags = line.flags
          /\ M.tip = (ie = "all")
      BY <1>0 DEF Lines
    <2>2. Interrupt(M, {}) /\ ie' = ie
      BY <1>2 DEF Shifted, hardware
    <2> HIDE DEF M
    <2> QED
      BY <1>1, <2>1, <2>2
  <1>3. CASE RunsOut
    <2> DEFINE M == [line EXCEPT !.short = TRUE]
    <2>1. /\ M \in Lines /\ M.oq = line.oq /\ M.flags = line.flags
          /\ M.txe = line.txe /\ M.tip = line.tip
      BY <1>0 DEF Lines
    <2>2. Interrupt(M, {}) /\ ie' = ie
      BY <1>3 DEF RunsOut, hardware
    <2> HIDE DEF M
    <2> QED
      BY <1>1, <2>1, <2>2
  <1>4. CASE Recovers
    <2> DEFINE K == [line EXCEPT !.short = FALSE]
               M == Wake(K, "clt")
    <2>1. /\ K \in Lines /\ K.oq = line.oq /\ K.flags = line.flags
          /\ K.txe = line.txe /\ K.tip = line.tip
      BY <1>0 DEF Lines
    <2>2. Interrupt(M, {}) /\ ie' = ie
      BY <1>4 DEF Recovers, hardware
    <2> HIDE DEF K
    <2>3. /\ M \in Lines /\ M.oq = line.oq /\ M.flags = line.flags
          /\ M.txe = line.txe /\ M.tip = line.tip
      BY <1>0, <2>1, WakeLine DEF Same
    <2> HIDE DEF M
    <2> QED
      BY <1>1, <2>2, <2>3
  <1>5. CASE alTxintr
    <2> DEFINE M == [line EXCEPT !.tip = FALSE]
    <2>1. M \in Lines /\ M.flags = line.flags
      BY <1>0 DEF Lines
    <2>2. PICK L \in ttstart(M) : Interrupt(L, {})
      BY <1>5 DEF alTxintr
    <2>3. ie = "all" /\ ie' = ie
      BY <1>5 DEF alTxintr, hardware
    <2> HIDE DEF M
    <2>4. Goes(M, L) /\ Moving(L)
      BY <1>0, <2>1, ttstartGoes
    <2>5. Goes(line, L)
      BY <2>1, <2>4 DEF Goes
    <2> QED
      BY <2>2, <2>3, <2>5, IntrDInv
  <1> QED
    BY <1>2, <1>3, <1>4, <1>5

LEMMA InputDInv ==
  ASSUME DInv, IInv, setup' = setup, ~Modem, Input
  PROVE  DInv'
  <1>0. /\ line \in Lines /\ setup \in SetupType /\ Goes(line, line)
        /\ "T_STOP" \in Flags \ {"T_DRAIN"} /\ NCIB \in Nat /\ "x" \in Chars
    BY LineTypes, TtyAssumption DEF IInv, Goes, Flags, Chars
  <1>1. ASSUME NEW L \in Lines, NEW M \in Echoed(L) \union {L} PROVE Goes(L, M)
    <2>1. CASE M \in Echo(L, "x")
      BY <1>0, <2>1, EchoGoes
    <2> QED
      BY <1>1, <2>1 DEF Echoed, Goes
  <1>2. ie' = ie /\ ~alEScarrier
    BY DEF Input, alEScarrier, ttinIntr, ttinStop, ttinStart, ttinEdit, ttinChar, ttinEscaped,
           alESbreak, hardware
  <1>3. ie = "all"
    <2>1. ie \in {"none", "modem", "all"} /\ ie # "none"
      BY <1>2 DEF Input, ttinIntr, ttinStop, ttinStart, ttinEdit, ttinChar, ttinEscaped,
                  alESbreak, alRxintr, IInv, TypeInv
    <2> QED
      BY <2>1 DEF DInv, ChipInv
  <1>4. CASE ttinIntr \/ alESbreak
    <2>1. \/ Interrupt(line, {})
          \/ \E M \in ttflush(line), S \in SUBSET InKernel : Interrupt(M, S)
      BY <1>4 DEF ttinIntr, alESbreak, ttsignal
    <2> QED
      BY <1>0, <1>2, <1>3, <2>1, ttflushGoes, IntrDInv
  <1>5. CASE ttinStop
    <2>1. Goes(line, Set(line, "T_STOP")) /\ Interrupt(Set(line, "T_STOP"), {})
      BY <1>0, <1>5, SetGoes DEF ttinStop
    <2> QED
      BY <1>2, <1>3, <2>1, IntrDInv
  <1>6. CASE ttinStart
    <2> DEFINE M == Clear(line, "T_STOP")
    <2>1. M \in Lines /\ M.flags = line.flags \ {"T_STOP"}
      BY <1>0, ClearLine
    <2>2. PICK L \in ttstart(M) : Interrupt(L, {})
      BY <1>6 DEF ttinStart
    <2> HIDE DEF M
    <2>3. Goes(M, L) /\ Moving(L)
      BY <1>0, <2>1, ttstartGoes
    <2>4. Goes(line, L)
      BY <2>1, <2>3 DEF Goes
    <2> QED
      BY <1>2, <1>3, <2>2, <2>4, IntrDInv
  <1>7. CASE ttinEdit
    <2>1. PICK k \in 0 .. MaxEdit :
            \E L \in ttstart([line EXCEPT !.oq = line.oq \o [i \in 1 .. k |-> "x"]]) :
              Interrupt(L, {})
      BY <1>7 DEF ttinEdit
    <2> DEFINE M == [line EXCEPT !.oq = line.oq \o [i \in 1 .. k |-> "x"]]
    <2>2. PICK L \in ttstart(M) : Interrupt(L, {})
      BY <2>1
    <2>3. k \in Nat
      BY <1>0 DEF SetupType, MaxEdit
    <2>4. M.flags = line.flags /\ M = [line EXCEPT !.oq = line.oq \o [i \in 1 .. k |-> "x"]]
      BY <1>0 DEF Lines
    <2> HIDE DEF M
    <2>5. M \in Lines
      BY <1>0, <2>3, <2>4, EditAdds DEF Adds
    <2>6. Goes(M, L) /\ Moving(L)
      BY <1>0, <2>5, ttstartGoes
    <2>7. Goes(line, L)
      BY <2>4, <2>6 DEF Goes
    <2> QED
      BY <1>2, <1>3, <2>2, <2>7, IntrDInv
  <1>8. CASE ttinChar
    <2> DEFINE lim == IF mode = "cooked" THEN NCIB ELSE 1
    <2>1. PICK L \in {line} \union {Delivered(line, n) : n \in Arrives(lim)} :
            \E M \in Echoed(L) \union {L} : \E N \in Limits(M) : Interrupt(N, {})
      BY <1>8 DEF ttinChar
    <2>2. lim \in Nat
      BY <1>0
    <2> HIDE DEF lim
    <2>3. PICK M \in Echoed(L) \union {L} : \E N \in Limits(M) : Interrupt(N, {})
      BY <2>1
    <2>4. PICK N \in Limits(M) : Interrupt(N, {})
      BY <2>3
    <2>5. Goes(line, L)
      BY <2>2, DeliveredGoes
    <2>6. Goes(L, M)
      BY <1>1, <2>5 DEF Goes
    <2>7. Goes(M, N)
      BY <1>0, <2>6, LimitsGoes DEF Goes
    <2>8. Goes(line, N)
      BY <2>5, <2>6, <2>7 DEF Goes
    <2> QED
      BY <1>2, <1>3, <2>4, <2>8, IntrDInv
  <1>9. CASE ttinEscaped
    <2>1. PICK n \in Arrives(NCIB) : \E M \in Echoed(Delivered(line, n)) : Interrupt(M, {})
      BY <1>9 DEF ttinEscaped
    <2> DEFINE L == Delivered(line, n)
    <2>2. PICK M \in Echoed(L) : Interrupt(M, {})
      BY <2>1
    <2>3. L \in {line} \union {Delivered(line, k) : k \in Arrives(NCIB)}
      OBVIOUS
    <2> HIDE DEF L
    <2>4. Goes(line, L)
      BY <1>0, <2>3, DeliveredGoes
    <2>5. Goes(L, M)
      BY <1>1, <2>4 DEF Goes
    <2>6. Goes(line, M)
      BY <2>4, <2>5 DEF Goes
    <2> QED
      BY <1>2, <1>3, <2>2, <2>6, IntrDInv
  <1> QED
    BY <1>2, <1>4, <1>5, <1>6, <1>7, <1>8, <1>9 DEF Input

LEMMA SignalDInv ==
  ASSUME DInv, IInv, setup' = setup, NEW p \in Procs, Signal(p)
  PROVE  DInv'
  <1>1. Goes(line, line)
    BY LineTypes DEF IInv, Goes
  <1>2. Interrupt(line, {p}) /\ ie' = ie /\ ie = "all"
    BY DEF Signal, InKernel, hardware, DInv, ChipInv
  <1> QED
    BY <1>1, <1>2, IntrDInv

LEMMA NextDInv ==
  ASSUME Plain
  PROVE  IInv /\ DInv /\ [Next]_vars => DInv'
  <1>0. IInv => ~Modem /\ ~Reopen
    BY DEF Plain, IInv, TypeInv, Modem, Reopen
  <1>1. ASSUME IInv, DInv, UNCHANGED vars PROVE DInv'
    BY <1>1 DEF vars, DInv, MoveInv, Starts, Moving, ChipInv, LastInv
  <1>2. ASSUME IInv, DInv, setup' = setup, NEW p \in Procs, Calls(p) PROVE DInv'
    BY <1>0, <1>2, WriteDInv, SimpleDInv, IoctlDInv, alcloseDInv DEF Calls, alopen
  <1>3. ASSUME IInv, DInv, setup' = setup, NEW p \in Procs, Runs(p) PROVE DInv'
    <2>1. ~alopenWoken(p)
      BY <1>3 DEF alopenWoken, At, DInv, LastInv
    <2> QED
      BY <1>3, <2>1, ReadDInv, WriteDInv, SimpleDInv, DrainedDInv DEF Runs
  <1>4. ASSUME IInv, DInv, Next PROVE DInv'
    BY <1>0, <1>2, <1>3, <1>4, SignalDInv, ChipDInv, InputDInv DEF Next
  <1> QED
    BY <1>1, <1>4

\* ttioctl, alclose and ttstart, on lines without modem control that are not
\* opened again: who waits for the output to drain has left T_DRAIN, and the
\* output moves or was stopped by the other end.
THEOREM TtyDrainSleepsRightly ==
  ASSUME Plain
  PROVE  Spec => []DrainSleepsRightly
  <1>1. IInv /\ DInv => DrainSleepsRightly
    <2> SUFFICES ASSUME IInv, DInv, NEW p \in Draining PROVE
            /\ "T_DRAIN" \in line.flags
            /\ ~line.txe \/ line.tip \/ "T_STOP" \in line.flags \/ self # None
      BY DEF DrainSleepsRightly
    <2>1. "T_DRAIN" \in line.flags
      BY DEF Draining, IInv, SleepInv, Rightly, DrainSleeps, Drains
    <2> QED
      BY <2>1 DEF DInv, MoveInv, Starts, Moving
  <1>2. Init => IInv /\ DInv
    BY InitIInv, InitDInv
  <1>3. IInv /\ DInv /\ [Next]_vars => (IInv /\ DInv)'
    BY NextIInv, NextDInv
  <1> QED
    BY <1>1, <1>2, <1>3, PTL DEF Spec

=============================================================================
