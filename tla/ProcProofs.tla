----------------------------- MODULE ProcProofs -----------------------------
(***************************************************************************)
(* Proofs about the life of processes, for any number of process           *)
(* structures and any range of process ids that is large enough for them.  *)
(***************************************************************************)
EXTENDS Proc, TLAPS

\* The chain is the structures in use, process 1 always among them; a free
\* structure is clear, and so is p_ppid until fork sets it.
ChainInv ==
  /\ Eve \in chain /\ pid[Eve] = 1 /\ ~ ssig[Eve]
  /\ pc[Eve] \in {"user", "fork", "wgap", "waiting"}
  /\ \A s \in Slots :
       /\ s \in chain <=> pc[s] # "free"
       /\ s \in chain \ {Eve} => pid[s] >= 2
       /\ state[s] = "PSDEAD" <=> pc[s] = "dead"
       /\ s \notin chain => state[s] = "PSRUN" /\ flags[s] = {}
       /\ pc[s] \in {"new", "free"} => ppid[s] = 0 /\ flags[s] = {}

\* Every fork in progress is making a process of its own, and every ptrace
\* request is about some process.
ForkInv ==
  /\ \A p \in Slots : pc[p] = "fork" =>
       /\ child[p] \in Slots /\ pc[child[p]] = "new"
       /\ \A q \in Slots : pc[q] = "fork" /\ child[q] = child[p] => q = p
  /\ \A p \in Slots : pc[p] = "ptset" => child[p] \in Slots

\* Only self is between the test and the end of sleep.
SelfInv ==
  /\ self # None => pc[self] \in {"wgap", "pgap"}
  /\ \A s \in Slots : pc[s] \in {"wgap", "pgap"} => self = s

\* ParentLives, and the parent is not itself being made.
Parents ==
  \A s \in chain \ {Eve} : pc[s] # "new" =>
    \E p \in chain :
      p # s /\ pid[p] = ppid[s] /\ pc[p] \notin {"new", "dead"}

\* WaitNotLost, from the test at the start of sleep on.
WaitInv ==
  \A p \in Slots :
    pc[p] = "wgap" \/ p \in Asleep("waiting") =>
      \A c \in Ready(p) : state[c] # "PSDEAD" /\ (p = Eve \/ pc[c] = "ptlock")

IInv ==
  /\ TypeOK /\ ChainInv /\ PidsUnique
  /\ ForkInv /\ SelfInv /\ Parents /\ WaitInv

-----------------------------------------------------------------------------
(***************************************************************************)
(* The initial state satisfies the inductive invariant.                    *)
(***************************************************************************)
LEMMA InitIInv == Init => IInv
  <1> SUFFICES ASSUME Init PROVE IInv
    OBVIOUS
  <1>1. TypeOK
    <2>1. nx \in BOOLEAN /\ late \in SUBSET Slots /\ chain \in SUBSET Slots
      BY ProcAssumption DEF Init
    <2>2. /\ ssig \in [Slots -> BOOLEAN]
          /\ flags \in [Slots -> SUBSET {"PFTRAC", "PFWAIT", "PFSTOP"}]
      BY DEF Init
    <2>3. pts \in [busy : BOOLEAN, pid : 0 .. NPID - 1, req : Requests]
      BY ProcAssumption DEF Init, Requests, NoRequest
    <2> QED
      BY <2>1, <2>2, <2>3, ProcAssumption DEF Init, TypeOK, Locs
  <1>2. ChainInv
    BY ProcAssumption DEF Init, ChainInv
  <1>3. PidsUnique /\ ForkInv /\ Parents
    BY DEF Init, PidsUnique, ForkInv, Parents
  <1>4. SelfInv
    BY DEF Init, SelfInv
  <1>5. WaitInv
    BY DEF Init, WaitInv, Asleep
  <1> QED
    BY <1>1, <1>2, <1>3, <1>4, <1>5 DEF IInv

(***************************************************************************)
(* A step that moves one process from one place to another, outside fork   *)
(* and exit, and wakes or stops processes on the way.                      *)
(***************************************************************************)
LEMMA MoveInv ==
  ASSUME IInv, NEW p \in Slots, NEW l \in Locs,
         pc[p] \notin {"free", "new", "dead", "fork"},
         l \notin {"free", "new", "dead", "fork", "wgap", "pgap"},
         p = Eve => l \in {"user", "waiting"},
         Goto(p, l),
         self' = None,
         self \in {None, p},
         UNCHANGED <<chain, pid, ppid>>,
         \A s \in Slots \ {p} : child'[s] = child[s],
         l = "ptset" => child'[p] \in Slots,
         ssig'[Eve] = ssig[Eve],
         \A s \in Slots : state'[s] = "PSDEAD" <=> state[s] = "PSDEAD",
         \A s \in Slots \ chain : state'[s] = state[s],
         \A s \in Slots : s # p => flags'[s] = flags[s]
  PROVE  ChainInv' /\ PidsUnique' /\ ForkInv' /\ SelfInv' /\ Parents'
  <1> USE DEF IInv, Goto
  <1>1. ChainInv'
    BY DEF ChainInv, TypeOK
  <1>2. PidsUnique'
    BY DEF PidsUnique
  <1>3. ForkInv'
    BY DEF ForkInv, TypeOK
  <1>4. SelfInv'
    BY ProcAssumption DEF SelfInv, TypeOK
  <1>5. Parents'
    BY DEF Parents, TypeOK, ChainInv
  <1> QED
    BY <1>1, <1>2, <1>3, <1>4, <1>5

(***************************************************************************)
(* wait stays right in a step that makes no child ready and puts nobody to *)
(* sleep in wait.                                                          *)
(***************************************************************************)
LEMMA WaitKept ==
  ASSUME IInv, UNCHANGED <<chain, pid, ppid>>,
         \A s \in Slots : state'[s] = "PSDEAD" <=> state[s] = "PSDEAD",
         \A s \in Slots :
           pc'[s] = "wgap" \/ (pc'[s] = "waiting" /\ state'[s] = "PSSLEEP") =>
             pc[s] = "wgap" \/ (pc[s] = "waiting" /\ state[s] = "PSSLEEP"),
         \A s \in Slots : pc[s] = "ptlock" => pc'[s] = "ptlock",
         \A s \in Slots :
           /\ "PFSTOP" \notin flags'[s]
           /\ "PFWAIT" \in flags'[s] \/ state[s] = "PSDEAD"
           => /\ "PFSTOP" \notin flags[s]
              /\ "PFWAIT" \in flags[s] \/ state[s] = "PSDEAD"
  PROVE  WaitInv'
  <1>1. \A p \in Slots : Ready(p)' \subseteq Ready(p)
    BY DEF Ready, Kids, IInv, TypeOK
  <1>2. \A p \in Slots : p \in Asleep("waiting")' =>
          p \in Asleep("waiting") \/ pc[p] = "wgap"
    BY DEF Asleep, IInv, TypeOK
  <1>3. \A p \in Slots : \A c \in Ready(p) : c \in Slots
    BY DEF Ready, Kids, IInv, TypeOK
  <1> SUFFICES ASSUME NEW p \in Slots,
                      pc'[p] = "wgap" \/ p \in Asleep("waiting")',
                      NEW c \in Ready(p)'
               PROVE  state'[c] # "PSDEAD" /\ (p = Eve \/ pc'[c] = "ptlock")
    BY DEF WaitInv
  <1>4. pc[p] = "wgap" \/ p \in Asleep("waiting")
    BY <1>2 DEF Asleep, IInv, TypeOK, ChainInv
  <1>5. state[c] # "PSDEAD" /\ (p = Eve \/ pc[c] = "ptlock")
    BY <1>1, <1>4 DEF IInv, WaitInv
  <1> QED
    BY <1>1, <1>3, <1>5

(***************************************************************************)
(* A signal: it may come between the test and the end of a sleep.          *)
(***************************************************************************)
LEMMA sendsigIInv ==
  ASSUME IInv, NEW p \in Slots, sendsig(p)
  PROVE  IInv'
  <1> USE DEF IInv, sendsig, wakeup, idvars, ptvars
  <1>1. TypeOK'
    BY DEF TypeOK
  <1>2. ChainInv'
    BY DEF ChainInv, TypeOK
  <1>3. PidsUnique' /\ ForkInv' /\ SelfInv' /\ Parents'
    BY DEF PidsUnique, ForkInv, SelfInv, Parents
  <1>4. WaitInv'
    BY WaitKept DEF TypeOK, Asleep
  <1> QED
    BY <1>1, <1>2, <1>3, <1>4

(***************************************************************************)
(* The steps that only move a process.                                     *)
(***************************************************************************)
LEMMA sleepIInv ==
  ASSUME IInv, NEW p \in Slots, sleep(p)
  PROVE  IInv'
  <1> USE DEF sleep, idvars, ptvars
  <1>1. TypeOK'
    BY DEF IInv, TypeOK, Goto, Locs
  <1>2. pc[p] \in {"wgap", "pgap"} /\ state[p] # "PSDEAD" /\ p \in chain
    BY ProcAssumption DEF IInv, SelfInv, ChainInv
  <1>3. ChainInv' /\ PidsUnique' /\ ForkInv' /\ SelfInv' /\ Parents'
    <2>1. CASE pc[p] = "wgap"
      <3>1. Goto(p, "waiting")
        BY <2>1
      <3> QED
        BY <1>2, <2>1, <3>1, MoveInv DEF IInv, TypeOK, Locs
    <2>2. CASE pc[p] = "pgap"
      <3>1. Goto(p, "pausing") /\ p # Eve
        BY <2>2 DEF IInv, ChainInv
      <3> QED
        BY <1>2, <2>2, <3>1, MoveInv DEF IInv, TypeOK, Locs
    <2> QED
      BY <1>2, <2>1, <2>2
  <1>4. WaitInv'
    BY <1>2, WaitKept DEF IInv, TypeOK, Goto
  <1> QED
    BY <1>1, <1>3, <1>4 DEF IInv

LEMMA interruptedIInv ==
  ASSUME IInv, NEW p \in Slots, interrupted(p)
  PROVE  IInv'
  <1> USE DEF interrupted, idvars, ptvars
  <1>1. TypeOK'
    BY DEF IInv, TypeOK, Goto, Locs
  <1>2. ChainInv' /\ PidsUnique' /\ ForkInv' /\ SelfInv' /\ Parents'
    BY MoveInv DEF Locs
  <1>3. WaitInv'
    BY WaitKept DEF IInv, TypeOK, Goto
  <1> QED
    BY <1>1, <1>2, <1>3 DEF IInv

LEMMA uexitIInv ==
  ASSUME IInv, NEW p \in Slots, uexit(p)
  PROVE  IInv'
  <1> USE DEF uexit, idvars, ptvars
  <1>1. TypeOK'
    BY DEF IInv, TypeOK, Goto, Locs
  <1>2. ChainInv' /\ PidsUnique' /\ ForkInv' /\ SelfInv' /\ Parents'
    BY MoveInv DEF Locs
  <1>3. WaitInv'
    BY WaitKept DEF IInv, TypeOK, Goto
  <1> QED
    BY <1>1, <1>2, <1>3 DEF IInv

LEMMA tracemeIInv ==
  ASSUME IInv, NEW p \in Slots, traceme(p)
  PROVE  IInv'
  <1> USE DEF traceme, idvars, ptvars
  <1>1. TypeOK'
    BY DEF IInv, TypeOK
  <1>2. ChainInv' /\ PidsUnique' /\ ForkInv' /\ SelfInv' /\ Parents'
    <2>1. Goto(p, "user")
      BY DEF Goto, IInv, TypeOK
    <2> QED
      BY <2>1, MoveInv DEF Locs, IInv, TypeOK
  <1>3. WaitInv'
    BY WaitKept DEF IInv, TypeOK
  <1> QED
    BY <1>1, <1>2, <1>3 DEF IInv

(***************************************************************************)
(* The start of a sleep.  For wait, no child is ready.                     *)
(***************************************************************************)
LEMMA sleepTestIInv ==
  ASSUME IInv, NEW p \in Slots, NEW gap \in {"wgap", "pgap"},
         self = None, pc[p] \in {"user", "waiting"},
         p = Eve => gap = "wgap",
         gap = "wgap" => Ready(p) = {},
         sleepTest(p, gap)
  PROVE  IInv'
  <1> USE DEF sleepTest, idvars, ptvars
  <1>1. CASE ssig[p]
    <2>1. Goto(p, "user") /\ UNCHANGED self
      BY <1>1
    <2>2. TypeOK'
      BY <2>1 DEF IInv, TypeOK, Goto, Locs
    <2>3. ChainInv' /\ PidsUnique' /\ ForkInv' /\ SelfInv' /\ Parents'
      BY <2>1, MoveInv DEF Locs
    <2>4. WaitInv'
      BY <2>1, WaitKept DEF IInv, TypeOK, Goto
    <2> QED
      BY <2>2, <2>3, <2>4 DEF IInv
  <1>2. CASE ~ ssig[p]
    <2>1. Goto(p, gap) /\ self' = p
      BY <1>2
    <2>2. TypeOK'
      BY <2>1 DEF IInv, TypeOK, Goto, Locs
    <2>3. ChainInv'
      BY <2>1 DEF IInv, ChainInv, TypeOK, Goto
    <2>4. PidsUnique' /\ ForkInv' /\ Parents'
      BY <2>1 DEF IInv, PidsUnique, ForkInv, Parents, TypeOK, Goto, ChainInv
    <2>5. SelfInv'
      BY <2>1, ProcAssumption DEF IInv, SelfInv, TypeOK, Goto
    <2>6. WaitInv'
      <3>1. \A q \in Slots : Ready(q)' = Ready(q)
        BY DEF Ready, Kids
      <3>2. \A q \in Slots : q # p =>
              /\ pc'[q] = pc[q]
              /\ q \in Asleep("waiting")' => q \in Asleep("waiting")
        BY <2>1 DEF IInv, TypeOK, Goto, Asleep
      <3>3. p \notin Asleep("waiting")'
        BY <2>1 DEF IInv, TypeOK, Goto, Asleep
      <3>4. pc'[p] = gap
        BY <2>1 DEF IInv, TypeOK, Goto
      <3>5. \A d \in Slots : pc[d] = "ptlock" => pc'[d] = "ptlock"
        BY <2>1 DEF IInv, TypeOK, Goto
      <3>6. \A q \in Slots : Ready(q) \subseteq Slots
        BY DEF Ready, Kids, IInv, TypeOK
      <3> QED
        BY <3>1, <3>2, <3>3, <3>4, <3>5, <3>6 DEF IInv, WaitInv
    <2> QED
      BY <2>2, <2>3, <2>4, <2>5, <2>6 DEF IInv
  <1> QED
    BY <1>1, <1>2

LEMMA upauseIInv ==
  ASSUME IInv, NEW p \in Slots, upause(p)
  PROVE  IInv'
  BY sleepTestIInv DEF upause

(***************************************************************************)
(* relproc, of a process that is dead or was never finished.               *)
(***************************************************************************)
LEMMA relprocIInv ==
  ASSUME IInv, NEW p \in Slots, NEW c \in chain,
         self = None, self' = None,
         pc[p] \in {"user", "waiting", "fork"},
         c # p, c # Eve, pc[c] \in {"new", "dead"},
         \A q \in Slots \ {p} : pc[q] = "fork" => child[q] # c,
         \A q \in Slots \ {p} : child'[q] = child[q],
         child'[p] \in Slots \union {None},
         child' \in [Slots -> Slots \union {None}],
         relproc(p, c), UNCHANGED <<cpid, ptvars, nx>>
  PROVE  IInv'
  <1> USE DEF relproc, ptvars
  <1>1. TypeOK'
    BY ProcAssumption DEF IInv, TypeOK, Locs
  <1>2. ChainInv'
    BY DEF IInv, ChainInv, TypeOK
  <1>3. PidsUnique'
    BY DEF IInv, PidsUnique, TypeOK
  <1>4. ForkInv'
    BY DEF IInv, ForkInv, TypeOK
  <1>5. SelfInv'
    BY DEF IInv, SelfInv, TypeOK
  <1>6. Parents'
    BY DEF IInv, Parents, TypeOK, ChainInv
  <1>7. WaitInv'
    <2>1. \A q \in Slots \ {c} : Ready(q)' \subseteq Ready(q)
      BY DEF Ready, Kids, IInv, TypeOK
    <2>2. \A q \in Slots :
            pc'[q] = "wgap" \/ q \in Asleep("waiting")' =>
              q # c /\ (pc[q] = "wgap" \/ q \in Asleep("waiting"))
      BY DEF Asleep, IInv, TypeOK, ChainInv
    <2>3. \A q \in Slots \ {c} : \A d \in Ready(q)' :
            state'[d] = state[d] /\ (pc[d] = "ptlock" => pc'[d] = "ptlock")
      BY DEF Ready, Kids, IInv, TypeOK
    <2> QED
      BY <2>1, <2>2, <2>3 DEF IInv, WaitInv
  <1> QED
    BY <1>1, <1>2, <1>3, <1>4, <1>5, <1>6, <1>7 DEF IInv

LEMMA nosegIInv ==
  ASSUME IInv, NEW p \in Slots, noseg(p)
  PROVE  IInv'
  <1> USE DEF noseg
  <1>1. child[p] \in Slots /\ pc[child[p]] = "new"
    BY DEF IInv, ForkInv
  <1>2. child[p] \in chain \ {Eve} /\ child[p] # p
    BY <1>1 DEF IInv, ChainInv
  <1>3. \A q \in Slots \ {p} : pc[q] = "fork" => child[q] # child[p]
    BY DEF IInv, ForkInv
  <1>4. /\ child' \in [Slots -> Slots \union {None}]
        /\ \A q \in Slots \ {p} : child'[q] = child[q]
        /\ child'[p] = None
    BY DEF IInv, TypeOK
  <1> QED
    BY <1>1, <1>2, <1>3, <1>4, relprocIInv

(***************************************************************************)
(* fork: a structure with an id that nobody has.                           *)
(***************************************************************************)
LEMMA CandidateRange ==
  ASSUME TypeOK, NEW i \in 0 .. NPID - 2
  PROVE  Candidate(i) \in 2 .. NPID - 1
  BY ProcAssumption DEF TypeOK, Candidate

LEMMA processIInv ==
  ASSUME IInv, NEW p \in Slots, NEW c \in Slots, process(p, c)
  PROVE  IInv'
  <1> USE DEF process, ptvars
  <1>1. PICK i \in 0 .. NPID - 3 :
          /\ Candidate(i) \notin Taken
          /\ pid' = [pid EXCEPT ![c] = Candidate(i)]
          /\ cpid' = Candidate(i + 1)
    OBVIOUS
  <1>2. Candidate(i) \in 2 .. NPID - 1 /\ Candidate(i + 1) \in 2 .. NPID - 1
    <2>1. i \in 0 .. NPID - 2 /\ i + 1 \in 0 .. NPID - 2
      BY ProcAssumption
    <2> QED
      BY <2>1, CandidateRange DEF IInv
  <1>3. pc[c] = "free" /\ c # p /\ c # Eve
    BY DEF IInv, ChainInv
  <1>4. TypeOK'
    BY <1>1, <1>2, ProcAssumption DEF IInv, TypeOK, Locs
  <1>5. ChainInv'
    BY <1>1, <1>2, <1>3 DEF IInv, ChainInv, TypeOK
  <1>6. PidsUnique'
    BY <1>1 DEF IInv, PidsUnique, TypeOK, Taken
  <1>7. ForkInv'
    BY <1>3 DEF IInv, ForkInv, TypeOK
  <1>8. SelfInv'
    BY <1>3 DEF IInv, SelfInv, TypeOK
  <1>9. Parents'
    BY <1>1, <1>3 DEF IInv, Parents, TypeOK
  <1>10. WaitInv'
    <2>1. \A q \in Slots \ {c} : Ready(q)' \subseteq Ready(q)
      BY <1>1, <1>3 DEF Ready, Kids, IInv, TypeOK, ChainInv
    <2>2. \A q \in Slots :
            pc'[q] = "wgap" \/ q \in Asleep("waiting")' =>
              q # c /\ (pc[q] = "wgap" \/ q \in Asleep("waiting"))
      BY <1>3 DEF Asleep, IInv, TypeOK
    <2>3. \A d \in Slots : pc[d] = "ptlock" => pc'[d] = "ptlock"
      BY <1>3 DEF IInv, TypeOK
    <2>4. \A q \in Slots : Ready(q) \subseteq Slots
      BY DEF Ready, Kids, IInv, TypeOK
    <2> QED
      BY <2>1, <2>2, <2>3, <2>4 DEF IInv, WaitInv
  <1> QED
    BY <1>4, <1>5, <1>6, <1>7, <1>8, <1>9, <1>10 DEF IInv

LEMMA pforkIInv ==
  ASSUME IInv, NEW p \in Slots, pfork(p)
  PROVE  IInv'
  <1> DEFINE c == child[p]
  <1>1. /\ c \in chain /\ c # p /\ c # Eve /\ pc[c] = "new" /\ p \in chain
        /\ state[c] # "PSDEAD" /\ flags[c] = {} /\ ppid[c] = 0
        /\ \A q \in Slots \ {p} : pc[q] = "fork" => child[q] # c
    BY DEF pfork, IInv, ForkInv, ChainInv
  <1>2. /\ ppid' = [ppid EXCEPT ![c] = pid[p]]
        /\ ssig' = [ssig EXCEPT ![c] = ssig[p]]
        /\ pc' = [pc EXCEPT ![p] = "user", ![c] = "user"]
        /\ child' = [child EXCEPT ![p] = None]
        /\ UNCHANGED <<chain, pid, cpid, state, flags, pts, ptgate, self, nx,
                        late>>
        /\ self = None /\ pc[p] = "fork"
    BY DEF pfork, ptvars
  <1> HIDE DEF c
  <1>3. TypeOK'
    BY <1>1, <1>2 DEF IInv, TypeOK, Locs
  <1>4. ChainInv'
    BY <1>1, <1>2 DEF IInv, ChainInv, TypeOK
  <1>5. PidsUnique'
    BY <1>2 DEF IInv, PidsUnique
  <1>6. ForkInv'
    BY <1>1, <1>2 DEF IInv, ForkInv, TypeOK
  <1>7. SelfInv'
    BY <1>1, <1>2 DEF IInv, SelfInv, TypeOK
  <1>8. Parents'
    BY <1>1, <1>2 DEF IInv, Parents, TypeOK
  <1>9. WaitInv'
    <2>1. \A q \in Slots : Ready(q)' \subseteq Ready(q)
      BY <1>1, <1>2 DEF Ready, Kids, IInv, TypeOK
    <2>2. \A q \in Slots :
            pc'[q] = "wgap" \/ q \in Asleep("waiting")' =>
              pc[q] = "wgap" \/ q \in Asleep("waiting")
      BY <1>1, <1>2 DEF Asleep, IInv, TypeOK
    <2>3. \A d \in Slots : pc[d] = "ptlock" => pc'[d] = "ptlock"
      BY <1>1, <1>2 DEF IInv, TypeOK
    <2>4. \A q \in Slots : Ready(q) \subseteq Slots
      BY DEF Ready, Kids, IInv, TypeOK
    <2> QED
      BY <1>2, <2>1, <2>2, <2>3, <2>4 DEF IInv, WaitInv
  <1> QED
    BY <1>3, <1>4, <1>5, <1>6, <1>7, <1>8, <1>9 DEF IInv

(***************************************************************************)
(* exit: the children go to process 1, and whoever waits is woken.         *)
(***************************************************************************)
LEMMA pexitIInv ==
  ASSUME IInv, NEW p \in Slots, pexit(p)
  PROVE  IInv'
  <1> DEFINE woken ==
        WaitingParent(p)
        \union (IF \E c \in Kids(p) : state[c] = "PSDEAD"
                THEN {Eve} \intersect Asleep("waiting") ELSE {})
        \union (IF \E c \in Kids(p) : "PFTRAC" \in flags[c]
                THEN Asleep("traced") ELSE {})
  <1>1. /\ ppid' = [s \in Slots |-> IF s \in Kids(p) THEN 1 ELSE ppid[s]]
        /\ state' = [s \in Slots |-> CASE s = p -> "PSDEAD"
                                       [] s \in woken \ {p} -> "PSRUN"
                                       [] OTHER -> state[s]]
        /\ pc' = [pc EXCEPT ![p] = "dead"]
        /\ UNCHANGED <<chain, pid, cpid, child, flags, ssig, pts, ptgate, self,
                        nx, late>>
        /\ self = None /\ pc[p] = "exit"
    BY DEF pexit, Goto, idvars, ptvars
  <1>2. p \in chain /\ p # Eve /\ pid[p] >= 2 /\ pid[p] \in Nat
    BY <1>1, ProcAssumption DEF IInv, ChainInv, TypeOK
  <1>3. p \notin Kids(p)
    BY <1>1, <1>2 DEF IInv, Parents, PidsUnique, Kids
  <1>4. \A s \in woken : s \in chain /\ state[s] = "PSSLEEP"
    BY DEF WaitingParent, Asleep
  <1>5. /\ WaitingParent(p) \subseteq woken
        /\ \A c \in Kids(p) : state[c] = "PSDEAD" /\ Eve \in Asleep("waiting")
                             => Eve \in woken
    OBVIOUS
  <1> HIDE DEF woken
  <1>6. TypeOK'
    BY <1>1, ProcAssumption DEF IInv, TypeOK, Locs
  <1>7. ChainInv'
    <2>1. \A s \in Slots : pc[s] \in {"new", "free"} => s \notin Kids(p)
      BY <1>2 DEF IInv, ChainInv, Kids
    <2> QED
      BY <1>1, <1>2, <1>4, <2>1 DEF IInv, ChainInv, TypeOK
  <1>8. PidsUnique'
    BY <1>1 DEF IInv, PidsUnique
  <1>9. ForkInv'
    BY <1>1 DEF IInv, ForkInv, TypeOK
  <1>10. SelfInv'
    BY <1>1 DEF IInv, SelfInv, TypeOK
  <1>11. Parents'
    <2> SUFFICES ASSUME NEW s \in chain, s # Eve, pc[s] # "new"
                 PROVE  \E q \in chain : /\ q # s /\ pid[q] = ppid'[s]
                                         /\ pc'[q] \notin {"new", "dead"}
      BY <1>1 DEF Parents, IInv, TypeOK
    <2>1. CASE s \in Kids(p)
      <3>1. ppid'[s] = 1 /\ pid[Eve] = 1 /\ Eve \in chain
        BY <1>1, <2>1 DEF IInv, TypeOK, ChainInv
      <3>2. pc'[Eve] \notin {"new", "dead"}
        BY <1>1, <1>2 DEF IInv, TypeOK, ChainInv
      <3> QED
        BY <3>1, <3>2
    <2>2. CASE s \notin Kids(p)
      <3>1. PICK q \in chain : /\ q # s /\ pid[q] = ppid[s]
                               /\ pc[q] \notin {"new", "dead"}
        BY DEF IInv, Parents
      <3>2. q # p
        BY <2>2, <3>1 DEF Kids
      <3>3. pc'[q] = pc[q] /\ ppid'[s] = ppid[s]
        BY <1>1, <2>2, <3>2 DEF IInv, TypeOK
      <3> QED
        BY <3>1, <3>3
    <2> QED
      BY <2>1, <2>2
  <1>12. WaitInv'
    <2> SUFFICES ASSUME NEW q \in Slots,
                        pc'[q] = "wgap" \/ q \in Asleep("waiting")',
                        NEW c \in Ready(q)'
                 PROVE  state'[c] # "PSDEAD" /\ (q = Eve \/ pc'[c] = "ptlock")
      BY DEF WaitInv
    <2>1. q # p /\ q \in Asleep("waiting") /\ q \notin woken
      <3>1. q # p /\ pc'[q] = pc[q]
        BY <1>1 DEF Asleep, IInv, TypeOK
      <3>2. pc[q] # "wgap"
        BY <1>1, ProcAssumption DEF IInv, SelfInv
      <3>3. q \in chain /\ pc[q] = "waiting" /\ state'[q] = "PSSLEEP"
        BY <1>1, <3>1, <3>2 DEF Asleep
      <3> QED
        BY <1>1, <3>1, <3>3 DEF Asleep
    <2>2. /\ c \in chain /\ c # q /\ ppid'[c] = pid[q]
          /\ "PFSTOP" \notin flags[c]
          /\ "PFWAIT" \in flags[c] \/ state'[c] = "PSDEAD"
      BY <1>1 DEF Ready, Kids
    <2>3. CASE c \in Kids(p)
      <3>1. ppid'[c] = 1 /\ c # p
        BY <1>1, <1>3, <2>2, <2>3 DEF IInv, TypeOK
      <3>2. q = Eve
        <4>1. q \in chain /\ Eve \in chain /\ pid[q] = pid[Eve]
          BY <2>1, <2>2, <3>1 DEF IInv, ChainInv, Asleep
        <4> QED
          BY <4>1 DEF IInv, PidsUnique
      <3>3. state[c] # "PSDEAD"
        BY <1>5, <2>1, <2>3, <3>2
      <3> QED
        BY <1>1, <2>2, <3>1, <3>2, <3>3 DEF IInv, TypeOK
    <2>4. CASE c = p
      <3>1. ppid[p] = pid[q]
        BY <1>1, <1>3, <2>2, <2>4
      <3>2. q \in WaitingParent(p)
        BY <2>1, <3>1 DEF WaitingParent
      <3> QED
        BY <1>5, <2>1, <3>2
    <2>5. CASE c \notin Kids(p) /\ c # p
      <3>1. ppid[c] = pid[q] /\ (state'[c] = "PSDEAD" <=> state[c] = "PSDEAD")
        BY <1>1, <1>4, <2>2, <2>5 DEF IInv, TypeOK
      <3>2. c \in Ready(q)
        BY <2>2, <3>1 DEF Ready, Kids
      <3>3. pc'[c] = pc[c]
        BY <1>1, <2>5 DEF IInv, TypeOK
      <3> QED
        BY <2>1, <3>1, <3>2, <3>3 DEF IInv, WaitInv
    <2> QED
      BY <2>3, <2>4, <2>5
  <1> QED
    BY <1>6, <1>7, <1>8, <1>9, <1>10, <1>11, <1>12 DEF IInv

(***************************************************************************)
(* wait.                                                                   *)
(***************************************************************************)
LEMMA reportIInv ==
  ASSUME IInv, NEW p \in Slots, self = None,
         pc[p] \in {"user", "waiting"}, NEW c \in Ready(p), report(p, c)
  PROVE  IInv'
  <1>1. /\ c \in chain /\ c # p /\ ppid[c] = pid[p]
        /\ "PFWAIT" \in flags[c] \/ state[c] = "PSDEAD"
    BY DEF Ready, Kids
  <1>2. CASE "PFWAIT" \in flags[c]
    <2>1. /\ flags' = [flags EXCEPT ![c] = (@ \ {"PFWAIT"}) \union {"PFSTOP"}]
          /\ Goto(p, "user")
          /\ UNCHANGED <<chain, pid, ppid, state, ssig, cpid, child, pts,
                          ptgate, self, nx, late>>
      BY <1>2 DEF report, ptvars
    <2>2. TypeOK'
      BY <2>1 DEF IInv, TypeOK, Goto, Locs
    <2>3. PidsUnique' /\ ForkInv' /\ SelfInv' /\ Parents'
      BY <2>1 DEF IInv, PidsUnique, ForkInv, SelfInv, Parents, TypeOK, Goto,
                  ChainInv
    <2>4. ChainInv'
      <3>1. pc[c] \notin {"new", "free"}
        BY <1>1, <1>2 DEF IInv, ChainInv, TypeOK
      <3> QED
        BY <1>1, <2>1, <3>1 DEF IInv, ChainInv, TypeOK, Goto
    <2>5. WaitInv'
      BY <1>1, <2>1, WaitKept DEF IInv, TypeOK, Goto
    <2> QED
      BY <2>2, <2>3, <2>4, <2>5 DEF IInv
  <1>3. CASE "PFWAIT" \notin flags[c]
    <2>1. relproc(p, c) /\ UNCHANGED <<cpid, child, ptvars, self, nx>>
      BY <1>3 DEF report
    <2>2. c # Eve /\ pc[c] = "dead"
      BY <1>1, <1>3 DEF IInv, ChainInv, TypeOK
    <2>3. \A q \in Slots \ {p} : pc[q] = "fork" => child[q] # c
      BY <2>2 DEF IInv, ForkInv
    <2>4. child' \in [Slots -> Slots \union {None}]
      BY <2>1 DEF IInv, TypeOK
    <2> QED
      BY <1>1, <2>1, <2>2, <2>3, <2>4, relprocIInv
  <1> QED
    BY <1>2, <1>3

LEMMA uwaitIInv ==
  ASSUME IInv, NEW p \in Slots, uwait(p)
  PROVE  IInv'
  <1>1. self = None /\ pc[p] \in {"user", "waiting"}
    BY DEF uwait
  <1>2. CASE \E c \in First(Ready(p)) : report(p, c)
    BY <1>1, <1>2, reportIInv DEF First
  <1>3. CASE Ready(p) = {} /\ sleepTest(p, "wgap")
    BY <1>1, <1>3, sleepTestIInv
  <1>4. CASE /\ Goto(p, "user")
             /\ UNCHANGED <<idvars, ppid, state, flags, ssig, ptvars, self, nx>>
    <2> USE <1>1, <1>4 DEF idvars, ptvars
    <2>1. TypeOK'
      BY DEF IInv, TypeOK, Goto, Locs
    <2>2. ChainInv' /\ PidsUnique' /\ ForkInv' /\ SelfInv' /\ Parents'
      BY MoveInv DEF Locs
    <2>3. WaitInv'
      BY WaitKept DEF IInv, TypeOK, Goto
    <2> QED
      BY <2>1, <2>2, <2>3 DEF IInv
  <1> QED
    BY <1>2, <1>3, <1>4 DEF uwait

(***************************************************************************)
(* ptrace.  A process that stops has told its tracer.                      *)
(***************************************************************************)
LEMMA uptraceIInv ==
  ASSUME IInv, NEW p \in Slots, NEW c \in Slots, uptrace(p, c)
  PROVE  IInv'
  <1> USE DEF uptrace, ptvars
  <1>1. TypeOK'
    BY DEF IInv, TypeOK, Goto, Locs
  <1>2. ChainInv' /\ PidsUnique' /\ ForkInv' /\ SelfInv' /\ Parents'
    BY MoveInv DEF Locs, IInv, TypeOK
  <1>3. WaitInv'
    BY WaitKept DEF IInv, TypeOK, Goto
  <1> QED
    BY <1>1, <1>2, <1>3 DEF IInv

LEMMA ptsetIInv ==
  ASSUME IInv, NEW p \in Slots, NEW r \in Requests, ptset(p, r)
  PROVE  IInv'
  <1> USE DEF ptset, sleepAfter
  <1>1. TypeOK'
    BY DEF IInv, TypeOK, ForkInv, Goto, Locs
  <1>2. p \in chain /\ state[p] # "PSDEAD" /\ p # Eve
    BY DEF IInv, ChainInv
  <1>3. /\ \A s \in Slots : state'[s] = "PSDEAD" <=> state[s] = "PSDEAD"
        /\ \A s \in Slots \ chain : state'[s] = state[s]
    BY <1>2 DEF IInv, TypeOK, Asleep
  <1>4. ChainInv' /\ PidsUnique' /\ ForkInv' /\ SelfInv' /\ Parents'
    BY <1>2, <1>3, MoveInv DEF Locs, IInv, TypeOK
  <1>5. WaitInv'
    BY <1>3, WaitKept DEF IInv, TypeOK, Goto
  <1> QED
    BY <1>1, <1>4, <1>5 DEF IInv

LEMMA ptdoneIInv ==
  ASSUME IInv, NEW p \in Slots, ptdone(p)
  PROVE  IInv'
  <1> USE DEF ptdone, idvars
  <1>1. TypeOK'
    BY DEF IInv, TypeOK, Goto, Locs
  <1>2. p \in chain /\ p # Eve
    BY DEF IInv, ChainInv
  <1>3. /\ \A s \in Slots : state'[s] = "PSDEAD" <=> state[s] = "PSDEAD"
        /\ \A s \in Slots \ chain : state'[s] = state[s]
    BY <1>2 DEF IInv, TypeOK
  <1>4. Goto(p, "ptbusy") \/ Goto(p, "user")
    BY DEF IInv, TypeOK, Goto
  <1>5. ChainInv' /\ PidsUnique' /\ ForkInv' /\ SelfInv' /\ Parents'
    BY <1>2, <1>3, <1>4, MoveInv DEF Locs
  <1>6. WaitInv'
    BY <1>3, <1>4, WaitKept DEF IInv, TypeOK, Goto
  <1> QED
    BY <1>1, <1>5, <1>6 DEF IInv

LEMMA ptretIInv ==
  ASSUME IInv, NEW p \in Slots, p # Eve, self = None,
         pc[p] \in {"user", "traced", "ptlock"},
         NEW f \in SUBSET {"PFTRAC", "PFWAIT", "PFSTOP"},
         ptret(p, f) \/ (ptserve(p, f) /\ ptrest(p)),
         ssig' \in [Slots -> BOOLEAN], ssig'[Eve] = ssig[Eve]
  PROVE  IInv'
  <1> DEFINE Clear == f \ {"PFWAIT", "PFSTOP"}
  <1>1. PICK l \in {"user", "exit", "traced", "ptlock"}, g \in {f, Clear} :
          /\ Goto(p, l)
          /\ flags' = [flags EXCEPT ![p] = g]
          /\ "PFWAIT" \in g /\ l # "ptlock" =>
               \A s \in WaitingParent(p) : s # p => state'[s] = "PSRUN"
    BY DEF ptret, ptserve, sleepAfter, WaitingParent, Asleep, IInv, TypeOK
  <1>2. /\ UNCHANGED <<chain, pid, cpid, child, ppid, ptgate, self, nx>>
        /\ pts' \in {pts, NoRequest}
        /\ late' \in SUBSET (late \union {p})
    BY DEF ptret, ptserve, ptrest, idvars
  <1>3. p \in chain /\ state[p] # "PSDEAD"
    BY DEF IInv, ChainInv
  <1>4. /\ state' \in [Slots -> {"PSRUN", "PSSLEEP", "PSDEAD"}]
        /\ \A s \in Slots : state'[s] = "PSDEAD" <=> state[s] = "PSDEAD"
        /\ \A s \in Slots \ chain : state'[s] = state[s]
        /\ \A s \in Slots : s # p /\ state'[s] = "PSSLEEP" =>
              state[s] = "PSSLEEP"
    BY <1>3 DEF ptret, ptserve, sleepAfter, wakeup, WaitingParent, Asleep, IInv,
                TypeOK
  <1>5. TypeOK'
    <2>1. NoRequest \in [busy : BOOLEAN, pid : 0 .. NPID - 1, req : Requests]
      BY ProcAssumption DEF NoRequest, Requests
    <2>2. flags' \in [Slots -> SUBSET {"PFTRAC", "PFWAIT", "PFSTOP"}]
      BY <1>1 DEF IInv, TypeOK
    <2>3. pc' \in [Slots -> Locs]
      BY <1>1 DEF IInv, TypeOK, Goto, Locs
    <2> QED
      BY <1>2, <1>4, <2>1, <2>2, <2>3 DEF IInv, TypeOK
  <1>6. ChainInv' /\ PidsUnique' /\ ForkInv' /\ SelfInv' /\ Parents'
    BY <1>1, <1>2, <1>4, MoveInv DEF Locs, IInv, TypeOK
  <1>7. WaitInv'
    <2> SUFFICES ASSUME NEW q \in Slots,
                        pc'[q] = "wgap" \/ q \in Asleep("waiting")',
                        NEW c \in Ready(q)'
                 PROVE  state'[c] # "PSDEAD" /\ (q = Eve \/ pc'[c] = "ptlock")
      BY DEF WaitInv
    <2>1. q # p /\ q \in Asleep("waiting") /\ state'[q] = "PSSLEEP"
      <3>1. q # p /\ pc'[q] = pc[q]
        BY <1>1, <1>2 DEF Asleep, IInv, TypeOK, Goto
      <3>2. pc[q] # "wgap"
        BY ProcAssumption DEF IInv, SelfInv
      <3>3. q \in chain /\ pc[q] = "waiting" /\ state'[q] = "PSSLEEP"
        BY <1>2, <3>1, <3>2 DEF Asleep
      <3> QED
        BY <1>4, <3>1, <3>3 DEF Asleep
    <2>2. /\ c \in chain /\ c # q /\ ppid[c] = pid[q]
          /\ "PFSTOP" \notin flags'[c]
          /\ "PFWAIT" \in flags'[c] \/ state[c] = "PSDEAD"
      BY <1>2, <1>4 DEF Ready, Kids, IInv, TypeOK
    <2>3. CASE c = p
      <3>1. "PFWAIT" \in g /\ state'[p] # "PSDEAD" /\ pc'[p] = l
        BY <1>1, <1>3, <1>4, <2>2, <2>3 DEF IInv, TypeOK, Goto
      <3>2. q \in WaitingParent(p)
        BY <2>1, <2>2, <2>3 DEF WaitingParent
      <3> QED
        BY <1>1, <2>1, <2>3, <3>1, <3>2
    <2>4. CASE c # p
      <3>1. c \in Ready(q)
        BY <1>1, <2>2, <2>4 DEF Ready, Kids, IInv, TypeOK
      <3>2. pc'[c] = pc[c]
        BY <1>1, <2>2, <2>4 DEF Goto, IInv, TypeOK
      <3> QED
        BY <1>4, <2>1, <2>2, <3>1, <3>2 DEF IInv, WaitInv, TypeOK
    <2> QED
      BY <2>3, <2>4
  <1> QED
    BY <1>5, <1>6, <1>7 DEF IInv

LEMMA ptagainIInv ==
  ASSUME IInv, NEW p \in Slots, ptagain(p) \/ ptlocked(p)
  PROVE  IInv'
  <1>1. p # Eve /\ flags[p] \in SUBSET {"PFTRAC", "PFWAIT", "PFSTOP"}
    BY DEF ptagain, ptlocked, IInv, ChainInv, TypeOK
  <1>2. /\ self = None /\ pc[p] \in {"traced", "ptlock"} /\ UNCHANGED ssig
        /\ ptret(p, flags[p]) \/ (ptserve(p, flags[p]) /\ ptrest(p))
    BY DEF ptagain, ptlocked
  <1> QED
    BY <1>1, <1>2, ptretIInv DEF IInv, TypeOK

(***************************************************************************)
(* The swapper locks pnxgate or unlocks it.                                *)
(***************************************************************************)
LEMMA swapIInv ==
  ASSUME IInv, swapLock \/ swapUnlock
  PROVE  IInv'
  <1> USE DEF swapLock, swapUnlock, idvars, ptvars, IInv
  <1>1. TypeOK'
    BY DEF TypeOK
  <1>2. ChainInv' /\ PidsUnique' /\ ForkInv' /\ SelfInv' /\ Parents'
    BY DEF ChainInv, PidsUnique, ForkInv, SelfInv, Parents
  <1>3. WaitInv'
    BY WaitKept
  <1> QED
    BY <1>1, <1>2, <1>3

LEMMA actvsigIInv ==
  ASSUME IInv, NEW p \in Slots, actvsig(p)
  PROVE  IInv'
  <1>1. /\ p # Eve /\ self = None /\ pc[p] = "user"
        /\ ssig' \in [Slots -> BOOLEAN] /\ ssig'[Eve] = ssig[Eve]
    BY DEF actvsig, IInv, ChainInv, TypeOK
  <1>2. CASE /\ Goto(p, "user") \/ Goto(p, "exit")
             /\ UNCHANGED <<idvars, ppid, state, flags, ptvars, self, nx>>
    <2> USE <1>1, <1>2 DEF idvars, ptvars
    <2>1. TypeOK'
      BY DEF IInv, TypeOK, Goto, Locs
    <2>2. ChainInv' /\ PidsUnique' /\ ForkInv' /\ SelfInv' /\ Parents'
      BY MoveInv DEF Locs
    <2>3. WaitInv'
      BY WaitKept DEF IInv, TypeOK, Goto
    <2> QED
      BY <2>1, <2>2, <2>3 DEF IInv
  <1>3. CASE ptret(p, flags[p] \union {"PFWAIT"})
    BY <1>1, <1>3, ptretIInv DEF IInv, TypeOK
  <1>4. UNCHANGED pc => Goto(p, "user")
    BY <1>1 DEF Goto, IInv, TypeOK
  <1> QED
    BY <1>2, <1>3, <1>4 DEF actvsig

-----------------------------------------------------------------------------
(***************************************************************************)
(* Every step keeps the inductive invariant.                               *)
(***************************************************************************)
LEMMA NextIInv == IInv /\ [Next]_vars => IInv'
  <1> SUFFICES ASSUME IInv, [Next]_vars PROVE IInv'
    OBVIOUS
  <1>1. CASE UNCHANGED vars
    BY <1>1 DEF vars, IInv, TypeOK, ChainInv, PidsUnique, ForkInv, SelfInv,
                Parents, WaitInv, Asleep, Ready, Kids
  <1>2. CASE swapLock \/ swapUnlock
    BY <1>2, swapIInv
  <1>3. CASE Next /\ ~ (swapLock \/ swapUnlock)
    <2>1. PICK p \in Slots :
            \/ Kernel(p) \/ sendsig(p) \/ upause(p) \/ uexit(p) \/ uwait(p)
            \/ traceme(p) \/ actvsig(p)
            \/ \E c \in Slots : process(p, c) \/ uptrace(p, c)
      BY <1>3 DEF Next
    <2>2. CASE Kernel(p)
      <3>1. CASE pfork(p) \/ noseg(p) \/ pexit(p) \/ uwait(p)
        BY <3>1, pforkIInv, nosegIInv, pexitIInv, uwaitIInv
      <3>2. CASE sleep(p) \/ interrupted(p)
        BY <3>2, sleepIInv, interruptedIInv
      <3>3. CASE ptlocked(p) \/ ptagain(p) \/ ptdone(p)
        BY <3>3, ptagainIInv, ptdoneIInv
      <3>4. CASE \E r \in Requests : ptset(p, r)
        BY <3>4, ptsetIInv
      <3> QED
        BY <2>2, <3>1, <3>2, <3>3, <3>4 DEF Kernel
    <2>3. CASE sendsig(p) \/ upause(p) \/ uexit(p) \/ uwait(p)
      BY <2>3, sendsigIInv, upauseIInv, uexitIInv, uwaitIInv
    <2>4. CASE traceme(p) \/ actvsig(p)
      BY <2>4, tracemeIInv, actvsigIInv
    <2>5. CASE \E c \in Slots : process(p, c) \/ uptrace(p, c)
      BY <2>5, processIInv, uptraceIInv
    <2> QED
      BY <2>1, <2>2, <2>3, <2>4, <2>5
  <1> QED
    BY <1>1, <1>2, <1>3

(***************************************************************************)
(* The inductive invariant holds throughout the life of the system.        *)
(***************************************************************************)
THEOREM ProcInvariant == Spec => []IInv
  BY InitIInv, NextIInv, PTL DEF Spec

(***************************************************************************)
(* Type correctness of the process table (proc.c, sig.c, sys1.c).          *)
(***************************************************************************)
THEOREM ProcTypeOK == Spec => []TypeOK
  <1>1. IInv => TypeOK
    BY DEF IInv
  <1> QED
    BY <1>1, ProcInvariant, PTL

(***************************************************************************)
(* process() never gives out an id that a process on the chain has, even a *)
(* dead one, although its counter starts again from 2.                     *)
(***************************************************************************)
THEOREM ProcPidsUnique == Spec => []PidsUnique
  <1>1. IInv => PidsUnique
    BY DEF IInv
  <1> QED
    BY <1>1, ProcInvariant, PTL

(***************************************************************************)
(* Whatever the order of forks, exits and waits, every process has a       *)
(* parent that has not exited: pexit hands its children to process 1.      *)
(***************************************************************************)
THEOREM ProcParentLives == Spec => []ParentLives
  <1>1. IInv => ParentLives
    BY DEF IInv, Parents, ParentLives, ChainInv, TypeOK
  <1> QED
    BY <1>1, ProcInvariant, PTL

(***************************************************************************)
(* wait does not miss an exit or a stop: pexit and ptret wake the parent   *)
(* if it sleeps in wait, and it looks again before it goes to sleep.       *)
(***************************************************************************)
THEOREM ProcWaitNotLost == Spec => []WaitNotLost
  <1>1. IInv => WaitNotLost
    BY DEF IInv, WaitInv, WaitNotLost, TypeOK, Asleep
  <1> QED
    BY <1>1, ProcInvariant, PTL

(***************************************************************************)
(* A structure leaves the chain only through the wait of a parent whose    *)
(* child has exited, or through the fork that fails to make it: relproc is *)
(* called nowhere else, and never for a process that still runs.           *)
(***************************************************************************)
THEOREM ProcReapedByParent == Spec => ReapedByParent
  <1> DEFINE Reaped ==
        \A s \in chain \ chain' :
          \/ /\ state[s] = "PSDEAD"
             /\ \E p \in chain :
                  pid[p] = ppid[s] /\ pc[p] \in {"user", "waiting"}
          \/ \E p \in chain : pc[p] = "fork" /\ child[p] = s
  <1>1. ASSUME IInv, [Next]_vars, UNCHANGED chain \/ chain \subseteq chain'
        PROVE  [Reaped]_vars
    BY <1>1
  <1>2. ASSUME IInv, NEW p \in Slots, noseg(p)
        PROVE  Reaped
    <2>1. p \in chain
      BY <1>2 DEF noseg, IInv, ChainInv
    <2> QED
      BY <1>2, <2>1 DEF noseg, relproc
  <1>3. ASSUME IInv, NEW p \in Slots, uwait(p), ~ UNCHANGED chain
        PROVE  Reaped
    <2>1. PICK c \in Ready(p) : relproc(p, c) /\ "PFWAIT" \notin flags[c]
      BY <1>3 DEF uwait, report, First, sleepTest, idvars
    <2>2. state[c] = "PSDEAD" /\ ppid[c] = pid[p]
      BY <2>1 DEF Ready, Kids
    <2>3. p \in chain /\ pc[p] \in {"user", "waiting"}
      BY <1>3 DEF uwait, IInv, ChainInv
    <2> QED
      BY <2>1, <2>2, <2>3 DEF relproc
  <1>4. ASSUME [Next]_vars
        PROVE  \/ UNCHANGED chain \/ chain \subseteq chain'
               \/ \E p \in Slots : noseg(p) \/ (uwait(p) /\ ~ UNCHANGED chain)
    BY <1>4 DEF Next, Kernel, vars, idvars, pfork, sleep, interrupted, pexit,
                ptlocked, ptagain, ptret, ptrest, ptdone, ptset, sendsig,
                upause, sleepTest, uexit, traceme, actvsig, process, uptrace,
                swapLock, swapUnlock
  <1>5. IInv /\ [Next]_vars => [Reaped]_vars
    BY <1>1, <1>2, <1>3, <1>4
  <1>6. (ReapedByParent) <=> [][Reaped]_vars
    BY DEF ReapedByParent
  <1> HIDE DEF Reaped
  <1> QED
    BY <1>5, <1>6, ProcInvariant, PTL DEF Spec

(***************************************************************************)
(* Two tracers are never in the exchange at once: only ptset takes the gate*)
(* and starts to wait for the answer, only ptdone, of the process that     *)
(* waits, gives it back, and no signal or exit comes in between.           *)
(***************************************************************************)
THEOREM ProcOneTracer == Spec => []OneTracer
  <1> DEFINE Holds == \A s \in Slots : pc[s] = "ptbusy" => ptgate = s
             Kept == /\ \A s \in Slots : pc'[s] = "ptbusy" => pc[s] = "ptbusy"
                     /\ UNCHANGED ptgate
  <1>1. Init => Holds
    BY DEF Init
  <1>2. ASSUME TypeOK, NEW p \in Slots,
               \/ pfork(p) \/ noseg(p) \/ sleep(p) \/ interrupted(p) \/ pexit(p)
               \/ sendsig(p) \/ upause(p) \/ uexit(p) \/ traceme(p)
               \/ \E c \in Slots : process(p, c) \/ uptrace(p, c)
        PROVE  Kept
    BY <1>2 DEF TypeOK, pfork, noseg, relproc, sleep, interrupted, pexit,
                sendsig, upause, sleepTest, uexit, traceme, process, uptrace,
                Goto, ptvars
  <1>3. ASSUME TypeOK, NEW p \in Slots, uwait(p)
        PROVE  Kept
    BY <1>3 DEF TypeOK, uwait, report, relproc, sleepTest, Goto, ptvars
  <1>4. ASSUME TypeOK, NEW p \in Slots, ptagain(p) \/ ptlocked(p) \/ actvsig(p)
        PROVE  Kept
    BY <1>4 DEF TypeOK, ptagain, ptlocked, actvsig, ptret, ptserve, ptrest, Goto,
                ptvars
  <1>5. ASSUME TypeOK, Holds, NEW p \in Slots,
               ptdone(p) \/ \E r \in Requests : ptset(p, r)
        PROVE  Holds'
    BY <1>5, ProcAssumption DEF TypeOK, ptdone, ptset, Goto
  <1>6. Holds /\ (Kept \/ UNCHANGED vars \/ swapLock \/ swapUnlock) => Holds'
    BY DEF vars, ptvars, swapLock, swapUnlock
  <1>7. TypeOK /\ Holds /\ [Next]_vars => Holds'
    BY <1>2, <1>3, <1>4, <1>5, <1>6 DEF Next, Kernel
  <1>8. TypeOK /\ Holds => OneTracer
    BY DEF TypeOK, OneTracer
  <1> HIDE DEF Holds
  <1> QED
    BY <1>1, <1>7, <1>8, ProcTypeOK, PTL DEF Spec

-----------------------------------------------------------------------------
(* ptrace requests.                                                        *)

\* c is stopped, and has been waited for.
Stopped(c) == pc[c] \in {"traced", "ptlock"} /\ "PFSTOP" \in flags[c]

\* Only a process in ptret is marked as stopped, and what a tracer waits for
\* with pt_gate is still stopped.
TraceInv ==
  /\ \A s \in chain : "PFSTOP" \in flags[s] \/ "PFWAIT" \in flags[s] =>
                      pc[s] \in {"traced", "ptlock"}
  /\ \A p \in chain : pc[p] = "ptset" => child[p] \in Kids(p) /\ Stopped(child[p])
  /\ RequestHasTarget

(***************************************************************************)
(* A step that makes no request, and leaves the children of the tracers    *)
(* stopped, but for one that ends its tracer's request.                    *)
(***************************************************************************)
LEMMA TraceKept ==
  ASSUME IInv, IInv', TraceInv, UNCHANGED <<pts, ptgate>> \/ ~ pts'.busy,
         \A s \in chain' : "PFSTOP" \in flags'[s] \/ "PFWAIT" \in flags'[s] =>
                             pc'[s] \in {"traced", "ptlock"},
         \A s \in Slots : pc'[s] = "ptset" => pc[s] = "ptset" /\ child'[s] = child[s],
         \A s \in chain : pc[s] \in {"ptset", "ptbusy"} =>
           pc'[s] = pc[s] /\ s \in chain' /\ pid'[s] = pid[s],
         \A p \in chain : \A c \in Kids(p) :
           (pc[p] = "ptset" \/ (pc[p] = "ptbusy" /\ pts'.busy)) /\ Stopped(c) =>
             c \in chain' /\ Stopped(c)' /\ pid'[c] = pid[c] /\ ppid'[c] = ppid[c]
  PROVE  TraceInv'
  <1>1. \A p \in chain : \A c \in Kids(p) :
          (pc[p] = "ptset" \/ (pc[p] = "ptbusy" /\ pts'.busy)) /\ Stopped(c) =>
            c \in Kids(p)' /\ Stopped(c)' /\ pid'[c] = pid[c]
    BY DEF Kids
  <1>2. ASSUME NEW p \in chain', pc'[p] = "ptset"
        PROVE  child'[p] \in Kids(p)' /\ Stopped(child[p])'
    <2>1. p \in chain /\ pc[p] = "ptset" /\ child'[p] = child[p]
      BY <1>2 DEF IInv, TypeOK, ChainInv
    <2> QED
      BY <1>1, <1>2, <2>1 DEF TraceInv, Stopped, Kids
  <1>3. RequestHasTarget'
    <2> SUFFICES ASSUME pts'.busy PROVE RequestHasTarget'
      BY DEF RequestHasTarget
    <2>0. UNCHANGED <<pts, ptgate>> /\ pts.busy
      OBVIOUS
    <2>1. ptgate # None /\ ptgate \in chain /\ pc[ptgate] = "ptbusy"
      BY <2>0 DEF TraceInv, RequestHasTarget, IInv, TypeOK, ChainInv
    <2>2. PICK c \in Kids(ptgate) : pid[c] = pts.pid /\ Stopped(c)
      BY <2>0 DEF TraceInv, RequestHasTarget, Stopped
    <2>3. c \in Kids(ptgate)' /\ Stopped(c)' /\ pid'[c] = pid[c]
      BY <1>1, <2>0, <2>1, <2>2 DEF ptvars, Kids
    <2> QED
      BY <2>0, <2>1, <2>2, <2>3 DEF RequestHasTarget, Stopped, ptvars
  <1> QED
    BY <1>2, <1>3 DEF TraceInv, Stopped

LEMMA InitTrace == Init => TraceInv
  <1> SUFFICES ASSUME Init PROVE TraceInv
    OBVIOUS
  <1>1. \A s \in chain : flags[s] = {} /\ pc[s] # "ptset"
    BY ProcAssumption DEF Init
  <1>2. ~ pts.busy
    BY DEF Init, NoRequest
  <1> QED
    BY <1>1, <1>2 DEF TraceInv, RequestHasTarget

\* The steps of a process that has nothing to do with ptrace.
LEMMA PlainTrace ==
  ASSUME IInv, IInv', TraceInv, NEW p \in Slots,
         \/ pfork(p) \/ sleep(p) \/ interrupted(p)
         \/ sendsig(p) \/ upause(p) \/ uexit(p) \/ traceme(p)
         \/ \E c \in Slots : process(p, c)
  PROVE  TraceInv'
  <1> USE DEF idvars, ptvars
  <1>0. /\ TypeOK /\ ChainInv /\ ForkInv /\ SelfInv
        /\ \A s \in chain : "PFSTOP" \in flags[s] \/ "PFWAIT" \in flags[s] =>
                            pc[s] \in {"traced", "ptlock"}
    BY DEF IInv, TraceInv
  <1>1. CASE pfork(p)
    <2>1. child[p] \in Slots /\ pc[child[p]] = "new" /\ flags[child[p]] = {} /\ ppid[child[p]] = 0
      BY <1>0, <1>1 DEF ForkInv, ChainInv, pfork
    <2>2. \A c \in chain : Stopped(c) => ppid'[c] = ppid[c]
      BY <1>0, <1>1, <2>1 DEF pfork, Stopped, TypeOK, Kids
    <2> QED
      BY <1>0, <1>1, <2>1, <2>2, TraceKept DEF pfork, Stopped, TypeOK, Kids
  <1>2. CASE sleep(p)
    BY <1>0, <1>2, TraceKept, ProcAssumption DEF sleep, Goto, Stopped, TypeOK, SelfInv, Kids
  <1>3. CASE interrupted(p) \/ sendsig(p) \/ uexit(p)
    BY <1>0, <1>3, TraceKept DEF interrupted, sendsig, uexit, Goto, Stopped, TypeOK, Kids
  <1>4. CASE upause(p)
    BY <1>0, <1>4, TraceKept DEF upause, sleepTest, Goto, Stopped, TypeOK, Kids
  <1>5. CASE traceme(p)
    BY <1>0, <1>5, TraceKept DEF traceme, Goto, Stopped, TypeOK, Kids
  <1>6. ASSUME NEW c \in Slots, process(p, c) PROVE TraceInv'
    <2>1. pc[c] = "free" /\ flags[c] = {} /\ pc[p] = "user" /\ c # p
      BY <1>0, <1>6 DEF ChainInv, process
    <2> QED
      BY <1>0, <1>6, <2>1, TraceKept DEF process, Stopped, TypeOK, Kids
  <1> QED
    BY <1>1, <1>2, <1>3, <1>4, <1>5, <1>6

\* A structure that is released was not stopped.
LEMMA relprocTrace ==
  ASSUME IInv, IInv', TraceInv, NEW p \in Slots, NEW c \in chain, relproc(p, c), c # p,
         pc[p] \in {"user", "waiting", "fork"}, pc[c] \in {"new", "dead"},
         \A q \in Slots \ {p} : child'[q] = child[q], UNCHANGED ptvars
  PROVE  TraceInv'
  <1>0. /\ TypeOK /\ ChainInv
        /\ \A s \in chain : "PFSTOP" \in flags[s] \/ "PFWAIT" \in flags[s] =>
                            pc[s] \in {"traced", "ptlock"}
    BY DEF IInv, TraceInv
  <1> QED
    BY <1>0, TraceKept DEF relproc, Stopped, TypeOK, Kids, ptvars

LEMMA nosegTrace ==
  ASSUME IInv, IInv', TraceInv, NEW p \in Slots, noseg(p)
  PROVE  TraceInv'
  <1>1. child[p] \in chain /\ child[p] # p /\ pc[child[p]] = "new"
    BY DEF noseg, IInv, ForkInv, ChainInv
  <1>2. child' = [child EXCEPT ![p] = None] /\ child \in [Slots -> Slots \union {None}]
    BY DEF noseg, IInv, TypeOK
  <1> QED
    BY <1>1, <1>2, relprocTrace DEF noseg

\* wait marks the child it reports as stopped, or releases it.
LEMMA uwaitTrace ==
  ASSUME IInv, IInv', TraceInv, NEW p \in Slots, uwait(p)
  PROVE  TraceInv'
  <1>0. /\ TypeOK /\ ChainInv
        /\ \A s \in chain : "PFSTOP" \in flags[s] \/ "PFWAIT" \in flags[s] =>
                            pc[s] \in {"traced", "ptlock"}
    BY DEF IInv, TraceInv
  <1>1. pc[p] \in {"user", "waiting"}
    BY DEF uwait
  <1> USE DEF idvars, ptvars
  <1>2. ASSUME NEW c \in Ready(p), report(p, c) PROVE TraceInv'
    <2>1. c \in chain /\ c # p /\ ("PFWAIT" \in flags[c] \/ state[c] = "PSDEAD")
      BY DEF Ready, Kids
    <2>2. CASE "PFWAIT" \in flags[c]
      <3>1. /\ flags' = [flags EXCEPT ![c] = (@ \ {"PFWAIT"}) \union {"PFSTOP"}]
            /\ Goto(p, "user") /\ UNCHANGED <<chain, pid, ppid, child, ptvars>>
        BY <1>2, <2>2 DEF report
      <3>2. pc[c] \in {"traced", "ptlock"}
        BY <1>0, <2>1, <2>2
      <3> QED
        BY <1>0, <1>1, <2>1, <3>1, <3>2, TraceKept DEF Goto, Stopped, TypeOK, Kids
    <2>3. CASE "PFWAIT" \notin flags[c]
      <3>1. relproc(p, c) /\ UNCHANGED <<child, ptvars>>
        BY <1>2, <2>3 DEF report
      <3>2. pc[c] = "dead"
        BY <1>0, <2>1, <2>3 DEF ChainInv, TypeOK
      <3> QED
        BY <1>1, <2>1, <3>1, <3>2, relprocTrace
    <2> QED
      BY <2>2, <2>3
  <1>3. CASE sleepTest(p, "wgap")
    BY <1>0, <1>1, <1>3, TraceKept DEF sleepTest, Goto, Stopped, TypeOK, Kids
  <1>4. CASE Goto(p, "user") /\ UNCHANGED <<idvars, ppid, state, flags, ssig, ptvars, self>>
    BY <1>0, <1>1, <1>4, TraceKept DEF Goto, Stopped, TypeOK, Kids
  <1> QED
    BY <1>2, <1>3, <1>4 DEF uwait, First

\* The children that process 1 inherits have no tracer but the one that exits.
LEMMA pexitTrace ==
  ASSUME IInv, IInv', TraceInv, NEW p \in Slots, pexit(p)
  PROVE  TraceInv'
  <1>0. /\ TypeOK /\ ChainInv /\ PidsUnique
        /\ \A s \in chain : "PFSTOP" \in flags[s] \/ "PFWAIT" \in flags[s] =>
                            pc[s] \in {"traced", "ptlock"}
    BY DEF IInv, TraceInv
  <1>1. /\ pc[p] = "exit" /\ p \in chain /\ UNCHANGED <<chain, pid, child, flags, ptvars>>
        /\ pc' = [pc EXCEPT ![p] = "dead"]
        /\ ppid' = [s \in Slots |-> IF s \in Kids(p) THEN 1 ELSE ppid[s]]
    BY <1>0 DEF pexit, ChainInv, Goto, idvars, ptvars
  <1>2. \A q \in chain : \A c \in Kids(q) : pc[q] \in {"ptset", "ptbusy"} => c \notin Kids(p)
    BY <1>0, <1>1 DEF Kids, PidsUnique
  <1>3. \A q \in chain : \A c \in Kids(q) : pc[q] \in {"ptset", "ptbusy"} => ppid'[c] = ppid[c]
    BY <1>0, <1>1, <1>2 DEF Kids, TypeOK
  <1> QED
    BY <1>0, <1>1, <1>3, TraceKept DEF Stopped, TypeOK, Kids, ptvars

\* Steps of a tracer: its child stays stopped from the test in ptset on.
LEMMA TracerTrace ==
  ASSUME IInv, IInv', TraceInv, NEW p \in Slots,
         \/ \E c \in Slots : uptrace(p, c)
         \/ \E r \in Requests : ptset(p, r)
         \/ ptdone(p)
  PROVE  TraceInv'
  <1>0. /\ TypeOK /\ ChainInv
        /\ \A s \in chain : "PFSTOP" \in flags[s] \/ "PFWAIT" \in flags[s] =>
                            pc[s] \in {"traced", "ptlock"}
        /\ \A q \in chain : pc[q] = "ptset" => child[q] \in Kids(q) /\ Stopped(child[q])
        /\ RequestHasTarget
    BY DEF IInv, TraceInv
  <1>1. /\ pc[p] \in {"user", "ptset", "ptbusy"} /\ p \in chain
        /\ UNCHANGED <<chain, pid, ppid, flags>>
        /\ \E l \in {"user", "ptset", "ptbusy"} : pc' = [pc EXCEPT ![p] = l]
        /\ \A q \in Slots \ {p} : child'[q] = child[q]
    BY <1>0 DEF uptrace, ptset, ptdone, Goto, ChainInv, TypeOK, idvars
  <1>2. \A q : Kids(q)' = Kids(q)
    BY <1>1 DEF Kids
  <1>3. \A c \in chain : Stopped(c)' <=> Stopped(c)
    BY <1>0, <1>1 DEF Stopped, TypeOK
  <1>4. \A s \in chain' : "PFSTOP" \in flags'[s] \/ "PFWAIT" \in flags'[s] =>
          pc'[s] \in {"traced", "ptlock"}
    BY <1>0, <1>1 DEF TypeOK
  <1>5. ASSUME NEW q \in chain', q # p, pc'[q] = "ptset"
        PROVE  child'[q] \in Kids(q)' /\ Stopped(child[q])'
    <2>1. q \in chain /\ pc[q] = "ptset" /\ child'[q] = child[q]
      BY <1>0, <1>1, <1>5 DEF TypeOK
    <2> QED
      BY <1>0, <1>2, <1>3, <2>1 DEF Stopped, Kids
  <1>6. CASE \E c \in Slots : uptrace(p, c)
    <2>1. PICK c \in Slots : uptrace(p, c)
      BY <1>6
    <2>2. child'[p] = c /\ c \in Kids(p) /\ Stopped(c) /\ pc'[p] = "ptset" /\ pc[p] = "user"
      BY <1>0, <2>1 DEF uptrace, Stopped, Kids, Goto, TypeOK
    <2>3. child'[p] \in Kids(p)' /\ Stopped(child[p])'
      BY <1>2, <1>3, <2>2 DEF Stopped, Kids
    <2>4. UNCHANGED ptvars
      BY <2>1 DEF uptrace
    <2>5. RequestHasTarget'
      <3> SUFFICES ASSUME pts.busy PROVE RequestHasTarget'
        BY <2>4 DEF RequestHasTarget, ptvars
      <3>1. ptgate # None /\ pc[ptgate] = "ptbusy" /\ pc'[ptgate] = "ptbusy"
        BY <1>0, <1>1, <2>2 DEF RequestHasTarget, TypeOK
      <3>2. PICK t \in Kids(ptgate) : pid[t] = pts.pid /\ Stopped(t)
        BY <1>0 DEF RequestHasTarget, Stopped
      <3>3. t \in Kids(ptgate)' /\ Stopped(t)' /\ pid'[t] = pts.pid
        BY <1>1, <1>2, <1>3, <2>4, <3>2 DEF Kids, ptvars
      <3> QED
        BY <2>4, <3>1, <3>3 DEF RequestHasTarget, Stopped, ptvars
    <2> QED
      BY <1>4, <1>5, <2>3, <2>5 DEF TraceInv, Stopped
  <1>7. CASE \E r \in Requests : ptset(p, r)
    <2>1. /\ pts'.pid = pid[child[p]] /\ ptgate' = p /\ pc'[p] = "ptbusy" /\ pc[p] = "ptset"
      BY <1>0, <1>7 DEF ptset, Goto, TypeOK
    <2>2. child[p] \in Kids(p) /\ Stopped(child[p])
      BY <1>0, <1>1, <2>1
    <2>3. child[p] \in Kids(p)' /\ pc'[child[p]] \in {"traced", "ptlock"}
          /\ "PFSTOP" \in flags'[child[p]] /\ pid'[child[p]] = pid[child[p]]
      BY <1>1, <1>0, <2>1, <2>2 DEF Stopped, Kids, TypeOK
    <2>4. RequestHasTarget'
      BY <1>0, <1>1, <2>1, <2>3, ProcAssumption DEF RequestHasTarget, TypeOK, Kids
    <2> QED
      BY <1>4, <1>5, <2>1, <2>4 DEF TraceInv, Stopped
  <1>8. CASE ptdone(p)
    <2>1. CASE pts.busy
      BY <1>0, <1>8, <2>1, TraceKept DEF ptdone, Stopped, TypeOK, Kids, idvars, ptvars
    <2>2. CASE ~ pts.busy
      <3>1. ~ pts'.busy /\ pc' = [pc EXCEPT ![p] = "user"] /\ UNCHANGED child
        BY <1>8, <2>2 DEF ptdone, Goto, idvars
      <3>2. RequestHasTarget'
        BY <3>1 DEF RequestHasTarget
      <3>3. pc'[p] # "ptset"
        BY <1>0, <3>1 DEF TypeOK
      <3> QED
        BY <1>4, <1>5, <3>2, <3>3 DEF TraceInv, Stopped
    <2> QED
      BY <2>1, <2>2
  <1> QED
    BY <1>6, <1>7, <1>8

\* A stopped process whose tracer waits for it, or for its answer, has not lost
\* it, and only the tracer that waits for the answer can let it go.
LEMMA ptretTrace ==
  ASSUME IInv, IInv', TraceInv, NEW p \in Slots,
         pc[p] \in {"user", "traced", "ptlock"},
         NEW f \in SUBSET {"PFTRAC", "PFWAIT", "PFSTOP"},
         "PFSTOP" \in flags[p] => "PFSTOP" \in f,
         ptret(p, f) \/ (ptserve(p, f) /\ ptrest(p))
  PROVE  TraceInv'
  <1>0. /\ TypeOK /\ ChainInv /\ PidsUnique /\ RequestHasTarget /\ p \in chain
        /\ \A s \in chain : "PFSTOP" \in flags[s] \/ "PFWAIT" \in flags[s] =>
                            pc[s] \in {"traced", "ptlock"}
    BY DEF IInv, TraceInv, ChainInv
  <1> DEFINE gone == ppid[p] = 1 \/ ppid[p] \notin Taken
             mine == pts.busy /\ pts.pid = pid[p]
             Tracer(q) == q \in chain /\ pc[q] \in {"ptset", "ptbusy"} /\ p \in Kids(q)
  <1>1. ASSUME NEW q, Tracer(q) PROVE ~ gone
    <2>1. q # Eve /\ q \in Slots /\ pid[q] >= 2 /\ ppid[p] = pid[q]
      BY <1>0, <1>1 DEF ChainInv, TypeOK, Kids
    <2>2. pid[q] \in Taken /\ pid[q] # 1
      BY <1>0, <1>1, <2>1 DEF Taken, TypeOK
    <2> QED
      BY <2>1, <2>2
  <1>2. ASSUME NEW q, Tracer(q), mine PROVE pc[q] = "ptbusy"
    <2>1. PICK c \in Kids(ptgate) : pid[c] = pts.pid /\ pc[ptgate] = "ptbusy"
      BY <1>0, <1>2 DEF RequestHasTarget
    <2>2. c = p
      BY <1>0, <1>2, <2>1 DEF PidsUnique, Kids
    <2>3. ptgate \in chain /\ pid[ptgate] = pid[q]
      BY <1>0, <1>2, <2>1, <2>2 DEF Kids, ChainInv, TypeOK, RequestHasTarget
    <2> QED
      BY <1>0, <1>2, <2>1, <2>3 DEF PidsUnique
  <1>3. PICK l \in {"user", "exit", "traced", "ptlock"},
             g \in {f, f \ {"PFWAIT", "PFSTOP"}} :
          /\ pc' = [pc EXCEPT ![p] = l] /\ flags' = [flags EXCEPT ![p] = g]
          /\ IF l \in {"traced", "ptlock"} THEN g = f /\ (pts' = pts \/ ~ pts'.busy)
             ELSE g = f \ {"PFWAIT", "PFSTOP"} /\ ((gone /\ pts' = pts) \/ (mine /\ ~ pts'.busy))
    BY DEF ptret, ptserve, Goto, NoRequest
  <1>4. UNCHANGED <<chain, pid, ppid, child, ptgate>>
    BY DEF ptret, ptrest, idvars
  <1>5. \A s \in chain' : "PFSTOP" \in flags'[s] \/ "PFWAIT" \in flags'[s] =>
          pc'[s] \in {"traced", "ptlock"}
    BY <1>0, <1>3, <1>4 DEF TypeOK
  <1>6. ASSUME NEW q \in chain, NEW c \in Kids(q), Stopped(c),
               pc[q] = "ptset" \/ (pc[q] = "ptbusy" /\ pts'.busy)
        PROVE  Stopped(c)'
    <2>1. CASE c = p
      <3>1. l \in {"traced", "ptlock"}
        BY <1>1, <1>2, <1>3, <1>6, <2>1
      <3> QED
        BY <1>0, <1>3, <1>6, <2>1, <3>1 DEF Stopped, TypeOK
    <2>2. CASE c # p
      BY <1>0, <1>3, <1>6, <2>2 DEF Stopped, TypeOK, Kids
    <2> QED
      BY <2>1, <2>2
  <1>7. pts' = pts \/ ~ pts'.busy
    BY <1>3
  <1>8. /\ \A s \in Slots : pc'[s] = "ptset" => pc[s] = "ptset"
        /\ \A s \in chain : pc[s] \in {"ptset", "ptbusy"} => pc'[s] = pc[s]
    BY <1>0, <1>3 DEF TypeOK
  <1> HIDE DEF gone, mine, Tracer
  <1> QED
    BY <1>4, <1>5, <1>6, <1>7, <1>8, TraceKept DEF Kids, ptvars

LEMMA NextTrace == IInv /\ IInv' /\ TraceInv /\ [Next]_vars => TraceInv'
  <1> SUFFICES ASSUME IInv, IInv', TraceInv, [Next]_vars PROVE TraceInv'
    OBVIOUS
  <1>0. TypeOK
    BY DEF IInv
  <1>1. CASE UNCHANGED vars
    BY <1>1 DEF vars, TraceInv, RequestHasTarget, Stopped, Kids
  <1>2. ASSUME NEW p \in Slots, ptagain(p) \/ ptlocked(p) PROVE TraceInv'
    BY <1>0, <1>2, ptretTrace DEF ptagain, ptlocked, TypeOK
  <1>3. ASSUME NEW p \in Slots, actvsig(p) PROVE TraceInv'
    <2>1. CASE UNCHANGED <<idvars, ppid, state, flags, pc, ptvars, self>>
      BY <2>1, TraceKept DEF idvars, ptvars, TraceInv, Stopped, Kids
    <2>2. CASE Goto(p, "exit") /\ UNCHANGED <<idvars, ppid, state, flags, ptvars, self>>
      BY <1>0, <1>3, <2>2, TraceKept DEF actvsig, Goto, idvars, ptvars,
         TraceInv, Stopped, Kids, TypeOK
    <2>3. CASE ptret(p, flags[p] \union {"PFWAIT"})
      BY <1>0, <1>3, <2>3, ptretTrace DEF actvsig, TypeOK
    <2> QED
      BY <1>3, <2>1, <2>2, <2>3 DEF actvsig
  <1>4. CASE Next
    <2>1. CASE swapLock \/ swapUnlock
      BY <2>1 DEF swapLock, swapUnlock, idvars, ptvars, TraceInv,
                  RequestHasTarget, Stopped, Kids
    <2> QED
      BY <1>2, <1>3, <1>4, <2>1, PlainTrace, nosegTrace, uwaitTrace, pexitTrace,
         TracerTrace DEF Next, Kernel
  <1> QED
    BY <1>1, <1>4

(***************************************************************************)
(* A ptrace request is for a process that is stopped under the one that    *)
(* makes it: between ptset's test and the gate, and until the answer, it   *)
(* cannot run, die, lose its tracer or be taken by another's request.      *)
(***************************************************************************)
THEOREM ProcRequestHasTarget == Spec => []RequestHasTarget
  <1>1. TraceInv => RequestHasTarget
    BY DEF TraceInv
  <1> QED
    BY <1>1, InitTrace, NextTrace, ProcInvariant, PTL DEF Spec

=============================================================================
