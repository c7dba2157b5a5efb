-------------------------------- MODULE Proc --------------------------------
(***************************************************************************)
(* The life of processes in the Coherent kernel: fork, exit, wait, signals *)
(* and ptrace (kernel/coh/proc.c, sig.c, sys1.c).                          *)
(*                                                                         *)
(* The kernel is not preemptive, so a stretch of code without a sleep is   *)
(* one step.  pnxgate, which guards the chain of processes, is held over a *)
(* sleep by the swapper alone, while it writes processes out: whoever then *)
(* wants the gate waits.  That is a guard of the calls that lock it first  *)
(* of all; ptret locks it half way, and has a place of its own to wait at. *)
(* (wait locks it again to unlink a dead child, which nobody else looks    *)
(* at meanwhile: that is one step with the search.)                        *)
(*                                                                         *)
(* Only interrupts come in between the steps of a process: the terminal    *)
(* drivers call sendsig from theirs.  They matter in one place, between    *)
(* the test for a signal at the start of sleep and the end of it (the      *)
(* variable self).                                                         *)
(***************************************************************************)
EXTENDS Naturals, FiniteSets

CONSTANTS
  Slots,  \* the PROC structures there is room for
  Eve,    \* eprocp, the structure of process 1
  NPID,   \* process ids are below this
  None

ASSUME ProcAssumption ==
  /\ IsFiniteSet(Slots)
  /\ Eve \in Slots
  /\ None \notin Slots
  /\ NPID \in Nat /\ NPID > 2
  /\ Cardinality(Slots) < NPID

VARIABLES
  chain,  \* the processes linked through p_nforw
  pid,    \* p_pid
  ppid,   \* p_ppid
  state,  \* p_state
  flags,  \* p_flags: PFTRAC, PFWAIT and PFSTOP
  ssig,   \* whether p_ssig has a signal that is not ignored
  pc,     \* where each process is
  child,  \* the child a forking process is making
  cpid,   \* where the search for a process id starts
  pts,    \* the ptrace request: pt_busy, pt_pid and pt_req
  ptgate, \* the owner of pts.pt_gate
  self,   \* a process about to sleep, with only interrupts before it does
  nx,     \* whether the swapper sleeps with pnxgate locked
  late    \* history: those that sleep on pt_req since after their tracer left

vars == <<chain, pid, ppid, state, flags, ssig, pc, child, cpid, pts, ptgate,
          self, nx, late>>
ptvars == <<pts, ptgate, late>>
idvars == <<chain, pid, cpid, child>>

Locs == {"free", "new", "user", "fork", "wgap", "waiting", "pgap", "pausing",
         "ptlock", "traced", "ptset", "ptbusy", "exit", "dead"}

Requests == {"look", "go", "kill"}

\* pt_busy is 0, and the rest of pts is not looked at.
NoRequest == [busy |-> FALSE, pid |-> 0, req |-> "look"]

TypeOK ==
  /\ chain \in SUBSET Slots
  /\ pid \in [Slots -> 0 .. NPID - 1]
  /\ ppid \in [Slots -> 0 .. NPID - 1]
  /\ state \in [Slots -> {"PSRUN", "PSSLEEP", "PSDEAD"}]
  /\ flags \in [Slots -> SUBSET {"PFTRAC", "PFWAIT", "PFSTOP"}]
  /\ ssig \in [Slots -> BOOLEAN]
  /\ pc \in [Slots -> Locs]
  /\ child \in [Slots -> Slots \union {None}]
  /\ cpid \in 2 .. NPID - 1
  /\ pts \in [busy : BOOLEAN, pid : 0 .. NPID - 1, req : Requests]
  /\ ptgate \in Slots \union {None}
  /\ self \in Slots \union {None}
  /\ nx \in BOOLEAN
  /\ late \in SUBSET Slots

Init ==
  /\ chain = {Eve}
  /\ pid = [s \in Slots |-> IF s = Eve THEN 1 ELSE 0]
  /\ ppid = [s \in Slots |-> 0]
  /\ state = [s \in Slots |-> "PSRUN"]
  /\ flags = [s \in Slots |-> {}]
  /\ ssig = [s \in Slots |-> FALSE]
  /\ pc = [s \in Slots |-> IF s = Eve THEN "user" ELSE "free"]
  /\ child = [s \in Slots |-> None]
  /\ cpid = 2
  /\ pts = NoRequest
  /\ ptgate = None
  /\ self = None
  /\ nx = FALSE
  /\ late = {}

-----------------------------------------------------------------------------
Asleep(l) == {s \in chain : pc[s] = l /\ state[s] = "PSSLEEP"}

Goto(p, l) == pc' = [pc EXCEPT ![p] = l]

\* wakeup of the processes in S.
wakeup(S) ==
  state' = [s \in Slots |-> IF s \in S THEN "PSRUN" ELSE state[s]]

\* p goes to sleep after a wakeup of the processes in S.
sleepAfter(p, S) ==
  state' = [s \in Slots |-> CASE s = p -> "PSSLEEP"
                              [] s \in S \ {p} -> "PSRUN"
                              [] OTHER -> state[s]]

\* Mutant: the test is the wrong way round and finds the children.
WaitingChild(p) == {s \in Asleep("waiting") : ppid[s] = pid[p]}

\* The process with p's parent's id, if it sleeps in wait.
WaitingParent(p) == {s \in Asleep("waiting") : pid[s] = ppid[p]}

Kids(p) == {c \in chain : ppid[c] = pid[p]}

-----------------------------------------------------------------------------
(* fork.                                                                   *)

Taken == {pid[s] : s \in chain}

\* relproc and kfree of c, while p goes back to user mode.  What is left in
\* the structure is of no interest: kalloc clears it.
relproc(p, c) ==
  /\ chain' = chain \ {c}
  /\ pid' = [pid EXCEPT ![c] = 0]
  /\ ppid' = [ppid EXCEPT ![c] = 0]
  /\ state' = [state EXCEPT ![c] = "PSRUN"]
  /\ flags' = [flags EXCEPT ![c] = {}]
  /\ ssig' = [ssig EXCEPT ![c] = FALSE]
  /\ pc' = [pc EXCEPT ![p] = "user", ![c] = "free"]

\* The i-th process id that process() tries.
Candidate(i) == IF cpid + i < NPID THEN cpid + i ELSE 2 + (cpid + i - NPID)

\* Mutant: the next id, taken or not.
processNext(p, c) ==
  /\ self = None /\ ~ nx /\ pc[p] = "user"
  /\ c \notin chain
  /\ pid' = [pid EXCEPT ![c] = Candidate(0)]
  /\ cpid' = Candidate(1)
  /\ chain' = chain \union {c}
  /\ child' = [child EXCEPT ![p] = c]
  /\ pc' = [pc EXCEPT ![p] = "fork", ![c] = "new"]
  /\ UNCHANGED <<ppid, state, flags, ssig, ptvars, self, nx>>

\* process(): a structure and the next process id that is not taken.
process(p, c) ==
  /\ self = None /\ ~ nx /\ pc[p] = "user"
  /\ c \notin chain
  /\ \E i \in 0 .. NPID - 3 :
       /\ Candidate(i) \notin Taken
       /\ \A j \in 0 .. i - 1 : Candidate(j) \in Taken
       /\ pid' = [pid EXCEPT ![c] = Candidate(i)]
       /\ cpid' = Candidate(i + 1)
  /\ chain' = chain \union {c}
  /\ child' = [child EXCEPT ![p] = c]
  /\ pc' = [pc EXCEPT ![p] = "fork", ![c] = "new"]
  /\ UNCHANGED <<ppid, state, flags, ssig, ptvars, self, nx>>

\* The rest of pfork, once segadup has the segments.
pfork(p) ==
  /\ self = None /\ pc[p] = "fork"
  /\ LET c == child[p] IN
     /\ ppid' = [ppid EXCEPT ![c] = pid[p]]
     /\ ssig' = [ssig EXCEPT ![c] = ssig[p]]
     /\ pc' = [pc EXCEPT ![p] = "user", ![c] = "user"]
  /\ child' = [child EXCEPT ![p] = None]
  /\ UNCHANGED <<chain, pid, cpid, state, flags, ptvars, self, nx>>

\* segadup fails: relproc, and EAGAIN.
noseg(p) ==
  /\ self = None /\ ~ nx /\ pc[p] = "fork"
  /\ relproc(p, child[p])
  /\ child' = [child EXCEPT ![p] = None]
  /\ UNCHANGED <<cpid, ptvars, self, nx>>

-----------------------------------------------------------------------------
(* Signals and sleep.                                                      *)

\* From a process, from the clock, or from a terminal's interrupt routine.
sendsig(p) ==
  /\ p \in chain \ {Eve} /\ pc[p] # "new"
  /\ ssig' = [ssig EXCEPT ![p] = TRUE]
  /\ wakeup({p} \intersect {s \in chain : state[s] = "PSSLEEP"})
  /\ UNCHANGED <<idvars, ppid, flags, pc, ptvars, self, nx>>

\* The start of a sleep that signals end: with one pending it ends at once.
sleepTest(p, gap) ==
  /\ \/ ssig[p] /\ Goto(p, "user") /\ UNCHANGED self
     \/ ~ ssig[p] /\ Goto(p, gap) /\ self' = p
  /\ UNCHANGED <<idvars, ppid, state, flags, ssig, ptvars, nx>>

\* The end of it.
sleep(p) ==
  /\ self = p
  /\ self' = None
  /\ state' = [state EXCEPT ![p] = "PSSLEEP"]
  /\ Goto(p, IF pc[p] = "wgap" THEN "waiting" ELSE "pausing")
  /\ UNCHANGED <<idvars, ppid, flags, ssig, ptvars, nx>>

\* sleep returns with a signal: EINTR.
interrupted(p) ==
  /\ self = None
  /\ pc[p] \in {"waiting", "pausing"} /\ state[p] = "PSRUN" /\ ssig[p]
  /\ Goto(p, "user")
  /\ UNCHANGED <<idvars, ppid, state, flags, ssig, ptvars, self, nx>>

upause(p) ==
  /\ self = None /\ p # Eve /\ pc[p] = "user"
  /\ sleepTest(p, "pgap")

-----------------------------------------------------------------------------
(* exit and wait.                                                          *)

uexit(p) ==
  /\ self = None /\ p # Eve /\ pc[p] = "user"
  /\ Goto(p, "exit")
  /\ UNCHANGED <<idvars, ppid, state, flags, ssig, ptvars, self, nx>>

\* Mutant: dead children are left as they are.
pexitDead(p) ==
  /\ self = None /\ pc[p] = "exit"
  /\ ppid' = [s \in Slots |->
       IF s \in Kids(p) /\ state[s] # "PSDEAD" THEN 1 ELSE ppid[s]]
  /\ LET woken ==
           WaitingParent(p)
           \union (IF \E c \in Kids(p) : "PFTRAC" \in flags[c]
                   THEN Asleep("traced") ELSE {})
     IN state' = [s \in Slots |-> CASE s = p -> "PSDEAD"
                                    [] s \in woken \ {p} -> "PSRUN"
                                    [] OTHER -> state[s]]
  /\ Goto(p, "dead")
  /\ UNCHANGED <<idvars, flags, ssig, ptvars, self, nx>>

\* Mutant: traced children are not told that their tracer is gone.
pexitTraced(p) ==
  /\ self = None /\ pc[p] = "exit"
  /\ ppid' = [s \in Slots |-> IF s \in Kids(p) THEN 1 ELSE ppid[s]]
  /\ LET woken ==
           WaitingParent(p)
           \union (IF \E c \in Kids(p) : state[c] = "PSDEAD"
                   THEN {Eve} \intersect Asleep("waiting") ELSE {})
     IN state' = [s \in Slots |-> CASE s = p -> "PSDEAD"
                                    [] s \in woken \ {p} -> "PSRUN"
                                    [] OTHER -> state[s]]
  /\ Goto(p, "dead")
  /\ UNCHANGED <<idvars, flags, ssig, ptvars, self, nx>>

\* pexit once the files are closed.  The children go to process 1.
pexit(p) ==
  /\ self = None /\ pc[p] = "exit"
  /\ ppid' = [s \in Slots |-> IF s \in Kids(p) THEN 1 ELSE ppid[s]]
  /\ LET woken ==
           WaitingParent(p)
           \union (IF \E c \in Kids(p) : state[c] = "PSDEAD"
                   THEN {Eve} \intersect Asleep("waiting") ELSE {})
           \union (IF \E c \in Kids(p) : "PFTRAC" \in flags[c]
                   THEN Asleep("traced") ELSE {})
     IN state' = [s \in Slots |-> CASE s = p -> "PSDEAD"
                                    [] s \in woken \ {p} -> "PSRUN"
                                    [] OTHER -> state[s]]
  /\ Goto(p, "dead")
  /\ UNCHANGED <<idvars, flags, ssig, ptvars, self, nx>>

\* Mutant: anybody's children will do.
ReadyAny(p) ==
  {c \in chain \ {p} : /\ "PFSTOP" \notin flags[c]
                       /\ "PFWAIT" \in flags[c] \/ state[c] = "PSDEAD"}

\* The children that wait has something to say of.
Ready(p) ==
  {c \in Kids(p) \ {p} : /\ "PFSTOP" \notin flags[c]
                         /\ "PFWAIT" \in flags[c] \/ state[c] = "PSDEAD"}

\* The chain is in descending order of process ids.
First(S) == {c \in S : \A d \in S : pid[d] <= pid[c]}

\* wait reports a child that has stopped, or takes a dead one off the chain.
report(p, c) ==
  /\ \/ /\ "PFWAIT" \in flags[c]
        /\ flags' = [flags EXCEPT ![c] = (@ \ {"PFWAIT"}) \union {"PFSTOP"}]
        /\ Goto(p, "user")
        /\ UNCHANGED <<chain, pid, ppid, state, ssig>>
     \/ "PFWAIT" \notin flags[c] /\ relproc(p, c)
  /\ UNCHANGED <<cpid, child, ptvars, self, nx>>

uwait(p) ==
  /\ self = None /\ ~ nx
  /\ pc[p] = "user" \/ (pc[p] = "waiting" /\ state[p] = "PSRUN" /\ ~ ssig[p])
  /\ \/ \E c \in First(Ready(p)) : report(p, c)
     \/ /\ Ready(p) = {}
        /\ \E c \in Kids(p) \ {p} : "PFSTOP" \notin flags[c]
        /\ sleepTest(p, "wgap")
     \/ /\ \A c \in Kids(p) \ {p} : "PFSTOP" \in flags[c]  \* ECHILD
        /\ Goto(p, "user")
        /\ UNCHANGED <<idvars, ppid, state, flags, ssig, ptvars, self, nx>>

-----------------------------------------------------------------------------
(* ptrace.                                                                 *)

\* ptrace(0, ...): be traced.
traceme(p) ==
  /\ self = None /\ p # Eve /\ pc[p] = "user"
  /\ flags' = [flags EXCEPT ![p] = @ \union {"PFTRAC"}]
  /\ UNCHANGED <<idvars, ppid, state, ssig, pc, ptvars, self, nx>>

\* ptret and the return to actvsig, from the lock of pnxgate on; f is p's
\* flags on entry.  The tracer is told, and p serves its requests until one
\* of them lets it go.  (No such process any more: it dies.)
ptserve(p, f) ==
  LET lost == ppid[p] \notin Taken
      mine == pts.busy /\ pts.pid = pid[p]
  IN
  /\ ~ nx
  /\ \/ /\ lost \/ (mine /\ pts.req # "look")
        /\ Goto(p, IF ~ lost /\ pts.req = "go" THEN "user" ELSE "exit")
        /\ flags' = [flags EXCEPT ![p] = f \ {"PFWAIT", "PFSTOP"}]
        /\ pts' = IF lost THEN pts ELSE NoRequest
        /\ wakeup(IF lost THEN {} ELSE WaitingParent(p) \union Asleep("ptbusy"))
     \/ /\ ~ lost /\ mine /\ pts.req = "look"
        /\ Goto(p, "traced")
        /\ flags' = [flags EXCEPT ![p] = f]
        /\ pts' = NoRequest
        /\ sleepAfter(p, WaitingParent(p) \union Asleep("ptbusy"))
     \/ /\ ~ lost /\ ~ mine
        /\ Goto(p, "traced")
        /\ flags' = [flags EXCEPT ![p] = f]
        /\ sleepAfter(p, WaitingParent(p))
        /\ UNCHANGED pts

\* What a step of ptret leaves alone, and the history it keeps.
ptrest(p) ==
  /\ late' = IF pc'[p] = "traced" /\ ppid[p] = 1 THEN late \union {p}
             ELSE late \ {p}
  /\ UNCHANGED <<idvars, ppid, ptgate, self, nx>>

\* ptret from the start: a process that process 1 has inherited dies, and
\* another waits for pnxgate before it does anything else.
ptret(p, f) ==
  /\ \/ /\ ppid[p] = 1
        /\ Goto(p, "exit")
        /\ flags' = [flags EXCEPT ![p] = f \ {"PFWAIT", "PFSTOP"}]
        /\ UNCHANGED <<pts, state>>
     \/ /\ ppid[p] # 1 /\ nx
        /\ Goto(p, "ptlock")
        /\ flags' = [flags EXCEPT ![p] = f]
        /\ UNCHANGED <<pts, state>>
     \/ ppid[p] # 1 /\ ptserve(p, f)
  /\ ptrest(p)

\* lock returns.
ptlocked(p) ==
  /\ self = None /\ pc[p] = "ptlock"
  /\ ptserve(p, flags[p])
  /\ ptrest(p)
  /\ UNCHANGED ssig

\* ptret after its sleep.
ptagain(p) ==
  /\ self = None /\ pc[p] = "traced" /\ state[p] = "PSRUN"
  /\ ptret(p, flags[p])
  /\ UNCHANGED ssig

\* On the way back to the user's program a pending signal is caught, stops
\* the process if it is traced, or kills it.
actvsig(p) ==
  /\ self = None /\ pc[p] = "user" /\ ssig[p]
  /\ ssig' = [ssig EXCEPT ![p] = FALSE]
  /\ \/ UNCHANGED <<idvars, ppid, state, flags, pc, ptvars, self, nx>>
     \/ /\ "PFTRAC" \notin flags[p]
        /\ Goto(p, "exit")
        /\ UNCHANGED <<idvars, ppid, state, flags, ptvars, self, nx>>
     \/ /\ "PFTRAC" \in flags[p]
        /\ ptret(p, flags[p] \union {"PFWAIT"})

\* Mutant: a child that has not been waited for will do.
uptraceAny(p, c) ==
  /\ self = None /\ ~ nx /\ p # Eve /\ pc[p] = "user"
  /\ c \in Kids(p)
  /\ child' = [child EXCEPT ![p] = c]
  /\ Goto(p, "ptset")
  /\ UNCHANGED <<chain, pid, cpid, ppid, state, flags, ssig, ptvars, self, nx>>

\* The tests of ptset for child c.  p then waits for the gate; c is kept by
\* its process id.
uptrace(p, c) ==
  /\ self = None /\ ~ nx /\ p # Eve /\ pc[p] = "user"
  /\ c \in Kids(p) /\ "PFSTOP" \in flags[c]
  /\ child' = [child EXCEPT ![p] = c]
  /\ Goto(p, "ptset")
  /\ UNCHANGED <<chain, pid, cpid, ppid, state, flags, ssig, ptvars, self, nx>>

\* Mutant: the stopped process is not woken.
ptsetSilent(p, r) ==
  /\ self = None /\ pc[p] = "ptset" /\ ptgate = None
  /\ ptgate' = p
  /\ pts' = [busy |-> TRUE, pid |-> pid[child[p]], req |-> r]
  /\ child' = [child EXCEPT ![p] = None]
  /\ sleepAfter(p, {})
  /\ Goto(p, "ptbusy")
  /\ UNCHANGED <<chain, pid, cpid, ppid, flags, ssig, self, nx, late>>

\* With the gate: the request, and the first sleep on pt_busy.
ptset(p, r) ==
  /\ self = None /\ pc[p] = "ptset" /\ ptgate = None
  /\ ptgate' = p
  /\ pts' = [busy |-> TRUE, pid |-> pid[child[p]], req |-> r]
  /\ child' = [child EXCEPT ![p] = None]
  /\ sleepAfter(p, Asleep("traced"))
  /\ Goto(p, "ptbusy")
  /\ UNCHANGED <<chain, pid, cpid, ppid, flags, ssig, self, nx, late>>

\* The sleep ends: again while pt_busy is set, and else unlock.
ptdone(p) ==
  /\ self = None /\ pc[p] = "ptbusy" /\ state[p] = "PSRUN"
  /\ \/ /\ pts.busy
        /\ state' = [state EXCEPT ![p] = "PSSLEEP"]
        /\ UNCHANGED <<pc, ptgate>>
     \/ /\ ~ pts.busy
        /\ Goto(p, "user")
        /\ ptgate' = None
        /\ UNCHANGED state
  /\ UNCHANGED <<idvars, ppid, flags, ssig, pts, self, nx, late>>

-----------------------------------------------------------------------------
\* The swapper's pass over the chain, which sleeps in procdisk.
swapLock ==
  /\ self = None /\ ~ nx
  /\ nx' = TRUE
  /\ UNCHANGED <<idvars, ppid, state, flags, ssig, pc, ptvars, self>>

swapUnlock ==
  /\ self = None /\ nx
  /\ nx' = FALSE
  /\ UNCHANGED <<idvars, ppid, state, flags, ssig, pc, ptvars, self>>

-----------------------------------------------------------------------------
\* What process p does next once it is in the kernel.
Kernel(p) ==
  \/ pfork(p) \/ noseg(p) \/ sleep(p) \/ interrupted(p) \/ pexit(p)
  \/ ptlocked(p) \/ ptagain(p) \/ ptdone(p)
  \/ pc[p] = "waiting" /\ uwait(p)
  \/ \E r \in Requests : ptset(p, r)

Next ==
  \/ \E p \in Slots :
       \/ Kernel(p) \/ sendsig(p) \/ upause(p) \/ uexit(p)
       \/ pc[p] = "user" /\ uwait(p)
       \/ traceme(p) \/ actvsig(p)
       \/ \E c \in Slots : process(p, c) \/ uptrace(p, c)
  \/ swapLock \/ swapUnlock

Spec == Init /\ [][Next]_vars

\* The processor is shared fairly, the way back to user mode looks for
\* signals, and process 1 waits for its children for ever.  The swapper is a
\* process as well, and its transfers end.
FairSpec ==
  /\ Spec
  /\ \A p \in Slots : SF_vars(Kernel(p)) /\ SF_vars(actvsig(p))
  /\ SF_vars(uwait(Eve)) /\ SF_vars(swapUnlock)

-----------------------------------------------------------------------------
(***************************************************************************)
(* Two processes on the chain, dead ones included, never share a process   *)
(* id, although cpid starts again from 2.                                  *)
(***************************************************************************)
PidsUnique == \A s, t \in chain : pid[s] = pid[t] => s = t

(***************************************************************************)
(* Every process has a parent that has not exited and so can wait for it:  *)
(* pexit leaves no child behind with its id, which fork may use again.     *)
(***************************************************************************)
ParentLives ==
  \A s \in chain \ {Eve} : pc[s] # "new" =>
    \E p \in chain : p # s /\ pid[p] = ppid[s] /\ state[p] # "PSDEAD"

(***************************************************************************)
(* Nobody sleeps in wait beside a child that is dead or newly stopped, but *)
(* for one that has set PFWAIT and is still to tell it, once ptret has     *)
(* pnxgate.  (A stopped child that process 1 adopts is not waited for.)    *)
(***************************************************************************)
WaitNotLost ==
  \A p \in Asleep("waiting") : \A c \in Ready(p) :
    /\ state[c] # "PSDEAD"
    /\ p = Eve \/ pc[c] = "ptlock"

(***************************************************************************)
(* A ptrace request names a process that is stopped under the one that     *)
(* makes it, although ptset tests this before it waits for pt_gate.        *)
(***************************************************************************)
RequestHasTarget ==
  pts.busy =>
    /\ ptgate # None /\ pc[ptgate] = "ptbusy"
    /\ \E c \in Kids(ptgate) :
         /\ pid[c] = pts.pid /\ "PFSTOP" \in flags[c]
         /\ pc[c] \in {"traced", "ptlock"}

(***************************************************************************)
(* One tracer at a time is in the exchange with its child: a process that  *)
(* waits for an answer owns the gate.                                      *)
(***************************************************************************)
OneTracer == \A p \in chain : pc[p] = "ptbusy" => ptgate = p

(***************************************************************************)
(* A process leaves the chain only when its parent's wait takes it after   *)
(* its exit, or when the fork that was making it fails.                    *)
(***************************************************************************)
ReapedByParent ==
  [][\A s \in chain \ chain' :
       \/ /\ state[s] = "PSDEAD"
          /\ \E p \in chain : pid[p] = ppid[s] /\ pc[p] \in {"user", "waiting"}
       \/ \E p \in chain : pc[p] = "fork" /\ child[p] = s]_vars

(***************************************************************************)
(* A dead process that init has inherited is released in the end, unless   *)
(* there are new processes for ever: wait looks at the highest process ids *)
(* first.                                                                  *)
(***************************************************************************)
OrphansReaped ==
  \A s \in Slots :
    \/ (state[s] = "PSDEAD" /\ ppid[s] = 1) ~> (s \notin chain)
    \/ []<>(\E c \in Slots : pc[c] = "new")

(***************************************************************************)
(* A process stopped for a tracer that exits does not stay stopped, unless *)
(* the tracer left while ptret waited for pnxgate, after its one test of   *)
(* p_ppid: then the wakeup of pt_req came before the sleep.                *)
(***************************************************************************)
StoppedNotStranded ==
  \A s \in Slots :
    (pc[s] = "traced" /\ ppid[s] = 1 /\ s \notin late) ~> (pc[s] # "traced")

(***************************************************************************)
(* A ptrace request is answered, and the call that made it returns.        *)
(***************************************************************************)
PtraceReturns == \A s \in Slots : (pc[s] = "ptbusy") ~> (pc[s] = "user")

=============================================================================
