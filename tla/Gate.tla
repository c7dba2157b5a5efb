------------------------------- MODULE Gate --------------------------------
(***************************************************************************)
(* Gates, sleep/wakeup and the processor of the Coherent kernel            *)
(* (kernel/coh/proc.c, with sendsig of kernel/coh/sig.c and the dispatch   *)
(* part of stand in kernel/coh/clock.c).                                   *)
(*                                                                         *)
(* There is one processor.  The kernel is not preemptive: a process that   *)
(* runs in system mode keeps the processor until it sleeps, and only the   *)
(* return to user mode (stand) redispatches.  Interrupts do come between   *)
(* any two kernel steps that are not at high priority, and they call       *)
(* unlock (through bdone and brelease) and sendsig.  Code between sphi and *)
(* spl is one step here.                                                   *)
(*                                                                         *)
(* The order of the run queue (p_cval) is abstracted to a set: dispatch    *)
(* takes any member.  The hashed sleep queues are abstracted to p_event.   *)
(***************************************************************************)
EXTENDS Naturals, FiniteSets

CONSTANTS
  Procs,    \* the user processes
  Gates,    \* the GATE words of the kernel
  Device,   \* the interrupt level: it owns the gates of buffers in transfer
  Idle,     \* iprocp
  Free,     \* the owner of an open gate, in the refinement of Mutex
  Wrap      \* g[1] is a char: it counts modulo Wrap (256)

Agents == Procs \union {Device}

ASSUME ProcsAssumption ==
  /\ IsFiniteSet(Procs)
  /\ Wrap \in Nat
  /\ Cardinality(Procs) < Wrap

ASSUME AgentsAssumption ==
  Device \notin Procs /\ Idle \notin Procs /\ Free \notin Agents

VARIABLES
  cpu,      \* SELF
  runq,     \* the processes linked on procq
  state,    \* p_state
  g0,       \* g[0]: the gate is locked
  g1,       \* g[1]: the number of processes inside the sleep of lock
  disflag,  \* redispatch on the next return to user mode
  pc,       \* where in lock and unlock each process is
  arg,      \* the gate the process passed to lock or unlock
  holds     \* the gates an agent has locked and not unlocked

vars == <<cpu, runq, state, g0, g1, disflag, pc, arg, holds>>

\* "run" is all code outside lock and unlock, in user or system mode.
Locs == {"run", "lock", "sleep", "unlock", "wakeup"}

TypeOK ==
  /\ cpu \in Procs \union {Idle}
  /\ runq \in SUBSET Procs
  /\ state \in [Procs -> {"PSRUN", "PSSLEEP"}]
  /\ g0 \in [Gates -> {0, 1}]
  /\ g1 \in [Gates -> 0 .. Wrap - 1]
  /\ disflag \in {0, 1}
  /\ pc \in [Procs -> Locs]
  /\ arg \in [Procs -> Gates]
  /\ holds \in [Agents -> SUBSET Gates]

Init ==
  /\ cpu = Idle
  /\ runq = Procs
  /\ state = [p \in Procs |-> "PSRUN"]
  /\ g0 = [g \in Gates |-> 0]
  /\ g1 = [g \in Gates |-> 0]
  /\ disflag = 1
  /\ pc = [p \in Procs |-> "run"]
  /\ arg \in [Procs -> Gates]
  /\ holds = [a \in Agents |-> {}]

-----------------------------------------------------------------------------
(* The scheduler.                                                          *)

\* p_event is the gate: a process that sleeps, sleeps in lock.
Sleepers(g) == {p \in Procs : state[p] = "PSSLEEP" /\ arg[p] = g}

\* The processes of S go to the run queue.
setrun(S) ==
  /\ state' = [p \in Procs |-> IF p \in S THEN "PSRUN" ELSE state[p]]
  /\ runq' = runq \union S

\* Any runnable process may be next; the idle process runs when none is.
dispatch(q) ==
  /\ \/ \E p \in q : cpu' = p /\ runq' = q \ {p}
     \/ q = {} /\ cpu' = Idle /\ runq' = {}
  /\ disflag' = 0

\* The clock found the quantum of the running process used up.
Quantum ==
  /\ disflag = 0
  /\ disflag' = 1
  /\ UNCHANGED <<cpu, runq, state, g0, g1, pc, arg, holds>>

(***************************************************************************)
(* A return to user mode (no system call returns with a gate locked), or   *)
(* an interrupt of the idle process, which keeps disflag set.              *)
(***************************************************************************)
stand ==
  /\ \/ \E p \in Procs :
          /\ disflag = 1
          /\ cpu = p /\ pc[p] = "run" /\ holds[p] = {}
          /\ dispatch(runq \union {p})
     \/ cpu = Idle /\ runq # {} /\ dispatch(runq)
  /\ UNCHANGED <<state, g0, g1, pc, arg, holds>>

\* A signal takes its target off any sleep queue, this one too.
sendsig(p) ==
  /\ state[p] = "PSSLEEP"
  /\ setrun({p})
  /\ UNCHANGED <<cpu, g0, g1, disflag, pc, arg, holds>>

-----------------------------------------------------------------------------
(* lock and unlock.                                                        *)

\* The running process calls lock(g).
Call(p, g) ==
  /\ cpu = p /\ pc[p] = "run"
  /\ g \notin holds[p]
  /\ pc' = [pc EXCEPT ![p] = "lock"]
  /\ arg' = [arg EXCEPT ![p] = g]
  /\ UNCHANGED <<cpu, runq, state, g0, g1, disflag, holds>>

\* g[1] with p, if sleep just returned to it, counted out.
Left(p) ==
  IF pc[p] = "sleep" THEN (g1[arg[p]] + Wrap - 1) % Wrap ELSE g1[arg[p]]

\* Mutant: an if in place of lock's while.
lockIf(p) ==
  /\ cpu = p
  /\ pc[p] = "sleep" \/ (pc[p] = "lock" /\ g0[arg[p]] = 0)
  /\ g0' = [g0 EXCEPT ![arg[p]] = 1]
  /\ g1' = [g1 EXCEPT ![arg[p]] = Left(p)]
  /\ holds' = [holds EXCEPT ![p] = @ \union {arg[p]}]
  /\ pc' = [pc EXCEPT ![p] = "run"]
  /\ UNCHANGED <<cpu, runq, state, disflag, arg>>

\* The gate is open: lock takes it and returns.  lock is at high priority
\* from its test of the gate to its sleep, and from sleep's return on.
lock(p) ==
  /\ cpu = p /\ pc[p] \in {"lock", "sleep"}
  /\ g0[arg[p]] = 0
  /\ g0' = [g0 EXCEPT ![arg[p]] = 1]
  /\ g1' = [g1 EXCEPT ![arg[p]] = Left(p)]
  /\ holds' = [holds EXCEPT ![p] = @ \union {arg[p]}]
  /\ pc' = [pc EXCEPT ![p] = "run"]
  /\ UNCHANGED <<cpu, runq, state, disflag, arg>>

\* The gate is locked: lock counts itself in and sleeps, or sleeps again.
sleep(p) ==
  /\ cpu = p /\ pc[p] \in {"lock", "sleep"}
  /\ g0[arg[p]] # 0
  /\ g1' = [g1 EXCEPT ![arg[p]] = (Left(p) + 1) % Wrap]
  /\ state' = [state EXCEPT ![p] = "PSSLEEP"]
  /\ pc' = [pc EXCEPT ![p] = "sleep"]
  /\ dispatch(runq)
  /\ UNCHANGED <<g0, arg, holds>>

\* Mutant: unlock misses the only waiter.
WaitersOffByOne(p) ==
  /\ cpu = p /\ pc[p] = "unlock"
  /\ \/ /\ g1[arg[p]] <= 1
        /\ pc' = [pc EXCEPT ![p] = "run"]
        /\ UNCHANGED disflag
     \/ /\ g1[arg[p]] > 1
        /\ pc' = [pc EXCEPT ![p] = "wakeup"]
        /\ disflag' = 1
  /\ UNCHANGED <<cpu, runq, state, g0, g1, arg, holds>>

\* unlock opens the gate; an interrupt may come before it looks at g[1].
unlock(p, g) ==
  /\ cpu = p /\ pc[p] = "run"
  /\ g \in holds[p]
  /\ g0' = [g0 EXCEPT ![g] = 0]
  /\ holds' = [holds EXCEPT ![p] = @ \ {g}]
  /\ pc' = [pc EXCEPT ![p] = "unlock"]
  /\ arg' = [arg EXCEPT ![p] = g]
  /\ UNCHANGED <<cpu, runq, state, g1, disflag>>

Waiters(p) ==
  /\ cpu = p /\ pc[p] = "unlock"
  /\ \/ /\ g1[arg[p]] = 0
        /\ pc' = [pc EXCEPT ![p] = "run"]
        /\ UNCHANGED disflag
     \/ /\ g1[arg[p]] # 0
        /\ pc' = [pc EXCEPT ![p] = "wakeup"]
        /\ disflag' = 1
  /\ UNCHANGED <<cpu, runq, state, g0, g1, arg, holds>>

\* wakeup lowers the priority after every process it wakes.
wakeup(p) ==
  /\ cpu = p /\ pc[p] = "wakeup"
  /\ \/ \E q \in Sleepers(arg[p]) : setrun({q}) /\ UNCHANGED pc
     \/ /\ Sleepers(arg[p]) = {}
        /\ pc' = [pc EXCEPT ![p] = "run"]
        /\ UNCHANGED <<state, runq>>
  /\ UNCHANGED <<cpu, g0, g1, disflag, arg, holds>>

\* The process starts an asynchronous transfer on a buffer whose gate it has.
Start(p, g) ==
  /\ cpu = p /\ pc[p] = "run"
  /\ g \in holds[p]
  /\ holds' = [holds EXCEPT ![p] = @ \ {g}, ![Device] = @ \union {g}]
  /\ UNCHANGED <<cpu, runq, state, g0, g1, disflag, pc, arg>>

\* Mutant: the interrupt opens the gate and wakes nobody.
CompleteSilently(g) ==
  /\ g \in holds[Device]
  /\ holds' = [holds EXCEPT ![Device] = @ \ {g}]
  /\ g0' = [g0 EXCEPT ![g] = 0]
  /\ UNCHANGED <<cpu, runq, state, g1, disflag, pc, arg>>

\* The transfer is over: bdone, brelease and unlock at interrupt level.
Complete(g) ==
  /\ g \in holds[Device]
  /\ holds' = [holds EXCEPT ![Device] = @ \ {g}]
  /\ g0' = [g0 EXCEPT ![g] = 0]
  /\ \/ g1[g] = 0 /\ UNCHANGED <<disflag, state, runq>>
     \/ g1[g] # 0 /\ disflag' = 1 /\ setrun(Sleepers(g))
  /\ UNCHANGED <<cpu, g1, pc, arg>>

-----------------------------------------------------------------------------
Step(p) == lock(p) \/ sleep(p) \/ Waiters(p) \/ wakeup(p)

Next ==
  \/ Quantum
  \/ stand
  \/ \E p \in Procs :
       \/ Step(p)
       \/ sendsig(p)
       \/ \E g \in Gates : Call(p, g) \/ unlock(p, g) \/ Start(p, g)
  \/ \E g \in Gates : Complete(g)

Spec == Init /\ [][Next]_vars

\* The processor goes to p.
Switch(p) ==
  /\ cpu # p
  /\ stand \/ \E q \in Procs : sleep(q)
  /\ cpu' = p

(***************************************************************************)
(* Fairness: the processor executes the process it is given; a system call *)
(* unlocks what it locked and returns; the clock ticks; a transfer ends;   *)
(* and a process that can run is run, because p_cval favours the process   *)
(* that has waited for the processor.                                      *)
(***************************************************************************)
Fairness ==
  /\ WF_vars(Quantum)
  /\ SF_vars(stand)
  /\ \A p \in Procs : WF_vars(Step(p)) /\ SF_vars(Switch(p))
  /\ \A p \in Procs, g \in Gates : SF_vars(unlock(p, g))
  /\ \A g \in Gates : WF_vars(Complete(g))

FairSpec == Spec /\ Fairness

-----------------------------------------------------------------------------
(***************************************************************************)
(* Two agents never hold one gate: lock's while loop must test g[0] again  *)
(* after every wakeup, because unlock wakes all the waiters, a signal      *)
(* wakes one that nobody unlocked for, and another process may have taken  *)
(* the gate before a woken one gets the processor.                         *)
(***************************************************************************)
MutualExclusion ==
  \A a, b \in Agents : a # b => holds[a] \intersect holds[b] = {}

(***************************************************************************)
(* No lost wakeup: while a process sleeps in lock, its gate is locked, or  *)
(* the unlock that opened it is on the processor and about to wake it.     *)
(***************************************************************************)
NoLostWakeup ==
  \A g \in Gates : Sleepers(g) # {} =>
    \/ g0[g] = 1
    \/ \E q \in Procs : cpu = q /\ pc[q] \in {"unlock", "wakeup"} /\ arg[q] = g

(***************************************************************************)
(* g[1], which unlock trusts to tell whether a wakeup is needed, counts    *)
(* the processes inside lock's sleep, woken or not.                        *)
(***************************************************************************)
WaitersCounted ==
  \A g \in Gates :
    g1[g] = Cardinality({p \in Procs : pc[p] = "sleep" /\ arg[p] = g})

(***************************************************************************)
(* Whoever can run is on the processor or on the run queue, once.          *)
(***************************************************************************)
Runnable ==
  \A p \in Procs : (state[p] = "PSRUN") <=> (p \in runq \/ cpu = p)

(***************************************************************************)
(* A free gate somebody waits for is eventually taken: the wakeup reaches  *)
(* a waiter, dispatch reaches that waiter, and lock's retry succeeds.      *)
(* (Which waiter gets the gate is not promised.)                           *)
(***************************************************************************)
FreeGateIsTaken ==
  \A g \in Gates :
    (g0[g] = 0 /\ \E p \in Procs : pc[p] = "sleep" /\ arg[p] = g)
      ~> (g0[g] = 1)

-----------------------------------------------------------------------------
(* Refinement: seen through its owner, a gate is a mutex.                  *)

owner == [g \in Gates |->
            IF g0[g] = 0 THEN Free ELSE CHOOSE a \in Agents : g \in holds[a]]

M == INSTANCE Mutex

(***************************************************************************)
(* Gates implement the mutex the rest of the kernel relies on.             *)
(***************************************************************************)
ImplementsMutex == M!Spec

=============================================================================
