----------------------------- MODULE GateProofs -----------------------------
(***************************************************************************)
(* Proofs about gates, for any number of processes below the wrap of the   *)
(* waiter count and any set of gates.                                      *)
(***************************************************************************)
EXTENDS Gate, FiniteSetTheorems, TLAPS

\* The processes counted by g[1].
Inside(g) == {p \in Procs : pc[p] = "sleep" /\ arg[p] = g}

\* The running process runs, and is not queued as well.
CpuInv == \A p \in Procs : cpu = p => p \notin runq

\* Only lock sleeps; lock before its sleep, and all of unlock, keep the cpu.
PcInv ==
  \A p \in Procs :
    /\ state[p] = "PSSLEEP" => pc[p] = "sleep"
    /\ pc[p] \in {"lock", "unlock", "wakeup"} => cpu = p

\* g[0] is set exactly when somebody holds the gate.
LockedInv ==
  \A g \in Gates : g0[g] = 1 <=> \E a \in Agents : g \in holds[a]

IInv ==
  /\ TypeOK /\ CpuInv /\ PcInv /\ Runnable
  /\ LockedInv /\ MutualExclusion
  /\ WaitersCounted /\ NoLostWakeup

-----------------------------------------------------------------------------
(***************************************************************************)
(* What g[1] counts is finite and stays below the wrap of a char.          *)
(***************************************************************************)
LEMMA InsideFinite ==
  ASSUME NEW g \in Gates
  PROVE  /\ IsFiniteSet(Inside(g))
         /\ Cardinality(Inside(g)) \in Nat
         /\ Cardinality(Inside(g)) < Wrap
  <1>1. Inside(g) \subseteq Procs
    BY DEF Inside
  <1>2. /\ IsFiniteSet(Inside(g))
        /\ Cardinality(Inside(g)) <= Cardinality(Procs)
    BY <1>1, FS_Subset, ProcsAssumption
  <1>3. Cardinality(Inside(g)) \in Nat /\ Cardinality(Procs) \in Nat
    BY <1>2, FS_CardinalityType, ProcsAssumption
  <1> QED
    BY <1>2, <1>3, ProcsAssumption

(***************************************************************************)
(* unlock's test is right: with g[1] zero nobody sleeps on the gate.       *)
(***************************************************************************)
LEMMA NobodyWaits ==
  ASSUME WaitersCounted, PcInv, NEW g \in Gates, g1[g] = 0
  PROVE  Sleepers(g) = {}
  <1>1. Inside(g) = {}
    BY InsideFinite, FS_EmptySet DEF WaitersCounted, Inside
  <1> QED
    BY <1>1 DEF Inside, Sleepers, PcInv

(***************************************************************************)
(* The initial state satisfies the inductive invariant.                    *)
(***************************************************************************)
LEMMA InitIInv == Init => IInv
  <1> SUFFICES ASSUME Init PROVE IInv
    OBVIOUS
  <1>1. TypeOK
    <2>1. 0 \in 0 .. Wrap - 1
      <3>1. Cardinality(Procs) \in Nat
        BY FS_CardinalityType, ProcsAssumption
      <3> QED
        BY <3>1, ProcsAssumption
    <2> QED
      BY <2>1 DEF Init, TypeOK, Locs
  <1>2. CpuInv /\ PcInv /\ Runnable
    BY AgentsAssumption DEF Init, CpuInv, PcInv, Runnable
  <1>3. LockedInv /\ MutualExclusion
    BY DEF Init, LockedInv, MutualExclusion
  <1>4. WaitersCounted
    <2>1. \A g \in Gates : {p \in Procs : pc[p] = "sleep" /\ arg[p] = g} = {}
      BY DEF Init
    <2> QED
      BY <2>1, FS_EmptySet DEF Init, WaitersCounted
  <1>5. NoLostWakeup
    BY DEF Init, NoLostWakeup, Sleepers
  <1> QED
    BY <1>1, <1>2, <1>3, <1>4, <1>5 DEF IInv

(***************************************************************************)
(* The parts of the invariant that only speak of the scheduler's state     *)
(* and of the gates survive a step that leaves those alone.                *)
(***************************************************************************)
LEMMA StutterIInv ==
  ASSUME IInv, UNCHANGED <<cpu, runq, state, g0, g1, pc, arg, holds>>,
         disflag' \in {0, 1}
  PROVE  IInv'
  BY DEF IInv, TypeOK, CpuInv, PcInv, Runnable, LockedInv, MutualExclusion,
         WaitersCounted, NoLostWakeup, Sleepers

(***************************************************************************)
(* stand, with the dispatch it ends in.                                    *)
(***************************************************************************)
LEMMA standIInv ==
  ASSUME IInv, stand
  PROVE  IInv'
  <1> USE DEF IInv
  <1>1. TypeOK'
    BY DEF TypeOK, stand, dispatch
  <1>2. CpuInv' /\ Runnable'
    BY AgentsAssumption DEF stand, dispatch, CpuInv, Runnable, TypeOK
  <1>3. PcInv'
    BY AgentsAssumption DEF stand, PcInv
  <1>4. LockedInv' /\ MutualExclusion' /\ WaitersCounted'
    BY DEF stand, LockedInv, MutualExclusion, WaitersCounted
  <1>5. NoLostWakeup'
    <2>1. ~ \E q \in Procs : cpu = q /\ pc[q] \in {"unlock", "wakeup"}
      BY AgentsAssumption DEF stand
    <2>2. \A g \in Gates : Sleepers(g)' = Sleepers(g)
      BY DEF stand, Sleepers
    <2>3. \A g \in Gates : Sleepers(g)' # {} => g0'[g] = 1
      BY <2>1, <2>2 DEF NoLostWakeup, stand
    <2> QED
      BY <2>3 DEF NoLostWakeup
  <1> QED
    BY <1>1, <1>2, <1>3, <1>4, <1>5

(***************************************************************************)
(* A signal wakes a process inside lock and leaves g[1] alone.             *)
(***************************************************************************)
LEMMA sendsigIInv ==
  ASSUME IInv, NEW p \in Procs, sendsig(p)
  PROVE  IInv'
  <1> USE DEF IInv
  <1>1. TypeOK'
    BY DEF TypeOK, sendsig, setrun
  <1>2. CpuInv' /\ Runnable'
    BY DEF sendsig, setrun, CpuInv, Runnable, TypeOK
  <1>3. PcInv'
    BY DEF sendsig, setrun, PcInv, TypeOK
  <1>4. LockedInv' /\ MutualExclusion' /\ WaitersCounted'
    BY DEF sendsig, LockedInv, MutualExclusion, WaitersCounted
  <1>5. NoLostWakeup'
    BY DEF sendsig, setrun, NoLostWakeup, Sleepers, TypeOK
  <1> QED
    BY <1>1, <1>2, <1>3, <1>4, <1>5

(***************************************************************************)
(* g[1] stays right when a process moves inside lock or unlock without     *)
(* entering or leaving lock's sleep.                                       *)
(***************************************************************************)
LEMMA CountKept ==
  ASSUME TypeOK, WaitersCounted, NEW p \in Procs, NEW l \in Locs,
         NEW g \in Gates,
         pc[p] # "sleep", l # "sleep",
         pc' = [pc EXCEPT ![p] = l],
         arg' = [arg EXCEPT ![p] = g],
         g1' = g1
  PROVE  WaitersCounted'
  <1>1. \A h \in Gates :
          {q \in Procs : pc[q] = "sleep" /\ arg[q] = h}'
            = {q \in Procs : pc[q] = "sleep" /\ arg[q] = h}
    BY DEF TypeOK
  <1> QED
    BY <1>1 DEF WaitersCounted

(***************************************************************************)
(* lock is entered.                                                        *)
(***************************************************************************)
LEMMA CallIInv ==
  ASSUME IInv, NEW p \in Procs, NEW g \in Gates, Call(p, g)
  PROVE  IInv'
  <1> USE DEF IInv
  <1>1. TypeOK'
    BY DEF TypeOK, Call, Locs
  <1>2. CpuInv' /\ Runnable'
    BY DEF Call, CpuInv, Runnable
  <1>3. PcInv'
    BY DEF Call, PcInv, TypeOK
  <1>4. LockedInv' /\ MutualExclusion'
    BY DEF Call, LockedInv, MutualExclusion
  <1>5. WaitersCounted'
    BY CountKept DEF Call, Locs
  <1>6. NoLostWakeup'
    BY DEF Call, NoLostWakeup, Sleepers, TypeOK, PcInv
  <1> QED
    BY <1>1, <1>2, <1>3, <1>4, <1>5, <1>6

(***************************************************************************)
(* unlock opens the gate: from here on the process itself is the witness   *)
(* that whoever sleeps on the gate will be woken.                          *)
(***************************************************************************)
LEMMA unlockIInv ==
  ASSUME IInv, NEW p \in Procs, NEW g \in Gates, unlock(p, g)
  PROVE  IInv'
  <1> USE DEF IInv
  <1>1. TypeOK'
    BY DEF TypeOK, unlock, Locs, Agents
  <1>2. CpuInv' /\ Runnable'
    BY DEF unlock, CpuInv, Runnable
  <1>3. PcInv'
    BY DEF unlock, PcInv, TypeOK
  <1>4. LockedInv'
    BY DEF unlock, LockedInv, MutualExclusion, TypeOK, Agents
  <1>5. MutualExclusion'
    BY DEF unlock, MutualExclusion, TypeOK, Agents
  <1>6. WaitersCounted'
    BY CountKept DEF unlock, Locs
  <1>7. NoLostWakeup'
    BY DEF unlock, NoLostWakeup, Sleepers, TypeOK, PcInv
  <1> QED
    BY <1>1, <1>2, <1>3, <1>4, <1>5, <1>6, <1>7

(***************************************************************************)
(* The second half of unlock: with g[1] zero it returns, and no sleeper    *)
(* is left behind.                                                         *)
(***************************************************************************)
LEMMA WaitersIInv ==
  ASSUME IInv, NEW p \in Procs, Waiters(p)
  PROVE  IInv'
  <1> USE DEF IInv
  <1>1. TypeOK'
    BY DEF TypeOK, Waiters, Locs
  <1>2. CpuInv' /\ Runnable'
    BY DEF Waiters, CpuInv, Runnable
  <1>3. PcInv'
    BY DEF Waiters, PcInv, TypeOK
  <1>4. LockedInv' /\ MutualExclusion'
    BY DEF Waiters, LockedInv, MutualExclusion
  <1>5. WaitersCounted'
    <2>1. arg' = [arg EXCEPT ![p] = arg[p]] /\ arg[p] \in Gates
      BY DEF Waiters, TypeOK
    <2>2. PICK l \in Locs : l # "sleep" /\ pc' = [pc EXCEPT ![p] = l]
      BY DEF Waiters, Locs
    <2>3. pc[p] # "sleep" /\ g1' = g1
      BY DEF Waiters
    <2> QED
      BY <2>1, <2>2, <2>3, CountKept
  <1>6. NoLostWakeup'
    <2>1. CASE g1[arg[p]] = 0
      <3>1. Sleepers(arg[p]) = {}
        BY <2>1, NobodyWaits DEF TypeOK
      <3>2. \A g \in Gates : Sleepers(g)' = Sleepers(g)
        BY DEF Waiters, Sleepers
      <3> QED
        BY <3>1, <3>2 DEF NoLostWakeup, Waiters, TypeOK
    <2>2. CASE g1[arg[p]] # 0
      BY <2>2 DEF NoLostWakeup, Waiters, TypeOK, Sleepers
    <2> QED
      BY <2>1, <2>2
  <1> QED
    BY <1>1, <1>2, <1>3, <1>4, <1>5, <1>6

(***************************************************************************)
(* wakeup returns only when nobody is left on the sleep queue.             *)
(***************************************************************************)
LEMMA wakeupIInv ==
  ASSUME IInv, NEW p \in Procs, wakeup(p)
  PROVE  IInv'
  <1> USE DEF IInv
  <1>1. CASE Sleepers(arg[p]) = {} /\ pc' = [pc EXCEPT ![p] = "run"]
             /\ UNCHANGED <<state, runq>>
    <2>1. TypeOK' /\ CpuInv' /\ Runnable'
      BY <1>1 DEF TypeOK, wakeup, Locs, CpuInv, Runnable
    <2>2. PcInv'
      BY <1>1 DEF wakeup, PcInv, TypeOK
    <2>3. LockedInv' /\ MutualExclusion'
      BY DEF wakeup, LockedInv, MutualExclusion
    <2>4. WaitersCounted'
      <3>1. arg' = [arg EXCEPT ![p] = arg[p]] /\ arg[p] \in Gates
        BY DEF wakeup, TypeOK
      <3> QED
        BY <1>1, <3>1, CountKept DEF wakeup, Locs
    <2>5. NoLostWakeup'
      <3>1. \A g \in Gates : Sleepers(g)' = Sleepers(g)
        BY <1>1 DEF wakeup, Sleepers
      <3> QED
        BY <1>1, <3>1 DEF NoLostWakeup, wakeup, TypeOK
    <2> QED
      BY <2>1, <2>2, <2>3, <2>4, <2>5
  <1>2. CASE \E q \in Sleepers(arg[p]) : setrun({q}) /\ UNCHANGED pc
    <2> PICK q \in Sleepers(arg[p]) : setrun({q}) /\ UNCHANGED pc
      BY <1>2
    <2>0. q \in Procs /\ state[q] = "PSSLEEP"
      BY DEF Sleepers
    <2>1. TypeOK' /\ CpuInv' /\ Runnable'
      BY <2>0 DEF TypeOK, wakeup, setrun, CpuInv, Runnable
    <2>2. PcInv'
      BY <2>0 DEF wakeup, setrun, PcInv, TypeOK
    <2>3. LockedInv' /\ MutualExclusion' /\ WaitersCounted'
      BY DEF wakeup, LockedInv, MutualExclusion, WaitersCounted
    <2>4. NoLostWakeup'
      BY <2>0 DEF wakeup, setrun, NoLostWakeup, Sleepers, TypeOK
    <2> QED
      BY <2>1, <2>2, <2>3, <2>4
  <1> QED
    BY <1>1, <1>2 DEF wakeup

(***************************************************************************)
(* A gate passes from a process to the device.                             *)
(***************************************************************************)
LEMMA StartIInv ==
  ASSUME IInv, NEW p \in Procs, NEW g \in Gates, Start(p, g)
  PROVE  IInv'
  <1> USE DEF IInv
  <1>0. p # Device
    BY AgentsAssumption
  <1>1. TypeOK'
    BY <1>0 DEF TypeOK, Start, Agents
  <1>2. CpuInv' /\ Runnable' /\ PcInv' /\ WaitersCounted'
    BY DEF Start, CpuInv, Runnable, PcInv, WaitersCounted
  <1>3. LockedInv' /\ MutualExclusion'
    BY <1>0 DEF Start, LockedInv, MutualExclusion, TypeOK, Agents
  <1>4. NoLostWakeup'
    BY DEF Start, NoLostWakeup, Sleepers
  <1> QED
    BY <1>1, <1>2, <1>3, <1>4

(***************************************************************************)
(* The device unlocks at interrupt level.                                  *)
(***************************************************************************)
LEMMA CompleteIInv ==
  ASSUME IInv, NEW g \in Gates, Complete(g)
  PROVE  IInv'
  <1> USE DEF IInv
  <1>1. TypeOK'
    BY DEF TypeOK, Complete, Agents, setrun, Sleepers
  <1>2. CpuInv' /\ Runnable'
    BY DEF Complete, CpuInv, Runnable, setrun, Sleepers, TypeOK
  <1>3. PcInv'
    BY DEF Complete, PcInv, setrun, Sleepers, TypeOK
  <1>4. LockedInv' /\ MutualExclusion'
    BY DEF Complete, LockedInv, MutualExclusion, TypeOK, Agents
  <1>5. WaitersCounted'
    BY DEF Complete, WaitersCounted
  <1>6. NoLostWakeup'
    <2>1. Sleepers(g)' = {}
      <3>1. CASE g1[g] = 0
        <4>1. Sleepers(g) = {}
          BY <3>1, NobodyWaits
        <4> QED
          BY <3>1, <4>1 DEF Complete, Sleepers
      <3>2. CASE g1[g] # 0
        BY <3>2 DEF Complete, Sleepers, setrun
      <3> QED
        BY <3>1, <3>2
    <2>2. \A h \in Gates : Sleepers(h)' \subseteq Sleepers(h)
      BY DEF Complete, Sleepers, setrun
    <2> QED
      BY <2>1, <2>2 DEF NoLostWakeup, Complete, TypeOK
  <1> QED
    BY <1>1, <1>2, <1>3, <1>4, <1>5, <1>6

(***************************************************************************)
(* Counted out of g[1], a process is one less inside lock's sleep; the     *)
(* char does not wrap.                                                     *)
(***************************************************************************)
LEMMA LeftCounts ==
  ASSUME TypeOK, WaitersCounted, NEW p \in Procs
  PROVE  Left(p) = Cardinality(Inside(arg[p]) \ {p})
  <1> DEFINE S == Inside(arg[p])
  <1>1. arg[p] \in Gates /\ g1[arg[p]] = Cardinality(S)
    BY DEF TypeOK, WaitersCounted, Inside
  <1>2. IsFiniteSet(S) /\ Cardinality(S) \in Nat /\ Cardinality(S) < Wrap
    BY <1>1, InsideFinite
  <1>3. CASE pc[p] = "sleep"
    <2>1. p \in S
      BY <1>3 DEF Inside
    <2>2. Cardinality(S \ {p}) = Cardinality(S) - 1 /\ Cardinality(S) # 0
      BY <1>2, <2>1, FS_RemoveElement, FS_EmptySet
    <2>3. \A n \in Nat : n # 0 /\ n < Wrap => (n + Wrap - 1) % Wrap = n - 1
      BY ProcsAssumption
    <2> QED
      BY <1>1, <1>2, <1>3, <2>2, <2>3 DEF Left
  <1>4. CASE pc[p] # "sleep"
    <2>1. S \ {p} = S
      BY <1>4 DEF Inside
    <2> QED
      BY <1>1, <1>4, <2>1 DEF Left
  <1> QED
    BY <1>3, <1>4

(***************************************************************************)
(* lock takes an open gate, which nobody held.                             *)
(***************************************************************************)
LEMMA lockIInv ==
  ASSUME IInv, NEW p \in Procs, lock(p)
  PROVE  IInv'
  <1> USE DEF IInv
  <1> DEFINE g == arg[p]
  <1>0. g \in Gates
    BY DEF TypeOK
  <1>a. Left(p) = Cardinality(Inside(g) \ {p})
    BY LeftCounts
  <1>b. Left(p) \in 0 .. Wrap - 1
    <2>1. /\ IsFiniteSet(Inside(g) \ {p})
          /\ Cardinality(Inside(g) \ {p}) <= Cardinality(Inside(g))
      BY <1>0, InsideFinite, FS_Subset
    <2>2. Cardinality(Inside(g) \ {p}) \in Nat
      BY <2>1, FS_CardinalityType
    <2> QED
      BY <1>0, <1>a, <2>1, <2>2, InsideFinite, ProcsAssumption
  <1>1. TypeOK'
    BY <1>0, <1>b DEF TypeOK, lock, Locs, Agents
  <1>2. CpuInv' /\ Runnable'
    BY DEF lock, CpuInv, Runnable
  <1>3. PcInv'
    BY DEF lock, PcInv, TypeOK, Runnable
  <1>4. LockedInv' /\ MutualExclusion'
    <2>1. \A a \in Agents : g \notin holds[a]
      BY <1>0 DEF lock, LockedInv
    <2> QED
      BY <1>0, <2>1 DEF lock, LockedInv, MutualExclusion, TypeOK, Agents
  <1>5. WaitersCounted'
    <2>1. {q \in Procs : pc[q] = "sleep" /\ arg[q] = g}' = Inside(g) \ {p}
      BY DEF lock, Inside, TypeOK
    <2>2. \A h \in Gates \ {g} :
            {q \in Procs : pc[q] = "sleep" /\ arg[q] = h}'
              = {q \in Procs : pc[q] = "sleep" /\ arg[q] = h}
      BY DEF lock, TypeOK
    <2>3. g1'[g] = Left(p) /\ \A h \in Gates \ {g} : g1'[h] = g1[h]
      BY <1>0 DEF lock, TypeOK
    <2>4. (\A h \in Gates : h # g =>
             g1'[h] = Cardinality({q \in Procs : pc'[q] = "sleep" /\ arg'[q] = h}))
      BY <2>2, <2>3 DEF WaitersCounted
    <2>5. g1'[g] = Cardinality({q \in Procs : pc'[q] = "sleep" /\ arg'[q] = g})
      BY <1>a, <2>1, <2>3 DEF lock
    <2> QED
      BY <2>4, <2>5 DEF WaitersCounted
  <1>6. NoLostWakeup'
    BY <1>0 DEF lock, NoLostWakeup, Sleepers, TypeOK, PcInv
  <1> QED
    BY <1>1, <1>2, <1>3, <1>4, <1>5, <1>6

(***************************************************************************)
(* lock sleeps on a locked gate, counted in.                               *)
(***************************************************************************)
LEMMA sleepIInv ==
  ASSUME IInv, NEW p \in Procs, sleep(p)
  PROVE  IInv'
  <1> USE DEF IInv
  <1> DEFINE g == arg[p]
             T == (Inside(g) \ {p}) \union {p}
  <1>0. g \in Gates /\ g0[g] = 1
    BY DEF TypeOK, sleep
  <1>a. (Left(p) + 1) % Wrap = Cardinality(T) /\ Cardinality(T) \in 0 .. Wrap - 1
    <2>1. Left(p) = Cardinality(Inside(g) \ {p})
      BY LeftCounts
    <2>2. IsFiniteSet(Inside(g) \ {p})
      BY <1>0, InsideFinite, FS_Subset
    <2>3. Cardinality(T) = Left(p) + 1 /\ IsFiniteSet(T)
      BY <2>1, <2>2, FS_AddElement
    <2>4. Cardinality(T) <= Cardinality(Procs) /\ Cardinality(Procs) \in Nat
      <3>1. T \subseteq Procs
        BY DEF Inside
      <3> QED
        BY <3>1, FS_Subset, FS_CardinalityType, ProcsAssumption
    <2>5. Cardinality(T) \in Nat
      BY <2>3, FS_CardinalityType
    <2> QED
      BY <2>3, <2>4, <2>5, ProcsAssumption
  <1>1. TypeOK'
    BY <1>0, <1>a DEF TypeOK, sleep, Locs, dispatch
  <1>2. CpuInv' /\ Runnable'
    BY AgentsAssumption DEF sleep, dispatch, CpuInv, Runnable, TypeOK
  <1>3. PcInv'
    BY DEF sleep, PcInv, TypeOK
  <1>4. LockedInv' /\ MutualExclusion'
    BY DEF sleep, LockedInv, MutualExclusion
  <1>5. WaitersCounted'
    <2>1. {q \in Procs : pc'[q] = "sleep" /\ arg'[q] = g} = T
      BY DEF sleep, Inside, TypeOK
    <2>2. \A h \in Gates \ {g} :
            {q \in Procs : pc'[q] = "sleep" /\ arg'[q] = h}
              = {q \in Procs : pc[q] = "sleep" /\ arg[q] = h}
      BY DEF sleep, TypeOK
    <2>3. /\ g1'[g] = (Left(p) + 1) % Wrap
          /\ \A h \in Gates \ {g} : g1'[h] = g1[h]
      BY <1>0 DEF sleep, TypeOK
    <2>4. \A h \in Gates \ {g} :
            g1'[h] = Cardinality({q \in Procs : pc'[q] = "sleep" /\ arg'[q] = h})
      BY <2>2, <2>3 DEF WaitersCounted
    <2>5. g1'[g] = Cardinality({q \in Procs : pc'[q] = "sleep" /\ arg'[q] = g})
      BY <1>a, <2>1, <2>3
    <2> QED
      BY <2>4, <2>5 DEF WaitersCounted
  <1>6. NoLostWakeup'
    <2>1. ~ \E q \in Procs : cpu = q /\ pc[q] \in {"unlock", "wakeup"}
      BY DEF sleep
    <2>2. \A h \in Gates \ {g} : Sleepers(h)' = Sleepers(h)
      BY DEF sleep, Sleepers, TypeOK
    <2>3. g0' = g0
      BY DEF sleep
    <2> QED
      BY <1>0, <2>1, <2>2, <2>3 DEF NoLostWakeup
  <1> QED
    BY <1>1, <1>2, <1>3, <1>4, <1>5, <1>6

(***************************************************************************)
(* Every step preserves the inductive invariant.                           *)
(***************************************************************************)
LEMMA NextIInv == IInv /\ [Next]_vars => IInv'
  <1> SUFFICES ASSUME IInv, [Next]_vars PROVE IInv'
    OBVIOUS
  <1>1. CASE UNCHANGED vars
    BY <1>1, StutterIInv DEF vars, IInv, TypeOK
  <1>2. CASE Quantum
    BY <1>2, StutterIInv DEF Quantum
  <1>3. CASE stand
    BY <1>3, standIInv
  <1>4. ASSUME NEW p \in Procs, Step(p) PROVE IInv'
    BY <1>4, lockIInv, sleepIInv, WaitersIInv, wakeupIInv DEF Step
  <1>5. ASSUME NEW p \in Procs, sendsig(p) PROVE IInv'
    BY <1>5, sendsigIInv
  <1>6. ASSUME NEW p \in Procs, NEW g \in Gates,
               Call(p, g) \/ unlock(p, g) \/ Start(p, g)
        PROVE  IInv'
    BY <1>6, CallIInv, unlockIInv, StartIInv
  <1>7. ASSUME NEW g \in Gates, Complete(g) PROVE IInv'
    BY <1>7, CompleteIInv
  <1> QED
    BY <1>1, <1>2, <1>3, <1>4, <1>5, <1>6, <1>7 DEF Next

(***************************************************************************)
(* Gates exclude, and no wakeup is lost, whatever processes, interrupts    *)
(* and signals do, as long as fewer than Wrap processes exist.             *)
(***************************************************************************)
THEOREM GateInvariant == Spec => []IInv
  BY InitIInv, NextIInv, PTL DEF Spec

(***************************************************************************)
(* lock and unlock give mutual exclusion.                                  *)
(***************************************************************************)
THEOREM GateMutualExclusion == Spec => []MutualExclusion
  <1>1. IInv => MutualExclusion
    BY DEF IInv
  <1> QED
    BY <1>1, GateInvariant, PTL

(***************************************************************************)
(* A process asleep in lock always has somebody who will wake it.          *)
(***************************************************************************)
THEOREM GateNoLostWakeup == Spec => []NoLostWakeup
  <1>1. IInv => NoLostWakeup
    BY DEF IInv
  <1> QED
    BY <1>1, GateInvariant, PTL

(***************************************************************************)
(* The state of the gate module is always of its type.                     *)
(***************************************************************************)
THEOREM GateTypeOK == Spec => []TypeOK
  <1>1. IInv => TypeOK
    BY DEF IInv
  <1> QED
    BY <1>1, GateInvariant, PTL

-----------------------------------------------------------------------------
(***************************************************************************)
(* The refinement of Mutex.                                                *)
(***************************************************************************)

(***************************************************************************)
(* Under the invariant the mapped owner of a gate is the agent that holds  *)
(* it, and Free when nobody does.                                          *)
(***************************************************************************)
LEMMA OwnerHolds ==
  ASSUME IInv, NEW g \in Gates
  PROVE  /\ g0[g] = 0 => owner[g] = Free
         /\ \A a \in Agents : g \in holds[a] => owner[g] = a
  <1>1. g0[g] = 0 => owner[g] = Free
    BY DEF owner
  <1>2. ASSUME NEW a \in Agents, g \in holds[a] PROVE owner[g] = a
    <2>1. g0[g] = 1
      BY <1>2 DEF IInv, LockedInv
    <2>2. \A b \in Agents : g \in holds[b] => b = a
      BY <1>2 DEF IInv, MutualExclusion
    <2>3. (CHOOSE b \in Agents : g \in holds[b]) = a
      BY <1>2, <2>2
    <2> QED
      BY <2>1, <2>3 DEF owner
  <1> QED
    BY <1>1, <1>2

(***************************************************************************)
(* A step that leaves the gates and their holders alone keeps the owners.  *)
(***************************************************************************)
LEMMA OwnerKept ==
  ASSUME UNCHANGED <<g0, holds>>
  PROVE  UNCHANGED owner
  BY DEF owner

(***************************************************************************)
(* Every step of a gate is a step of the mutex, or leaves it alone.        *)
(***************************************************************************)
LEMMA StepRefines ==
  ASSUME IInv, IInv', [Next]_vars
  PROVE  [M!Next]_owner
  <1>0. \A g \in Gates :
          /\ g0'[g] = 0 => owner'[g] = Free
          /\ \A a \in Agents : g \in holds'[a] => owner'[g] = a
    <2>2. \A g \in Gates : g0'[g] = 0 => owner'[g] = Free
      BY DEF owner
    <2>3. ASSUME NEW g \in Gates, NEW a \in Agents, g \in holds'[a]
          PROVE  owner'[g] = a
      <3>1. g0'[g] = 1
        BY <2>3 DEF IInv, LockedInv
      <3>2. \A b \in Agents : g \in holds'[b] => b = a
        BY <2>3 DEF IInv, MutualExclusion
      <3>3. (CHOOSE b \in Agents : g \in holds'[b]) = a
        BY <2>3, <3>2
      <3> QED
        BY <3>1, <3>3 DEF owner
    <2> QED
      BY <2>2, <2>3
  <1>a. owner = [g \in Gates |-> owner[g]] /\ owner' = [g \in Gates |-> owner'[g]]
    BY DEF owner
  <1>b. ASSUME NEW g \in Gates, NEW v,
               \A h \in Gates \ {g} : g0'[h] = g0[h]
                  /\ \A a \in Agents : h \in holds'[a] <=> h \in holds[a],
               owner'[g] = v
        PROVE  owner' = [owner EXCEPT ![g] = v]
    <2>1. ASSUME NEW h \in Gates, h # g PROVE owner'[h] = owner[h]
      <3>1. CASE g0[h] = 0
        BY <1>b, <2>1, <3>1 DEF owner
      <3>2. CASE g0[h] # 0
        <4>1. PICK a \in Agents : h \in holds[a]
          BY <3>2 DEF IInv, LockedInv, TypeOK
        <4>2. owner[h] = a
          BY <4>1, OwnerHolds
        <4>3. h \in holds'[a]
          BY <1>b, <2>1, <4>1
        <4> QED
          BY <1>0, <4>2, <4>3
      <3> QED
        BY <3>1, <3>2
    <2> QED
      BY <1>a, <1>b, <2>1
  <1>1. ASSUME NEW p \in Procs, lock(p) PROVE M!Next
    <2> DEFINE g == arg[p]
    <2>1. g \in Gates /\ p \in Agents /\ owner[g] = Free
      BY <1>1, OwnerHolds DEF lock, IInv, TypeOK, Agents
    <2>2. g \in holds'[p]
      BY <1>1, <2>1 DEF lock, IInv, TypeOK
    <2>3. owner'[g] = p
      BY <1>0, <2>1, <2>2
    <2>4. \A h \in Gates \ {g} : g0'[h] = g0[h]
             /\ \A a \in Agents : h \in holds'[a] <=> h \in holds[a]
      BY <1>1, <2>1 DEF lock, IInv, TypeOK
    <2>5. owner' = [owner EXCEPT ![g] = p]
      BY <1>b, <2>1, <2>3, <2>4
    <2> QED
      BY <2>1, <2>5 DEF M!Next, M!Take
  <1>2. ASSUME NEW a \in Agents, NEW g \in Gates, g \in holds[a],
               g0' = [g0 EXCEPT ![g] = 0],
               holds' = [holds EXCEPT ![a] = @ \ {g}]
        PROVE  M!Next
    <2>1. owner[g] = a
      BY <1>2, OwnerHolds
    <2>2. owner'[g] = Free
      BY <1>0, <1>2 DEF IInv, TypeOK
    <2>3. \A h \in Gates \ {g} : g0'[h] = g0[h]
             /\ \A b \in Agents : h \in holds'[b] <=> h \in holds[b]
      BY <1>2 DEF IInv, TypeOK
    <2>4. owner' = [owner EXCEPT ![g] = Free]
      BY <1>b, <2>2, <2>3
    <2> QED
      BY <2>1, <2>4 DEF M!Next, M!Drop
  <1>3. ASSUME NEW p \in Procs, NEW g \in Gates, Start(p, g) PROVE M!Next
    <2>1. p \in Agents /\ Device \in Agents /\ p # Device
      BY AgentsAssumption DEF Agents
    <2>2. owner[g] = p
      BY <1>3, <2>1, OwnerHolds DEF Start
    <2>3. g \in holds'[Device]
      BY <1>3, <2>1 DEF Start, IInv, TypeOK
    <2>4. owner'[g] = Device
      BY <1>0, <2>1, <2>3
    <2>5. \A h \in Gates \ {g} : g0'[h] = g0[h]
             /\ \A a \in Agents : h \in holds'[a] <=> h \in holds[a]
      BY <1>3, <2>1 DEF Start, IInv, TypeOK
    <2>6. owner' = [owner EXCEPT ![g] = Device]
      BY <1>b, <2>4, <2>5
    <2> QED
      BY <2>1, <2>2, <2>6 DEF M!Next, M!Give
  <1>4. ASSUME NEW p \in Procs, NEW g \in Gates, unlock(p, g) PROVE M!Next
    BY <1>2, <1>4 DEF unlock, Agents
  <1>5. ASSUME NEW g \in Gates, Complete(g) PROVE M!Next
    BY <1>2, <1>5 DEF Complete, Agents
  <1>6. ASSUME UNCHANGED <<g0, holds>> PROVE UNCHANGED owner
    BY <1>6, OwnerKept
  <1>7. CASE UNCHANGED vars \/ Quantum \/ stand
    BY <1>6, <1>7 DEF vars, Quantum, stand
  <1>8. ASSUME NEW p \in Procs,
               sleep(p) \/ Waiters(p) \/ wakeup(p) \/ sendsig(p)
                 \/ (\E g \in Gates : Call(p, g))
        PROVE  UNCHANGED owner
    BY <1>6, <1>8 DEF sleep, Waiters, wakeup, sendsig, Call
  <1> QED
    BY <1>1, <1>3, <1>4, <1>5, <1>7, <1>8 DEF Next, Step

(***************************************************************************)
(* Gates implement the mutex: whatever is proved of a subsystem that       *)
(* treats its gates as mutexes holds of one that calls lock and unlock.    *)
(***************************************************************************)
THEOREM GateRefinesMutex == Spec => ImplementsMutex
  <1>1. Init => M!Init
    BY DEF Init, M!Init, owner
  <1>2. IInv /\ IInv' /\ [Next]_vars => [M!Next]_owner
    BY StepRefines
  <1> QED
    BY <1>1, <1>2, GateInvariant, PTL DEF Spec, M!Spec, ImplementsMutex

=============================================================================
