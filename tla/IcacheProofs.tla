---------------------------- MODULE IcacheProofs ----------------------------
(***************************************************************************)
(* Proofs about the inodes in core, for any number of processes, of        *)
(* structures and of inodes: an inode is in one structure only, the        *)
(* references to a structure are counted, and an inode has as many names   *)
(* as links.                                                               *)
(***************************************************************************)
EXTENDS Icache, FiniteSetTheorems, TLAPS

Locs == {"user", "iattach", "ilock", "victim", "icopydm", "idetach", "iclear",
         "ifree", "ifreed", "icopymd", "idone", "ialloc", "have", "bad",
         "badblock", "goodblock", "scan", "take", "taken", "attached", "idirent",
         "failed", "ftoi", "open", "wlock", "fwrite", "clock", "unlink", "unname"}

\* Inside iattach, and inside idetach or its caller's way to it.
InIattach == {"iattach", "ilock", "victim", "icopydm"}
InIdetach == {"idetach", "iclear", "icopymd", "idone"}
Arets == {"bad", "attached", "open", "unlink"}
Drets == {"goodblock", "ialloc", "failed"}

\* What TypeOK leaves open.
TypeInv ==
  /\ pc \in [Procs -> Locs]
  /\ op \in [Procs -> {"none", "creat", "open", "write", "close", "unlink"}]
  /\ aret \in [Procs -> Arets \union {"user"}]
  /\ dret \in [Procs -> Drets \union {"user"}]
  /\ scur \in (0 .. NINODE) \X (0 .. NINO) \X Values

\* p holds the gate of the structure ip[p].
Gated(p) ==
  \/ pc[p] \in InIdetach \union {"icopydm", "idirent", "unname", "fwrite"}
  \/ pc[p] \in {"bad", "attached", "open", "unlink", "ifree", "ifreed"} /\ ip[p] # 0

\* The gates: of a structure, of the list of free inodes, of a directory.
GateInv(p) ==
  /\ Gated(p) => ip[p] \in Slots /\ gate[ip[p]] = p
  /\ pc[p] \in {"ifreed", "have", "scan", "take", "taken"} => mlock = p
  /\ pc[p] = "take" => list # <<>>
  /\ pc[p] \in {"unlink", "unname"} \/ (pc[p] \in InIattach /\ aret[p] = "unlink") =>
       namer[want[p]] = p /\ names[want[p]] > 0

\* The variables of a process, by where it is and which call it makes.
LocalInv(p) ==
  /\ pc[p] \in {"ilock", "victim", "wlock", "clock"} => ip[p] \in Slots
  /\ pc[p] \in {"wlock", "fwrite"} => ip[p] = fd[p]
  /\ pc[p] \in InIattach =>
       /\ aret[p] \in Arets
       /\ IF aret[p] = "bad" THEN want[p] = BADFIN ELSE want[p] \in Files
       /\ aret[p] \in {"bad", "attached"} => op[p] = "creat"
       /\ aret[p] = "open" => op[p] = "open"
  /\ pc[p] \in {"attached", "open", "unlink", "unname", "ftoi", "taken", "idirent"} =>
       want[p] \in Files
  /\ pc[p] = "bad" => want[p] = BADFIN
  /\ pc[p] \in {"ifree", "ifreed"} /\ ip[p] = 0 => want[p] \in Files
  /\ pc[p] \in InIdetach \/ (pc[p] \in {"ifree", "ifreed"} /\ ip[p] # 0) =>
       /\ dret[p] \in Drets
       /\ dret[p] \in {"goodblock", "ialloc"} => op[p] = "creat"
  /\ pc[p] \in {"ialloc", "have", "bad", "badblock", "goodblock", "scan", "take",
                "taken", "attached", "idirent"} => op[p] = "creat"
  /\ pc[p] \in {"ftoi", "open"} => op[p] = "open"
  /\ op[p] \in {"creat", "open"} => fd[p] = 0
  /\ pc[p] = "user" => op[p] = "none"

\* Which inode is in the structure a process has.
InodeInv(p) ==
  /\ Gated(p) => ino[ip[p]] \in Inos
  /\ pc[p] = "icopydm" \/ (pc[p] \in {"bad", "attached", "open", "unlink"} /\ ip[p] # 0)
       => ino[ip[p]] = want[p]
  /\ pc[p] \in {"iclear", "idirent", "unname", "clock"} => ino[ip[p]] \in Files
  /\ pc[p] \in {"ifree", "ifreed"} /\ ip[p] # 0 => ino[ip[p]] \in Files
  /\ fd[p] # 0 => ino[fd[p]] \in Files

\* The bad block file stays as mkfs made it, on the disk and in core.
BadInode == Inode(TRUE, 1, 0)
BadInv ==
  /\ dino[BADFIN] = BadInode
  /\ scur[2] # BADFIN
  /\ \A s \in Slots : ino[s] = BADFIN =>
       /\ ~flag[s]
       /\ val[s] = BadInode \/ \E p \in Procs : pc[p] = "icopydm" /\ ip[p] = s

IInv ==
  /\ OneSlot /\ TypeInv /\ BadInv /\ RefsCounted
  /\ \A p \in Procs : GateInv(p) /\ LocalInv(p) /\ InodeInv(p)

-----------------------------------------------------------------------------
\* The open files and the calls that refer to s.
Opens(s) == {p \in Procs : fd[p] = s}
Atts(s) == {p \in Procs : Attached(p) /\ ip[p] = s}

LEMMA InitIInv == Init => IInv
  <1> SUFFICES ASSUME Init PROVE IInv
    OBVIOUS
  <1> USE IcacheAssumption DEF Init
  <1>1. TypeOK
    BY DEF TypeOK, Inode, Clear, Values, BADFIN, Files, Inos
  <1>2. OneSlot
    BY <1>1 DEF OneSlot
  <1>3. TypeInv
    <2>1. Clear \in Values
      BY DEF Clear, Inode, Values
    <2>2. scur \in (0 .. NINODE) \X (0 .. NINO) \X Values
      BY <2>1
    <2> QED
      BY <2>2 DEF TypeInv, Locs
  <1>4. BadInv
    <2>1. dino[BADFIN] = BadInode
      <3>1. BADFIN \in Inos
        BY DEF BADFIN, Inos
      <3> QED
        BY <3>1 DEF BadInode
    <2>2. scur[2] = 0 /\ scur[2] # BADFIN
      BY DEF BADFIN
    <2>3. \A s \in Slots : ino[s] # BADFIN
      BY DEF BADFIN
    <2> QED
      BY <2>1, <2>2, <2>3 DEF BadInv
  <1>5. RefsCounted
    <2> SUFFICES ASSUME NEW s \in Slots
                 PROVE  refc[s] = Cardinality(Opens(s)) + Cardinality(Atts(s))
      BY DEF RefsCounted, Opens, Atts
    <2>1. Opens(s) = {} /\ Atts(s) = {}
      BY DEF Attached, Slots, Opens, Atts
    <2> QED
      BY <2>1, FS_EmptySet
  <1>6. ASSUME NEW p \in Procs PROVE GateInv(p) /\ LocalInv(p) /\ InodeInv(p)
    BY DEF GateInv, LocalInv, InodeInv, Gated, InIattach, InIdetach
  <1> QED
    BY <1>2, <1>3, <1>4, <1>5, <1>6 DEF IInv

-----------------------------------------------------------------------------
(* References.                                                             *)

LEMMA RefSets ==
  ASSUME NEW s \in Slots
  PROVE  /\ IsFiniteSet(Opens(s)) /\ IsFiniteSet(Atts(s))
         /\ Cardinality(Opens(s)) \in Nat /\ Cardinality(Atts(s)) \in Nat
  <1>1. Opens(s) \subseteq Procs /\ Atts(s) \subseteq Procs
    BY DEF Opens, Atts
  <1> QED
    BY <1>1, IcacheAssumption, FS_Subset, FS_CardinalityType

\* One element more, one less.
LEMMA Grown ==
  ASSUME NEW S, IsFiniteSet(S), NEW x, x \notin S, NEW T, T = S \union {x}
  PROVE  Cardinality(T) = Cardinality(S) + 1 /\ Cardinality(S) \in Nat
  BY FS_AddElement, FS_CardinalityType

LEMMA Shrunk ==
  ASSUME NEW S, IsFiniteSet(S), NEW x, x \in S, NEW T, T = S \ {x}
  PROVE  /\ Cardinality(T) = Cardinality(S) - 1 /\ Cardinality(S) \in Nat
         /\ Cardinality(S) >= 1 /\ Cardinality(T) \in Nat
  <1>1. IsFiniteSet(T) /\ x \notin T /\ S = T \union {x}
    BY FS_Subset
  <1> QED
    BY <1>1, FS_AddElement, FS_CardinalityType

(***************************************************************************)
(* A structure somebody refers to has a count.                             *)
(***************************************************************************)
LEMMA Referred ==
  ASSUME RefsCounted, NEW p \in Procs, NEW s \in Slots,
         fd[p] = s \/ (Attached(p) /\ ip[p] = s)
  PROVE  refc[s] >= 1
  <1>1. refc[s] = Cardinality(Opens(s)) + Cardinality(Atts(s))
    BY DEF RefsCounted, Opens, Atts
  <1>2. CASE fd[p] = s
    <2>1. Cardinality(Opens(s)) >= 1
      BY <1>2, RefSets, Shrunk DEF Opens
    <2> QED
      BY <1>1, <2>1, RefSets
  <1>3. CASE Attached(p) /\ ip[p] = s
    <2>1. Cardinality(Atts(s)) >= 1
      BY <1>3, RefSets, Shrunk DEF Atts
    <2> QED
      BY <1>1, <2>1, RefSets
  <1> QED
    BY <1>2, <1>3

(***************************************************************************)
(* How a step of p may change the references: not at all; iattach and      *)
(* idetach; a call becomes an open file, and an open file a call.          *)
(***************************************************************************)
LEMMA RefSame ==
  ASSUME RefsCounted, refc' = refc,
         \A q \in Procs : /\ fd'[q] = fd[q]
                          /\ Attached(q)' <=> Attached(q)
                          /\ Attached(q) => ip'[q] = ip[q]
  PROVE  RefsCounted'
  <1> SUFFICES ASSUME NEW s \in Slots
               PROVE  refc'[s] = Cardinality(Opens(s)') + Cardinality(Atts(s)')
    BY DEF RefsCounted, Opens, Atts
  <1>1. Opens(s)' = Opens(s) /\ Atts(s)' = Atts(s)
    BY DEF Opens, Atts
  <1> QED
    BY <1>1 DEF RefsCounted, Opens, Atts

LEMMA RefAttach ==
  ASSUME RefsCounted, refc \in [Slots -> Nat], NEW p \in Procs, NEW s \in Slots,
         ~Attached(p), Attached(p)', ip'[p] = s,
         refc' = [refc EXCEPT ![s] = refc[s] + 1], fd' = fd,
         \A q \in Procs \ {p} : /\ Attached(q)' <=> Attached(q)
                                /\ Attached(q) => ip'[q] = ip[q]
  PROVE  RefsCounted'
  <1> SUFFICES ASSUME NEW t \in Slots
               PROVE  refc'[t] = Cardinality(Opens(t)') + Cardinality(Atts(t)')
    BY DEF RefsCounted, Opens, Atts
  <1>1. Opens(t)' = Opens(t)
    BY DEF Opens
  <1>2. refc[t] = Cardinality(Opens(t)) + Cardinality(Atts(t))
    BY DEF RefsCounted, Opens, Atts
  <1>3. CASE t = s
    <2>1. p \notin Atts(t) /\ Atts(t)' = Atts(t) \union {p}
      BY <1>3 DEF Atts
    <2>2. Cardinality(Atts(t)') = Cardinality(Atts(t)) + 1
      BY <2>1, RefSets, Grown
    <2> QED
      BY <1>1, <1>2, <1>3, <2>2, RefSets
  <1>4. CASE t # s
    <2>1. Atts(t)' = Atts(t)
      BY <1>4 DEF Atts
    <2> QED
      BY <1>1, <1>2, <1>4, <2>1
  <1> QED
    BY <1>3, <1>4

LEMMA RefDetach ==
  ASSUME RefsCounted, refc \in [Slots -> Nat], NEW p \in Procs, NEW s \in Slots,
         Attached(p), ~Attached(p)', ip[p] = s,
         refc' = [refc EXCEPT ![s] = refc[s] - 1], fd' = fd,
         \A q \in Procs \ {p} : /\ Attached(q)' <=> Attached(q)
                                /\ Attached(q) => ip'[q] = ip[q]
  PROVE  RefsCounted'
  <1> SUFFICES ASSUME NEW t \in Slots
               PROVE  refc'[t] = Cardinality(Opens(t)') + Cardinality(Atts(t)')
    BY DEF RefsCounted, Opens, Atts
  <1>1. Opens(t)' = Opens(t)
    BY DEF Opens
  <1>2. refc[t] = Cardinality(Opens(t)) + Cardinality(Atts(t))
    BY DEF RefsCounted, Opens, Atts
  <1>3. CASE t = s
    <2>1. p \in Atts(t) /\ Atts(t)' = Atts(t) \ {p}
      BY <1>3 DEF Atts
    <2>2. Cardinality(Atts(t)') = Cardinality(Atts(t)) - 1
      BY <2>1, RefSets, Shrunk
    <2> QED
      BY <1>1, <1>2, <1>3, <2>2, RefSets
  <1>4. CASE t # s
    <2>1. Atts(t)' = Atts(t)
      BY <1>4 DEF Atts
    <2> QED
      BY <1>1, <1>2, <1>4, <2>1
  <1> QED
    BY <1>3, <1>4

LEMMA RefOpen ==
  ASSUME RefsCounted, NEW p \in Procs, NEW s \in Slots,
         Attached(p), ~Attached(p)', ip[p] = s, refc' = refc, fd[p] = 0,
         fd'[p] = s, \A q \in Procs \ {p} : /\ fd'[q] = fd[q]
                                            /\ Attached(q)' <=> Attached(q)
                                            /\ Attached(q) => ip'[q] = ip[q]
  PROVE  RefsCounted'
  <1> SUFFICES ASSUME NEW t \in Slots
               PROVE  refc'[t] = Cardinality(Opens(t)') + Cardinality(Atts(t)')
    BY DEF RefsCounted, Opens, Atts
  <1>1. refc[t] = Cardinality(Opens(t)) + Cardinality(Atts(t))
    BY DEF RefsCounted, Opens, Atts
  <1>2. CASE t = s
    <2>1. p \in Atts(t) /\ Atts(t)' = Atts(t) \ {p}
      BY <1>2 DEF Atts
    <2>2. p \notin Opens(t) /\ Opens(t)' = Opens(t) \union {p}
      BY <1>2, IcacheAssumption DEF Opens, Slots
    <2>3. Cardinality(Atts(t)') = Cardinality(Atts(t)) - 1
      BY <2>1, RefSets, Shrunk
    <2>4. Cardinality(Opens(t)') = Cardinality(Opens(t)) + 1
      BY <2>2, RefSets, Grown
    <2> QED
      BY <1>1, <2>3, <2>4, RefSets
  <1>3. CASE t # s
    <2>1. Atts(t)' = Atts(t)
      BY <1>3 DEF Atts
    <2>2. Opens(t)' = Opens(t)
      BY <1>3, IcacheAssumption DEF Opens, Slots
    <2> QED
      BY <1>1, <1>3, <2>1, <2>2
  <1> QED
    BY <1>2, <1>3

LEMMA RefClose ==
  ASSUME RefsCounted, NEW p \in Procs, NEW s \in Slots,
         ~Attached(p), Attached(p)', ip'[p] = s, refc' = refc, fd[p] = s,
         fd'[p] = 0, \A q \in Procs \ {p} : /\ fd'[q] = fd[q]
                                            /\ Attached(q)' <=> Attached(q)
                                            /\ Attached(q) => ip'[q] = ip[q]
  PROVE  RefsCounted'
  <1> SUFFICES ASSUME NEW t \in Slots
               PROVE  refc'[t] = Cardinality(Opens(t)') + Cardinality(Atts(t)')
    BY DEF RefsCounted, Opens, Atts
  <1>1. refc[t] = Cardinality(Opens(t)) + Cardinality(Atts(t))
    BY DEF RefsCounted, Opens, Atts
  <1>2. CASE t = s
    <2>1. p \notin Atts(t) /\ Atts(t)' = Atts(t) \union {p}
      BY <1>2 DEF Atts
    <2>2. p \in Opens(t) /\ Opens(t)' = Opens(t) \ {p}
      BY <1>2, IcacheAssumption DEF Opens, Slots
    <2>3. Cardinality(Atts(t)') = Cardinality(Atts(t)) + 1
      BY <2>1, RefSets, Grown
    <2>4. Cardinality(Opens(t)') = Cardinality(Opens(t)) - 1
      BY <2>2, RefSets, Shrunk
    <2> QED
      BY <1>1, <2>3, <2>4, RefSets
  <1>3. CASE t # s
    <2>1. Atts(t)' = Atts(t)
      BY <1>3 DEF Atts
    <2>2. Opens(t)' = Opens(t)
      BY <1>3, IcacheAssumption DEF Opens, Slots
    <2> QED
      BY <1>1, <1>3, <2>1, <2>2
  <1> QED
    BY <1>2, <1>3

(***************************************************************************)
(* What another process q knows stays true: its gates stay closed, and a   *)
(* structure it refers to keeps its inode.                                 *)
(***************************************************************************)
LEMMA OthersKept ==
  ASSUME IInv, NEW p, NEW q \in Procs, q # p,
         /\ pc'[q] = pc[q] /\ op'[q] = op[q] /\ want'[q] = want[q] /\ ip'[q] = ip[q]
         /\ aret'[q] = aret[q] /\ dret'[q] = dret[q] /\ fd'[q] = fd[q],
         \A s \in Slots : gate'[s] = gate[s] \/ gate[s] \in {p, Free},
         mlock' = mlock \/ mlock \in {p, Free}, list' = list \/ mlock = p,
         \A i \in Files : namer'[i] = namer[i] \/ namer[i] \in {p, Free},
         \A i \in Files : names[i] > 0 => names'[i] > 0 \/ namer[i] = p,
         \A s \in Slots : ino'[s] = ino[s] \/ (refc[s] = 0 /\ gate[s] = Free)
  PROVE  GateInv(q)' /\ LocalInv(q)' /\ InodeInv(q)'
  <1>0. GateInv(q) /\ LocalInv(q) /\ InodeInv(q) /\ RefsCounted /\ TypeOK
    BY DEF IInv, OneSlot
  <1>1. LocalInv(q)'
    BY <1>0 DEF LocalInv
  <1>2. GateInv(q)'
    BY <1>0, <1>1, IcacheAssumption DEF GateInv, Gated, LocalInv, InIattach
  <1>3. InodeInv(q)'
    <2>1. Gated(q) => ip[q] \in Slots /\ ino'[ip[q]] = ino[ip[q]]
      BY <1>0, IcacheAssumption DEF GateInv
    <2>2. pc[q] = "clock" => ip[q] \in Slots /\ ino'[ip[q]] = ino[ip[q]]
      BY <1>0, Referred, IcacheAssumption DEF LocalInv, Attached, Slots
    <2>3. fd[q] # 0 => fd[q] \in Slots /\ ino'[fd[q]] = ino[fd[q]]
      BY <1>0, Referred, IcacheAssumption DEF TypeOK, Slots
    <2> QED
      BY <1>0, <2>1, <2>2, <2>3 DEF InodeInv, Gated, InIdetach
  <1> QED
    BY <1>1, <1>2, <1>3

-----------------------------------------------------------------------------
(* What is common to the steps of a process.                               *)

\* The types, by parts.
CoreOK ==
  /\ ino \in [Slots -> 0 .. NINO] /\ refc \in [Slots -> Nat]
  /\ gate \in [Slots -> Procs \union {Free}]
  /\ flag \in [Slots -> BOOLEAN] /\ val \in [Slots -> Values]
  /\ dino \in [Inos -> Values]
SuperOK ==
  /\ list \in Seq(Files) /\ Len(list) <= NICINOD
  /\ mlock \in Procs \union {Free}
  /\ names \in [Files -> Nat] /\ namer \in [Files -> Procs \union {Free}]
  /\ unnamed \in SUBSET Files
LocalOK ==
  /\ cpu \in Procs \union {NoProc, Syncer}
  /\ pc \in [Procs -> Locs]
  /\ op \in [Procs -> {"none", "creat", "open", "write", "close", "unlink"}]
  /\ aret \in [Procs -> Arets \union {"user"}]
  /\ dret \in [Procs -> Drets \union {"user"}]
  /\ want \in [Procs -> 0 .. NINO]
  /\ ip \in [Procs -> 0 .. NINODE] /\ fd \in [Procs -> 0 .. NINODE]
SyncOK == scur \in (0 .. NINODE) \X (0 .. NINO) \X Values

LEMMA Types == TypeOK /\ TypeInv <=> CoreOK /\ SuperOK /\ LocalOK /\ SyncOK
  BY DEF TypeOK, TypeInv, CoreOK, SuperOK, LocalOK, SyncOK

\* Nobody else's variables change in a step of p.
OnlyLocals(p) ==
  \A q \in Procs : q # p =>
    /\ pc'[q] = pc[q] /\ op'[q] = op[q] /\ want'[q] = want[q] /\ ip'[q] = ip[q]
    /\ aret'[q] = aret[q] /\ dret'[q] = dret[q] /\ fd'[q] = fd[q]

(***************************************************************************)
(* What the others refer to does not change in a step of p.                *)
(***************************************************************************)
LEMMA OthersRefs ==
  ASSUME NEW p, OnlyLocals(p)
  PROVE  \A q \in Procs \ {p} : /\ fd'[q] = fd[q] /\ Attached(q)' <=> Attached(q)
                                /\ Attached(q) => ip'[q] = ip[q]
  BY DEF OnlyLocals, Attached

LEMMA BadKept ==
  ASSUME BadInv,
         \A q \in Procs : pc[q] = "icopydm" => pc'[q] = "icopydm" /\ ip'[q] = ip[q],
         dino'[BADFIN] = dino[BADFIN], scur'[2] # BADFIN,
         \A s \in Slots : ino'[s] = BADFIN =>
           ino[s] = BADFIN /\ val'[s] = val[s] /\ (flag'[s] => flag[s])
  PROVE  BadInv'
  BY DEF BadInv, BadInode, Inode

(***************************************************************************)
(* A step of p that leaves the structures and the dinodes alone.           *)
(***************************************************************************)
LEMMA MoveIInv ==
  ASSUME IInv, NEW p \in Procs, OnlyLocals(p), LocalOK', SuperOK',
         pc[p] # "icopydm", Attached(p)' <=> Attached(p),
         fd'[p] = fd[p], Attached(p) => ip'[p] = ip[p],
         UNCHANGED <<core, dino, scur>>,
         mlock' = mlock \/ mlock \in {p, Free}, list' = list \/ mlock = p,
         \A i \in Files : namer'[i] = namer[i] \/ namer[i] \in {p, Free},
         \A i \in Files : names[i] > 0 => names'[i] > 0 \/ namer[i] = p,
         GateInv(p)', LocalInv(p)', InodeInv(p)'
  PROVE  IInv'
  <1>1. /\ TypeOK /\ OneSlot /\ TypeInv /\ BadInv /\ RefsCounted
        /\ CoreOK /\ SyncOK
    BY Types DEF IInv, OneSlot
  <1>2. TypeOK' /\ TypeInv'
    <2>1. CoreOK' /\ SyncOK'
      BY <1>1 DEF CoreOK, SyncOK, core
    <2> QED
      BY <2>1, Types DEF TypeOK, TypeInv, CoreOK, SuperOK, LocalOK, SyncOK
  <1>3. OneSlot'
    BY <1>1, <1>2 DEF OneSlot, core
  <1>4. BadInv'
    <2>1. /\ dino'[BADFIN] = dino[BADFIN] /\ scur'[2] # BADFIN
          /\ \A s \in Slots : ino'[s] = BADFIN =>
               ino[s] = BADFIN /\ val'[s] = val[s] /\ (flag'[s] => flag[s])
      BY <1>1 DEF BadInv, core
    <2>2. \A q \in Procs : pc[q] = "icopydm" => pc'[q] = "icopydm" /\ ip'[q] = ip[q]
      BY DEF OnlyLocals
    <2> QED
      BY <1>1, <2>1, <2>2, BadKept
  <1>5. RefsCounted'
    <2>1. refc' = refc
      BY DEF core
    <2>2. \A q \in Procs : q # p => /\ fd'[q] = fd[q] /\ ip'[q] = ip[q]
                                    /\ Attached(q)' <=> Attached(q)
      BY DEF OnlyLocals, Attached
    <2> QED
      BY <1>1, <2>1, <2>2, RefSame
  <1>6. ASSUME NEW q \in Procs, q # p
        PROVE  GateInv(q)' /\ LocalInv(q)' /\ InodeInv(q)'
    BY <1>6, OthersKept DEF OnlyLocals, core
  <1> QED
    BY <1>2, <1>3, <1>4, <1>5, <1>6 DEF IInv

(***************************************************************************)
(* A step of p at a structure whose gate it has, or which is open.         *)
(***************************************************************************)
LEMMA CoreIInv ==
  ASSUME IInv, NEW p \in Procs, OnlyLocals(p), LocalOK', SuperOK', CoreOK',
         scur' = scur, BadInv', RefsCounted',
         \A s, t \in Slots : s # t /\ ino'[s] # 0 => ino'[s] # ino'[t],
         \A s \in Slots : gate'[s] = gate[s] \/ gate[s] \in {p, Free},
         \A s \in Slots : ino'[s] = ino[s] \/ (refc[s] = 0 /\ gate[s] = Free),
         mlock' = mlock \/ mlock \in {p, Free}, list' = list \/ mlock = p,
         \A i \in Files : namer'[i] = namer[i] \/ namer[i] \in {p, Free},
         \A i \in Files : names[i] > 0 => names'[i] > 0 \/ namer[i] = p,
         GateInv(p)', LocalInv(p)', InodeInv(p)'
  PROVE  IInv'
  <1>1. TypeOK /\ TypeInv /\ SyncOK
    BY Types DEF IInv, OneSlot
  <1>2. TypeOK' /\ TypeInv'
    <2>1. SyncOK'
      BY <1>1 DEF SyncOK
    <2> QED
      BY <2>1, Types DEF TypeOK, TypeInv, CoreOK, SuperOK, LocalOK, SyncOK
  <1>3. OneSlot'
    BY <1>2 DEF OneSlot
  <1>6. ASSUME NEW q \in Procs, q # p
        PROVE  GateInv(q)' /\ LocalInv(q)' /\ InodeInv(q)'
    BY <1>6, OthersKept DEF OnlyLocals
  <1> QED
    BY <1>2, <1>3, <1>6 DEF IInv

-----------------------------------------------------------------------------
(* iattach.                                                                *)

(***************************************************************************)
(* The search ends: at the inode, at an unused structure, or with nothing. *)
(***************************************************************************)
LEMMA searchIInv ==
  ASSUME IInv, NEW p \in Procs, NEW s \in Slots, pc[p] = "iattach",
         \/ ip' = [ip EXCEPT ![p] = s] /\ Goto(p, "ilock")
         \/ ip' = [ip EXCEPT ![p] = s] /\ Goto(p, "victim")
         \/ ip' = [ip EXCEPT ![p] = 0] /\ Goto(p, aret[p]),
         UNCHANGED <<core, dino, super, dirs, op, want, aret, dret, fd, syncvars>>
  PROVE  IInv'
  <1>0. /\ CoreOK /\ SuperOK /\ LocalOK /\ OneSlot /\ BadInv /\ RefsCounted
        /\ GateInv(p) /\ LocalInv(p) /\ InodeInv(p)
    BY Types DEF IInv, OneSlot
  <1> USE IcacheAssumption
  <1> USE DEF Slots, Running, Goto, Yield, core, super, dirs, locals, syncvars
  <1>1. OnlyLocals(p) /\ LocalOK'
    BY <1>0 DEF OnlyLocals, LocalOK, Locs, Arets, Drets
  <1>2. SuperOK'
    BY <1>0 DEF SuperOK
  <1>3. GateInv(p)'
    BY <1>0 DEF GateInv, Gated, LocalInv, InodeInv, LocalOK, SuperOK,
       InIattach,
       InIdetach, Arets, Drets
  <1>4. LocalInv(p)'
    BY <1>0 DEF LocalInv, LocalOK, InIattach, InIdetach, Arets, Drets
  <1>5. InodeInv(p)'
    BY <1>0 DEF GateInv, Gated, LocalInv, InodeInv, LocalOK, InIattach,
       InIdetach, Arets, Drets
  <1>6. /\ pc[p] # "icopydm" /\ fd'[p] = fd[p] /\ UNCHANGED <<core, dino, scur>>
        /\ Attached(p)' <=> Attached(p)
        /\ Attached(p) => ip'[p] = ip[p]
        /\ mlock' = mlock \/ mlock \in {p, Free}
        /\ list' = list \/ mlock = p
    BY <1>0 DEF Attached, GateInv, LocalInv, LocalOK, InIattach, InIdetach,
       Arets, Drets
  <1>7. /\ \A i \in Files : namer'[i] = namer[i] \/ namer[i] \in {p, Free}
        /\ \A i \in Files : names[i] > 0 => names'[i] > 0 \/ namer[i] = p
    BY <1>0 DEF SuperOK, GateInv, LocalInv
  <1> QED
    BY <1>1, <1>2, <1>3, <1>4, <1>5, <1>6, <1>7, MoveIInv

(***************************************************************************)
(* The structure has changed during the sleep: search again.               *)
(***************************************************************************)
LEMMA againIInv ==
  ASSUME IInv, NEW p \in Procs, pc[p] \in {"ilock", "victim"}, Goto(p, "iattach"),
         UNCHANGED <<core, dino, super, dirs, locals, syncvars>>
  PROVE  IInv'
  <1>0. /\ CoreOK /\ SuperOK /\ LocalOK /\ OneSlot /\ BadInv /\ RefsCounted
        /\ GateInv(p) /\ LocalInv(p) /\ InodeInv(p)
    BY Types DEF IInv, OneSlot
  <1> USE IcacheAssumption
  <1> USE DEF Running, Goto, Yield, core, super, dirs, locals, syncvars
  <1>1. OnlyLocals(p) /\ LocalOK'
    BY <1>0 DEF OnlyLocals, LocalOK, Locs, Arets, Drets
  <1>2. SuperOK'
    BY <1>0 DEF SuperOK
  <1>3. GateInv(p)'
    BY <1>0 DEF GateInv, Gated, LocalInv, InodeInv, LocalOK, SuperOK,
       InIattach,
       InIdetach, Arets, Drets
  <1>4. LocalInv(p)'
    BY <1>0 DEF LocalInv, LocalOK, InIattach, InIdetach, Arets, Drets
  <1>5. InodeInv(p)'
    BY <1>0 DEF GateInv, Gated, LocalInv, InodeInv, LocalOK, InIattach,
       InIdetach, Arets, Drets
  <1>6. /\ pc[p] # "icopydm" /\ fd'[p] = fd[p] /\ UNCHANGED <<core, dino, scur>>
        /\ Attached(p)' <=> Attached(p)
        /\ Attached(p) => ip'[p] = ip[p]
        /\ mlock' = mlock \/ mlock \in {p, Free}
        /\ list' = list \/ mlock = p
    BY <1>0 DEF Attached, GateInv, LocalInv, LocalOK, InIattach, InIdetach,
       Arets, Drets
  <1>7. /\ \A i \in Files : namer'[i] = namer[i] \/ namer[i] \in {p, Free}
        /\ \A i \in Files : names[i] > 0 => names'[i] > 0 \/ namer[i] = p
    BY <1>0 DEF SuperOK, GateInv, LocalInv
  <1> QED
    BY <1>1, <1>2, <1>3, <1>4, <1>5, <1>6, <1>7, MoveIInv

(***************************************************************************)
(* The inode is still there: one reference more.                           *)
(***************************************************************************)
LEMMA attachIInv ==
  ASSUME IInv, NEW p \in Procs, NEW s \in Slots, ip[p] = s, pc[p] = "ilock",
         gate[s] = Free, ino[s] = want[p],
         gate' = [gate EXCEPT ![s] = p], refc' = [refc EXCEPT ![s] = refc[s] + 1],
         Goto(p, aret[p]),
         UNCHANGED <<ino, flag, val, dino, super, dirs, locals, syncvars>>
  PROVE  IInv'
  <1>0. /\ CoreOK /\ SuperOK /\ LocalOK /\ OneSlot /\ BadInv /\ RefsCounted
        /\ GateInv(p) /\ LocalInv(p) /\ InodeInv(p)
    BY Types DEF IInv, OneSlot
  <1> USE IcacheAssumption
  <1> USE DEF Slots, Running, Goto, Yield, core, super, dirs, locals, syncvars
  <1>a. /\ s \in 1 .. NINODE /\ s # 0 /\ aret[p] \in Arets /\ want[p] \in Inos
        /\ s \in Slots
    BY <1>0 DEF LocalInv, InIattach, Inos, Files, BADFIN, Slots
  <1>b. ip' = ip /\ fd' = fd /\ pc'[p] = aret[p] /\ want' = want /\ ino' = ino
    BY <1>0 DEF LocalOK
  <1>1. OnlyLocals(p) /\ LocalOK'
    BY <1>0, <1>a, <1>b DEF OnlyLocals, LocalOK, Locs, Arets, Drets
  <1>2. SuperOK'
    BY <1>0, <1>a, <1>b DEF SuperOK
  <1>3. CoreOK'
    BY <1>0, <1>a, <1>b DEF CoreOK
  <1>4. BadInv'
    BY <1>0, <1>a, <1>b, BadKept DEF BadInv, CoreOK, LocalOK
  <1>5. RefsCounted'
    <2>1. ~Attached(p) /\ Attached(p)' /\ ip'[p] = s /\ fd' = fd
      BY <1>a, <1>b DEF Attached, Arets
    <2>2. refc \in [Slots -> Nat]
      BY <1>0 DEF CoreOK
    <2> QED
      BY <1>0, <1>a, <1>b, <1>1, <2>1, <2>2, OthersRefs, RefAttach
  <1>6. GateInv(p)'
    BY <1>0, <1>a, <1>b DEF GateInv, Gated, LocalInv, InodeInv, CoreOK,
       LocalOK,
       SuperOK, InIattach, InIdetach, Arets, Drets
  <1>7. LocalInv(p)'
    BY <1>0, <1>a, <1>b DEF LocalInv, LocalOK, InIattach, InIdetach, Arets,
       Drets
  <1>8. InodeInv(p)'
    BY <1>0, <1>a, <1>b DEF GateInv, Gated, LocalInv, InodeInv, CoreOK,
       LocalOK,
       InIattach, InIdetach, Arets, Drets
  <1>9. /\ scur' = scur /\ (mlock' = mlock \/ mlock \in {p, Free})
        /\ list' = list \/ mlock = p
        /\ \A t \in Slots : gate'[t] = gate[t] \/ gate[t] \in {p, Free}
        /\ \A t \in Slots : ino'[t] = ino[t] \/ (refc[t] = 0 /\ gate[t] = Free)
        /\ \A i \in Files : namer'[i] = namer[i] \/ namer[i] \in {p, Free}
        /\ \A i \in Files : names[i] > 0 => names'[i] > 0 \/ namer[i] = p
    BY <1>0, <1>a, <1>b DEF CoreOK, SuperOK, GateInv, Gated, LocalInv,
       InIattach, InIdetach, Arets, Drets
  <1>10. \A u, t \in Slots : u # t /\ ino'[u] # 0 => ino'[u] # ino'[t]
    BY <1>0, <1>a, <1>b DEF CoreOK, OneSlot
  <1> QED
    BY <1>1, <1>2, <1>3, <1>4, <1>5, <1>6, <1>7, <1>8, <1>9, <1>10, CoreIInv

(***************************************************************************)
(* The structure nobody refers to is given to the inode, which no other    *)
(* structure holds.                                                        *)
(***************************************************************************)
LEMMA installIInv ==
  ASSUME IInv, NEW p \in Procs, NEW s \in Slots, ip[p] = s, pc[p] = "victim",
         gate[s] = Free, refc[s] = 0,
         \A t \in Slots : ino[t] # want[p], Install(p),
         UNCHANGED <<val, dino, super, dirs, locals, syncvars>>
  PROVE  IInv'
  <1>0. /\ CoreOK /\ SuperOK /\ LocalOK /\ OneSlot /\ BadInv /\ RefsCounted
        /\ GateInv(p) /\ LocalInv(p) /\ InodeInv(p)
    BY Types DEF IInv, OneSlot
  <1> USE IcacheAssumption
  <1> USE DEF Install, Slots, Running, Goto, Yield, core, super, dirs, locals,
     syncvars
  <1>a. s \in 1 .. NINODE /\ s # 0 /\ want[p] \in Inos /\ s \in Slots
    BY <1>0 DEF LocalInv, InIattach, Inos, Files, BADFIN, Slots
  <1>b. /\ ip' = ip /\ fd' = fd /\ pc'[p] = "icopydm" /\ want' = want
        /\ refc' = [refc EXCEPT ![s] = refc[s] + 1]
    BY <1>0 DEF LocalOK, CoreOK
  <1>c. ino'[s] = want[p] /\ want[p] \in 0 .. NINO
    BY <1>0, <1>a DEF CoreOK, LocalOK
  <1>1. OnlyLocals(p) /\ LocalOK'
    BY <1>0, <1>a, <1>b, <1>c DEF OnlyLocals, LocalOK, Locs, Arets, Drets
  <1>2. SuperOK'
    BY <1>0, <1>a, <1>b, <1>c DEF SuperOK
  <1>3. CoreOK'
    BY <1>0, <1>b, <1>c DEF CoreOK
  <1>4. BadInv'
    BY <1>0 DEF BadInv, CoreOK, LocalOK, LocalInv
  <1>5. RefsCounted'
    <2>1. ~Attached(p) /\ Attached(p)' /\ ip'[p] = s /\ fd' = fd
      BY <1>a, <1>b DEF Attached
    <2>2. refc \in [Slots -> Nat]
      BY <1>0 DEF CoreOK
    <2> QED
      BY <1>0, <1>a, <1>b, <1>1, <2>1, <2>2, OthersRefs, RefAttach
  <1>6. GateInv(p)'
    BY <1>0, <1>a, <1>b, <1>c DEF GateInv, Gated, LocalInv, InodeInv, CoreOK,
       LocalOK, SuperOK, InIattach, InIdetach, Arets, Drets
  <1>7. LocalInv(p)'
    BY <1>0, <1>a, <1>b, <1>c DEF LocalInv, LocalOK, InIattach, InIdetach,
       Arets, Drets
  <1>8. InodeInv(p)'
    BY <1>0, <1>a, <1>b, <1>c DEF GateInv, Gated, LocalInv, InodeInv, CoreOK,
       LocalOK, InIattach, InIdetach, Arets, Drets
  <1>9. /\ scur' = scur /\ (mlock' = mlock \/ mlock \in {p, Free})
        /\ list' = list \/ mlock = p
        /\ \A t \in Slots : gate'[t] = gate[t] \/ gate[t] \in {p, Free}
        /\ \A t \in Slots : ino'[t] = ino[t] \/ (refc[t] = 0 /\ gate[t] = Free)
        /\ \A i \in Files : namer'[i] = namer[i] \/ namer[i] \in {p, Free}
        /\ \A i \in Files : names[i] > 0 => names'[i] > 0 \/ namer[i] = p
    BY <1>0, <1>a, <1>b, <1>c DEF CoreOK, SuperOK, GateInv, Gated, LocalInv,
       InIattach, InIdetach, Arets, Drets
  <1>10. \A u, t \in Slots : u # t /\ ino'[u] # 0 => ino'[u] # ino'[t]
    BY <1>0, <1>a, <1>b, <1>c DEF CoreOK, OneSlot
  <1> QED
    BY <1>1, <1>2, <1>3, <1>4, <1>5, <1>6, <1>7, <1>8, <1>9, <1>10, CoreIInv

(***************************************************************************)
(* icopydm has read the inode.                                             *)
(***************************************************************************)
LEMMA icopydmIInv ==
  ASSUME IInv, NEW p \in Procs, icopydm(p)
  PROVE  IInv'
  <1>0. /\ CoreOK /\ SuperOK /\ LocalOK /\ OneSlot /\ BadInv /\ RefsCounted
        /\ GateInv(p) /\ LocalInv(p) /\ InodeInv(p)
    BY Types DEF IInv, OneSlot
  <1> USE IcacheAssumption
  <1> USE DEF icopydm, Slots, Running, Goto, Yield, core, super, dirs, locals,
     syncvars
  <1>a. /\ ip[p] \in Slots /\ ino[ip[p]] = want[p] /\ want[p] \in Inos
        /\ pc[p] = "icopydm"
        /\ dino[want[p]] \in Values
    BY <1>0 DEF GateInv, Gated, InodeInv, CoreOK
  <1>1. OnlyLocals(p) /\ LocalOK'
    BY <1>0, <1>a DEF OnlyLocals, LocalOK, Locs, Arets, Drets
  <1>2. SuperOK'
    BY <1>0, <1>a DEF SuperOK
  <1>3. CoreOK'
    BY <1>0, <1>a DEF CoreOK
  <1>4. BadInv'
    BY <1>0, <1>a DEF BadInv, CoreOK, LocalOK
  <1>5. RefsCounted'
    BY <1>0, <1>a, RefSame DEF Attached, LocalOK, LocalInv, InIattach,
       InIdetach, Arets, Drets
  <1>6. GateInv(p)'
    BY <1>0, <1>a DEF GateInv, Gated, LocalInv, InodeInv, CoreOK, LocalOK,
       SuperOK, InIattach, InIdetach, Arets, Drets
  <1>7. LocalInv(p)'
    BY <1>0, <1>a DEF LocalInv, LocalOK, InIattach, InIdetach, Arets, Drets
  <1>8. InodeInv(p)'
    BY <1>0, <1>a DEF GateInv, Gated, LocalInv, InodeInv, CoreOK, LocalOK,
       InIattach, InIdetach, Arets, Drets
  <1>9. /\ scur' = scur /\ (mlock' = mlock \/ mlock \in {p, Free})
        /\ list' = list \/ mlock = p
        /\ \A s \in Slots : gate'[s] = gate[s] \/ gate[s] \in {p, Free}
        /\ \A s \in Slots : ino'[s] = ino[s] \/ (refc[s] = 0 /\ gate[s] = Free)
        /\ \A i \in Files : namer'[i] = namer[i] \/ namer[i] \in {p, Free}
        /\ \A i \in Files : names[i] > 0 => names'[i] > 0 \/ namer[i] = p
    BY <1>0, <1>a DEF CoreOK, SuperOK, GateInv, Gated, LocalInv, InIattach,
       InIdetach, Arets, Drets
  <1>10. \A s, t \in Slots : s # t /\ ino'[s] # 0 => ino'[s] # ino'[t]
    BY <1>0, <1>a DEF CoreOK, OneSlot
  <1> QED
    BY <1>1, <1>2, <1>3, <1>4, <1>5, <1>6, <1>7, <1>8, <1>9, <1>10, CoreIInv

-----------------------------------------------------------------------------
(* idetach.                                                                *)

(***************************************************************************)
(* The last user has to write the inode back, or to free it.               *)
(***************************************************************************)
LEMMA lastIInv ==
  ASSUME IInv, NEW p \in Procs, NEW s \in Slots, ip[p] = s, pc[p] = "idetach",
         refc' = [refc EXCEPT ![s] = refc[s] - 1],
         \/ val[s].nlink = 0 /\ ino[s] # BADFIN /\ Yield(p, "iclear")
         \/ Goto(p, "icopymd"),
         UNCHANGED <<ino, gate, flag, val, dino, super, dirs, locals, syncvars>>
  PROVE  IInv'
  <1>0. /\ CoreOK /\ SuperOK /\ LocalOK /\ OneSlot /\ BadInv /\ RefsCounted
        /\ GateInv(p) /\ LocalInv(p) /\ InodeInv(p)
    BY Types DEF IInv, OneSlot
  <1> USE IcacheAssumption
  <1> USE DEF Slots, Files, Running, Goto, Yield, core, super, dirs, locals,
     syncvars
  <1>s. s # 0
    BY DEF Slots
  <1>a. refc[s] >= 1
    BY <1>0, Referred, <1>s DEF Attached
  <1>b. /\ ip' = ip /\ fd' = fd /\ pc'[p] \in {"iclear", "icopymd"} /\ s # 0
        /\ core' = <<ino, refc', gate, flag, val>>
    BY <1>0, <1>s DEF LocalOK
  <1>c. \A q \in Procs : pc[q] = "icopydm" => pc'[q] = "icopydm" /\ ip'[q] = ip[q]
    BY <1>0 DEF LocalOK
  <1>1. OnlyLocals(p) /\ LocalOK'
    BY <1>0, <1>a, <1>b, <1>c DEF OnlyLocals, LocalOK, Locs, Arets, Drets
  <1>2. SuperOK'
    BY <1>0, <1>a, <1>b, <1>c DEF SuperOK
  <1>3. CoreOK'
    BY <1>0, <1>a, <1>b, <1>c DEF CoreOK
  <1>4. BadInv'
    BY <1>0, <1>b, <1>c, BadKept DEF BadInv
  <1>5. RefsCounted'
    <2>1. Attached(p) /\ ~Attached(p)' /\ ip[p] = s /\ fd' = fd
      BY <1>a, <1>b DEF Attached
    <2>2. refc \in [Slots -> Nat]
      BY <1>0 DEF CoreOK
    <2> QED
      BY <1>0, <1>a, <1>b, <1>1, <2>1, <2>2, OthersRefs, RefDetach
  <1>6. GateInv(p)'
    BY <1>0, <1>a, <1>b, <1>c DEF GateInv, Gated, LocalInv, InodeInv, CoreOK,
       LocalOK, SuperOK, InIattach, InIdetach, Arets, Drets
  <1>7. LocalInv(p)'
    BY <1>0, <1>a, <1>b, <1>c DEF LocalInv, LocalOK, InIattach, InIdetach,
       Arets, Drets
  <1>8. InodeInv(p)'
    BY <1>0, <1>a, <1>b, <1>c DEF GateInv, Gated, LocalInv, InodeInv, CoreOK,
       LocalOK, InIattach, InIdetach, Arets, Drets
  <1>9. /\ scur' = scur /\ (mlock' = mlock \/ mlock \in {p, Free})
        /\ list' = list \/ mlock = p
        /\ \A t \in Slots : gate'[t] = gate[t] \/ gate[t] \in {p, Free}
        /\ \A t \in Slots : ino'[t] = ino[t] \/ (refc[t] = 0 /\ gate[t] = Free)
        /\ \A i \in Files : namer'[i] = namer[i] \/ namer[i] \in {p, Free}
        /\ \A i \in Files : names[i] > 0 => names'[i] > 0 \/ namer[i] = p
    BY <1>0, <1>a, <1>b, <1>c DEF CoreOK, SuperOK, GateInv, Gated, LocalInv,
       InIattach, InIdetach, Arets, Drets
  <1>10. \A u, t \in Slots : u # t /\ ino'[u] # 0 => ino'[u] # ino'[t]
    BY <1>0, <1>a, <1>b, <1>c DEF CoreOK, OneSlot
  <1> QED
    BY <1>1, <1>2, <1>3, <1>4, <1>5, <1>6, <1>7, <1>8, <1>9, <1>10, CoreIInv

(***************************************************************************)
(* Another one, or nothing to write: the gate opens.                       *)
(***************************************************************************)
LEMMA detachIInv ==
  ASSUME IInv, NEW p \in Procs, NEW s \in Slots, ip[p] = s, pc[p] = "idetach",
         refc' = [refc EXCEPT ![s] = refc[s] - 1],
         gate' = [gate EXCEPT ![s] = Free], Goto(p, dret[p]),
         UNCHANGED <<ino, flag, val, dino, super, dirs, locals, syncvars>>
  PROVE  IInv'
  <1>0. /\ CoreOK /\ SuperOK /\ LocalOK /\ OneSlot /\ BadInv /\ RefsCounted
        /\ GateInv(p) /\ LocalInv(p) /\ InodeInv(p)
    BY Types DEF IInv, OneSlot
  <1> USE IcacheAssumption
  <1> USE DEF Slots, Running, Goto, Yield, core, super, dirs, locals, syncvars
  <1>s. s # 0
    BY DEF Slots
  <1>a. refc[s] >= 1
    BY <1>0, Referred, <1>s DEF Attached
  <1>b. ip' = ip /\ fd' = fd /\ pc'[p] \in Drets /\ s # 0
    BY <1>0, <1>s DEF LocalOK, LocalInv, InIdetach
  <1>1. OnlyLocals(p) /\ LocalOK'
    BY <1>0, <1>a, <1>b DEF OnlyLocals, LocalOK, Locs, Arets, Drets
  <1>2. SuperOK'
    BY <1>0, <1>a, <1>b DEF SuperOK
  <1>3. CoreOK'
    BY <1>0, <1>a, <1>b DEF CoreOK
  <1>4. BadInv'
    BY <1>0, <1>a, <1>b, BadKept DEF BadInv, CoreOK, LocalOK
  <1>5. RefsCounted'
    <2>1. Attached(p) /\ ~Attached(p)' /\ ip[p] = s /\ fd' = fd
      BY <1>a, <1>b DEF Attached, Drets
    <2>2. refc \in [Slots -> Nat]
      BY <1>0 DEF CoreOK
    <2> QED
      BY <1>0, <1>a, <1>b, <1>1, <2>1, <2>2, OthersRefs, RefDetach
  <1>6. GateInv(p)'
    BY <1>0, <1>a, <1>b DEF GateInv, Gated, LocalInv, InodeInv, CoreOK,
       LocalOK,
       SuperOK, InIattach, InIdetach, Arets, Drets
  <1>7. LocalInv(p)'
    BY <1>0, <1>a, <1>b DEF LocalInv, LocalOK, InIattach, InIdetach, Arets,
       Drets
  <1>8. InodeInv(p)'
    BY <1>0, <1>a, <1>b DEF GateInv, Gated, LocalInv, InodeInv, CoreOK,
       LocalOK,
       InIattach, InIdetach, Arets, Drets
  <1>9. /\ scur' = scur /\ (mlock' = mlock \/ mlock \in {p, Free})
        /\ list' = list \/ mlock = p
        /\ \A t \in Slots : gate'[t] = gate[t] \/ gate[t] \in {p, Free}
        /\ \A t \in Slots : ino'[t] = ino[t] \/ (refc[t] = 0 /\ gate[t] = Free)
        /\ \A i \in Files : namer'[i] = namer[i] \/ namer[i] \in {p, Free}
        /\ \A i \in Files : names[i] > 0 => names'[i] > 0 \/ namer[i] = p
    BY <1>0, <1>a, <1>b DEF CoreOK, SuperOK, GateInv, Gated, LocalInv,
       InIattach, InIdetach, Arets, Drets
  <1>10. \A u, t \in Slots : u # t /\ ino'[u] # 0 => ino'[u] # ino'[t]
    BY <1>0, <1>a, <1>b DEF CoreOK, OneSlot
  <1> QED
    BY <1>1, <1>2, <1>3, <1>4, <1>5, <1>6, <1>7, <1>8, <1>9, <1>10, CoreIInv

(***************************************************************************)
(* icopymd of an inode with no links, ifree and the write of the dinode.   *)
(***************************************************************************)
LEMMA iclearIInv ==
  ASSUME IInv, NEW p \in Procs, iclear(p)
  PROVE  IInv'
  <1>0. /\ CoreOK /\ SuperOK /\ LocalOK /\ OneSlot /\ BadInv /\ RefsCounted
        /\ GateInv(p) /\ LocalInv(p) /\ InodeInv(p)
    BY Types DEF IInv, OneSlot
  <1> USE IcacheAssumption
  <1> USE DEF iclear, Running, Goto, Yield, core, super, dirs, locals, syncvars
  <1>a. pc[p] = "iclear" /\ ip[p] \in Slots /\ ip[p] # 0 /\ ino[ip[p]] \in Files
    BY <1>0 DEF GateInv, Gated, InodeInv, InIdetach, Slots
  <1>b. val[ip[p]] \in Values
    BY <1>0, <1>a DEF CoreOK
  <1>c. [val[ip[p]] EXCEPT !.mode = FALSE] \in Values
    BY <1>b DEF Values
  <1>d. /\ pc'[p] = "ifree" /\ ip' = ip /\ dret' = dret /\ op' = op /\ fd' = fd
        /\ want' = want
    BY <1>0 DEF LocalOK
  <1>1. OnlyLocals(p) /\ LocalOK'
    BY <1>0, <1>a, <1>c DEF OnlyLocals, LocalOK, Locs, Arets, Drets
  <1>2. SuperOK'
    BY <1>0, <1>a, <1>c DEF SuperOK
  <1>3. CoreOK'
    BY <1>0, <1>a, <1>c DEF CoreOK
  <1>4. BadInv'
    BY <1>0, <1>a, BadKept DEF BadInv, CoreOK, LocalOK, Files
  <1>5. RefsCounted'
    BY <1>0, <1>a, <1>c, RefSame DEF Attached, LocalOK
  <1>6. GateInv(p)'
    BY <1>0, <1>a, <1>c DEF GateInv, Gated, LocalInv, InodeInv, CoreOK,
       LocalOK,
       SuperOK, InIattach, InIdetach, Arets, Drets
  <1>7. LocalInv(p)'
    BY <1>0, <1>a, <1>d DEF LocalInv, InIattach, InIdetach, Arets, Drets
  <1>8. InodeInv(p)'
    BY <1>0, <1>a, <1>c DEF GateInv, Gated, LocalInv, InodeInv, CoreOK,
       LocalOK,
       InIattach, InIdetach, Arets, Drets
  <1>9. /\ scur' = scur /\ (mlock' = mlock \/ mlock \in {p, Free})
        /\ list' = list \/ mlock = p
        /\ \A s \in Slots : gate'[s] = gate[s] \/ gate[s] \in {p, Free}
        /\ \A s \in Slots : ino'[s] = ino[s] \/ (refc[s] = 0 /\ gate[s] = Free)
        /\ \A i \in Files : namer'[i] = namer[i] \/ namer[i] \in {p, Free}
        /\ \A i \in Files : names[i] > 0 => names'[i] > 0 \/ namer[i] = p
    BY <1>0, <1>a, <1>c DEF CoreOK, SuperOK, GateInv, Gated, LocalInv,
       InIattach, InIdetach, Arets, Drets
  <1>10. \A s, t \in Slots : s # t /\ ino'[s] # 0 => ino'[s] # ino'[t]
    BY <1>0, <1>a, <1>c DEF CoreOK, OneSlot
  <1> QED
    BY <1>1, <1>2, <1>3, <1>4, <1>5, <1>6, <1>7, <1>8, <1>9, <1>10, CoreIInv

LEMMA ifreeIInv ==
  ASSUME IInv, NEW p \in Procs, ifree(p)
  PROVE  IInv'
  <1>0. /\ CoreOK /\ SuperOK /\ LocalOK /\ OneSlot /\ BadInv /\ RefsCounted
        /\ GateInv(p) /\ LocalInv(p) /\ InodeInv(p)
    BY Types DEF IInv, OneSlot
  <1> USE IcacheAssumption
  <1> USE DEF ifree, Running, Goto, Yield, core, super, dirs, locals, syncvars
  <1>1. OnlyLocals(p) /\ LocalOK'
    BY <1>0 DEF OnlyLocals, LocalOK, Locs, Arets, Drets
  <1>2. SuperOK'
    BY <1>0 DEF SuperOK
  <1>3. GateInv(p)'
    BY <1>0 DEF GateInv, Gated, LocalInv, InodeInv, LocalOK, SuperOK,
       InIattach,
       InIdetach, Arets, Drets
  <1>4. LocalInv(p)'
    BY <1>0 DEF LocalInv, LocalOK, InIattach, InIdetach, Arets, Drets
  <1>5. InodeInv(p)'
    BY <1>0 DEF GateInv, Gated, LocalInv, InodeInv, LocalOK, InIattach,
       InIdetach, Arets, Drets
  <1>6. /\ pc[p] # "icopydm" /\ fd'[p] = fd[p] /\ UNCHANGED <<core, dino, scur>>
        /\ Attached(p)' <=> Attached(p)
        /\ Attached(p) => ip'[p] = ip[p]
        /\ mlock' = mlock \/ mlock \in {p, Free}
        /\ list' = list \/ mlock = p
    BY <1>0 DEF Attached, GateInv, LocalInv, LocalOK, InIattach, InIdetach,
       Arets, Drets
  <1>7. /\ \A i \in Files : namer'[i] = namer[i] \/ namer[i] \in {p, Free}
        /\ \A i \in Files : names[i] > 0 => names'[i] > 0 \/ namer[i] = p
    BY <1>0 DEF SuperOK, GateInv, LocalInv
  <1> QED
    BY <1>1, <1>2, <1>3, <1>4, <1>5, <1>6, <1>7, MoveIInv

LEMMA ifreedIInv ==
  ASSUME IInv, NEW p \in Procs, ifreed(p)
  PROVE  IInv'
  <1>0. /\ CoreOK /\ SuperOK /\ LocalOK /\ OneSlot /\ BadInv /\ RefsCounted
        /\ GateInv(p) /\ LocalInv(p) /\ InodeInv(p)
    BY Types DEF IInv, OneSlot
  <1> USE IcacheAssumption
  <1> USE DEF ifreed, Running, Goto, Yield, core, super, dirs, locals, syncvars
  <1>a. pc[p] = "ifreed" /\ (IF ip[p] = 0 THEN want[p] ELSE ino[ip[p]]) \in Files
    BY <1>0 DEF LocalInv, InodeInv
  <1>1. OnlyLocals(p) /\ LocalOK'
    BY <1>0, <1>a, ZenonT(60) DEF OnlyLocals, LocalOK, Locs, Arets, Drets
  <1>2. SuperOK'
    BY <1>0, <1>a DEF SuperOK
  <1>3. GateInv(p)'
    BY <1>0, <1>a DEF GateInv, Gated, LocalInv, InodeInv, LocalOK, SuperOK,
       InIattach, InIdetach, Arets, Drets
  <1>4. LocalInv(p)'
    BY <1>0, <1>a DEF LocalInv, LocalOK, InIattach, InIdetach, Arets, Drets
  <1>5. InodeInv(p)'
    BY <1>0, <1>a DEF GateInv, Gated, LocalInv, InodeInv, LocalOK, InIattach,
       InIdetach, Arets, Drets
  <1>6. /\ pc[p] # "icopydm" /\ fd'[p] = fd[p] /\ UNCHANGED <<core, dino, scur>>
        /\ Attached(p)' <=> Attached(p)
        /\ Attached(p) => ip'[p] = ip[p]
        /\ mlock' = mlock \/ mlock \in {p, Free}
        /\ list' = list \/ mlock = p
    BY <1>0, <1>a DEF Attached, GateInv, LocalInv, LocalOK, InIattach,
       InIdetach, Arets, Drets
  <1>7. /\ \A i \in Files : namer'[i] = namer[i] \/ namer[i] \in {p, Free}
        /\ \A i \in Files : names[i] > 0 => names'[i] > 0 \/ namer[i] = p
    BY <1>0, <1>a DEF SuperOK, GateInv, LocalInv
  <1> QED
    BY <1>1, <1>2, <1>3, <1>4, <1>5, <1>6, <1>7, MoveIInv

LEMMA icopymdIInv ==
  ASSUME IInv, NEW p \in Procs, icopymd(p)
  PROVE  IInv'
  <1>0. /\ CoreOK /\ SuperOK /\ LocalOK /\ OneSlot /\ BadInv /\ RefsCounted
        /\ GateInv(p) /\ LocalInv(p) /\ InodeInv(p)
    BY Types DEF IInv, OneSlot
  <1> USE IcacheAssumption
  <1> USE DEF icopymd, Running, Goto, Yield, core, super, dirs, locals,
     syncvars
  <1>1. OnlyLocals(p) /\ LocalOK'
    BY <1>0 DEF OnlyLocals, LocalOK, Locs, Arets, Drets
  <1>2. SuperOK'
    BY <1>0 DEF SuperOK
  <1>3. GateInv(p)'
    BY <1>0 DEF GateInv, Gated, LocalInv, InodeInv, LocalOK, SuperOK,
       InIattach,
       InIdetach, Arets, Drets
  <1>4. LocalInv(p)'
    BY <1>0 DEF LocalInv, LocalOK, InIattach, InIdetach, Arets, Drets
  <1>5. InodeInv(p)'
    BY <1>0 DEF GateInv, Gated, LocalInv, InodeInv, LocalOK, InIattach,
       InIdetach, Arets, Drets
  <1>6. /\ pc[p] # "icopydm" /\ fd'[p] = fd[p] /\ UNCHANGED <<core, dino, scur>>
        /\ Attached(p)' <=> Attached(p)
        /\ Attached(p) => ip'[p] = ip[p]
        /\ mlock' = mlock \/ mlock \in {p, Free}
        /\ list' = list \/ mlock = p
    BY <1>0 DEF Attached, GateInv, LocalInv, LocalOK, InIattach, InIdetach,
       Arets, Drets
  <1>7. /\ \A i \in Files : namer'[i] = namer[i] \/ namer[i] \in {p, Free}
        /\ \A i \in Files : names[i] > 0 => names'[i] > 0 \/ namer[i] = p
    BY <1>0 DEF SuperOK, GateInv, LocalInv
  <1> QED
    BY <1>1, <1>2, <1>3, <1>4, <1>5, <1>6, <1>7, MoveIInv

LEMMA idoneIInv ==
  ASSUME IInv, NEW p \in Procs, idone(p)
  PROVE  IInv'
  <1>0. /\ CoreOK /\ SuperOK /\ LocalOK /\ OneSlot /\ BadInv /\ RefsCounted
        /\ GateInv(p) /\ LocalInv(p) /\ InodeInv(p)
    BY Types DEF IInv, OneSlot
  <1> USE IcacheAssumption
  <1> USE DEF idone, Running, Goto, Yield, core, super, dirs, locals, syncvars
  <1>a. pc[p] = "idone" /\ ip[p] \in Slots /\ ino[ip[p]] \in Inos /\ gate[ip[p]] = p
    BY <1>0 DEF GateInv, Gated, InodeInv, InIdetach
  <1>b. \A q \in Procs : pc[q] = "icopydm" => ip[q] # ip[p]
    BY <1>a DEF IInv, GateInv, Gated
  <1>1. OnlyLocals(p) /\ LocalOK'
    BY <1>0, <1>a DEF OnlyLocals, LocalOK, Locs, Arets, Drets
  <1>2. SuperOK'
    BY <1>0, <1>a DEF SuperOK
  <1>3. CoreOK'
    BY <1>0, <1>a DEF CoreOK
  <1>4. BadInv'
    BY <1>0, <1>a, <1>b, BadKept DEF BadInv, CoreOK, LocalOK
  <1>5. RefsCounted'
    <2>1. ip' = ip /\ fd' = fd /\ refc' = refc
      OBVIOUS
    <2>2. pc'[p] \in Drets
      BY <1>0, <1>a DEF LocalInv, LocalOK, InIdetach
    <2>3. ~Attached(p) /\ ~Attached(p)'
      BY <1>a, <2>2 DEF Attached, Drets
    <2> QED
      BY <1>0, <1>1, <2>1, <2>3, OthersRefs, RefSame
  <1>6. GateInv(p)'
    BY <1>0, <1>a DEF GateInv, Gated, LocalInv, InodeInv, CoreOK, LocalOK,
       SuperOK, InIattach, InIdetach, Arets, Drets
  <1>7. LocalInv(p)'
    BY <1>0, <1>a DEF LocalInv, LocalOK, InIattach, InIdetach, Arets, Drets
  <1>8. InodeInv(p)'
    BY <1>0, <1>a DEF GateInv, Gated, LocalInv, InodeInv, CoreOK, LocalOK,
       InIattach, InIdetach, Arets, Drets
  <1>9. /\ scur' = scur /\ (mlock' = mlock \/ mlock \in {p, Free})
        /\ list' = list \/ mlock = p
        /\ \A s \in Slots : gate'[s] = gate[s] \/ gate[s] \in {p, Free}
        /\ \A s \in Slots : ino'[s] = ino[s] \/ (refc[s] = 0 /\ gate[s] = Free)
        /\ \A i \in Files : namer'[i] = namer[i] \/ namer[i] \in {p, Free}
        /\ \A i \in Files : names[i] > 0 => names'[i] > 0 \/ namer[i] = p
    BY <1>0, <1>a DEF CoreOK, SuperOK, GateInv, Gated, LocalInv, InIattach,
       InIdetach, Arets, Drets
  <1>10. \A s, t \in Slots : s # t /\ ino'[s] # 0 => ino'[s] # ino'[t]
    BY <1>0, <1>a DEF CoreOK, OneSlot
  <1> QED
    BY <1>1, <1>2, <1>3, <1>4, <1>5, <1>6, <1>7, <1>8, <1>9, <1>10, CoreIInv

-----------------------------------------------------------------------------
(* The steps of iattach and idetach.                                       *)

LEMMA AttachIInv ==
  ASSUME IInv, NEW p \in Procs, Attach(p)
  PROVE  IInv'
  <1>0. LocalInv(p) /\ GateInv(p) /\ TypeOK /\ TypeInv
    BY DEF IInv, OneSlot
  <1>1. CASE iattach(p)
    <2>1. pc[p] = "iattach"
      BY <1>1 DEF iattach, Running
    <2>2. PICK z \in Slots : TRUE
      BY IcacheAssumption DEF Slots
    <2>3. CASE \E s \in Slots : /\ ip' = [ip EXCEPT ![p] = s]
                                /\ Goto(p, "ilock") \/ Goto(p, "victim")
      BY <1>1, <2>1, <2>3, searchIInv DEF iattach
    <2>4. CASE ip' = [ip EXCEPT ![p] = 0] /\ Goto(p, aret[p])
      BY <1>1, <2>1, <2>2, <2>4, searchIInv DEF iattach
    <2> QED
      BY <1>1, <2>3, <2>4 DEF iattach
  <1>2. CASE ilock(p)
    <2>1. pc[p] = "ilock" /\ ip[p] \in Slots /\ gate[ip[p]] = Free
      BY <1>0, <1>2 DEF ilock, Running, LocalInv
    <2>2. CASE ino[ip[p]] # want[p]
      BY <1>2, <2>1, <2>2, againIInv DEF ilock, core
    <2>3. CASE ino[ip[p]] = want[p]
      BY <1>2, <2>1, <2>3, attachIInv DEF ilock
    <2> QED
      BY <2>2, <2>3
  <1>3. CASE victim(p)
    <2>1. pc[p] = "victim" /\ ip[p] \in Slots /\ gate[ip[p]] = Free
      BY <1>0, <1>3 DEF victim, Running, LocalInv
    <2>2. CASE refc[ip[p]] # 0 \/ \E s \in Slots : ino[s] = want[p]
      BY <1>3, <2>1, <2>2, againIInv DEF victim, core
    <2>3. CASE ~(refc[ip[p]] # 0 \/ \E s \in Slots : ino[s] = want[p])
      BY <1>3, <2>1, <2>3, installIInv DEF victim
    <2> QED
      BY <2>2, <2>3
  <1> QED
    BY <1>1, <1>2, <1>3, icopydmIInv DEF Attach

LEMMA DetachIInv ==
  ASSUME IInv, NEW p \in Procs, Detach(p)
  PROVE  IInv'
  <1>1. CASE idetach(p)
    <2>1. pc[p] = "idetach" /\ ip[p] \in Slots
      BY <1>1 DEF idetach, Running, IInv, GateInv, Gated, InIdetach
    <2>2. CASE refc[ip[p]] = 1 /\ (flag[ip[p]] \/ val[ip[p]].nlink = 0)
      BY <1>1, <2>1, <2>2, lastIInv DEF idetach
    <2>3. CASE ~(refc[ip[p]] = 1 /\ (flag[ip[p]] \/ val[ip[p]].nlink = 0))
      BY <1>1, <2>1, <2>3, detachIInv DEF idetach
    <2> QED
      BY <2>2, <2>3
  <1> QED
    BY <1>1, iclearIInv, ifreeIInv, ifreedIInv, icopymdIInv, idoneIInv
       DEF Detach

-----------------------------------------------------------------------------
(* ialloc.                                                                 *)

LEMMA iallocIInv ==
  ASSUME IInv, NEW p \in Procs, ialloc(p)
  PROVE  IInv'
  <1>0. /\ CoreOK /\ SuperOK /\ LocalOK /\ OneSlot /\ BadInv /\ RefsCounted
        /\ GateInv(p) /\ LocalInv(p) /\ InodeInv(p)
    BY Types DEF IInv, OneSlot
  <1> USE IcacheAssumption
  <1> USE DEF ialloc, Running, Goto, Yield, core, super, dirs, locals, syncvars
  <1>1. OnlyLocals(p) /\ LocalOK'
    BY <1>0 DEF OnlyLocals, LocalOK, Locs, Arets, Drets
  <1>2. SuperOK'
    BY <1>0 DEF SuperOK
  <1>3. GateInv(p)'
    BY <1>0 DEF GateInv, Gated, LocalInv, InodeInv, LocalOK, SuperOK,
       InIattach,
       InIdetach, Arets, Drets
  <1>4. LocalInv(p)'
    BY <1>0 DEF LocalInv, LocalOK, InIattach, InIdetach, Arets, Drets
  <1>5. InodeInv(p)'
    BY <1>0 DEF GateInv, Gated, LocalInv, InodeInv, LocalOK, InIattach,
       InIdetach, Arets, Drets
  <1>6. /\ pc[p] # "icopydm" /\ fd'[p] = fd[p] /\ UNCHANGED <<core, dino, scur>>
        /\ Attached(p)' <=> Attached(p)
        /\ Attached(p) => ip'[p] = ip[p]
        /\ mlock' = mlock \/ mlock \in {p, Free}
        /\ list' = list \/ mlock = p
    BY <1>0 DEF Attached, GateInv, LocalInv, LocalOK, InIattach, InIdetach,
       Arets, Drets
  <1>7. /\ \A i \in Files : namer'[i] = namer[i] \/ namer[i] \in {p, Free}
        /\ \A i \in Files : names[i] > 0 => names'[i] > 0 \/ namer[i] = p
    BY <1>0 DEF SuperOK, GateInv, LocalInv
  <1> QED
    BY <1>1, <1>2, <1>3, <1>4, <1>5, <1>6, <1>7, MoveIInv

LEMMA haveIInv ==
  ASSUME IInv, NEW p \in Procs, have(p)
  PROVE  IInv'
  <1>0. /\ CoreOK /\ SuperOK /\ LocalOK /\ OneSlot /\ BadInv /\ RefsCounted
        /\ GateInv(p) /\ LocalInv(p) /\ InodeInv(p)
    BY Types DEF IInv, OneSlot
  <1> USE IcacheAssumption
  <1> USE DEF have, CallIattach, Running, Goto, Yield, core, super, dirs,
     locals,
     syncvars
  <1>a. pc[p] = "have" /\ BADFIN \in 0 .. NINO /\ mlock = p
    BY <1>0 DEF BADFIN, GateInv
  <1>1. OnlyLocals(p) /\ LocalOK'
    <2>1. CASE list # <<>>
      BY <1>0, <1>a, <2>1 DEF OnlyLocals, LocalOK, Locs, Arets, Drets
    <2>2. CASE list = <<>>
      <3>1. /\ pc' = [pc EXCEPT ![p] = "iattach"]
            /\ aret' = [aret EXCEPT ![p] = "bad"]
            /\ want' = [want EXCEPT ![p] = BADFIN] /\ cpu' = p
            /\ UNCHANGED <<op, ip, dret, fd>>
        BY <2>2
      <3>2. OnlyLocals(p)
        BY <1>0, <3>1 DEF OnlyLocals, LocalOK
      <3>3. LocalOK'
        BY <1>0, <1>a, <3>1 DEF LocalOK, Locs, Arets
      <3> QED
        BY <3>2, <3>3
    <2> QED
      BY <2>1, <2>2
  <1>2. SuperOK'
    BY <1>0, <1>a DEF SuperOK
  <1>3. GateInv(p)'
    <2>1. CASE list # <<>>
      BY <1>0, <1>a, <2>1 DEF GateInv, Gated, LocalOK, InIattach, InIdetach
    <2>2. CASE list = <<>>
      <3>1. pc'[p] = "iattach" /\ aret'[p] = "bad"
        BY <1>0, <2>2 DEF LocalOK
      <3> QED
        BY <3>1 DEF GateInv, Gated, InIattach, InIdetach
    <2> QED
      BY <2>1, <2>2
  <1>4. LocalInv(p)'
    BY <1>0, <1>a DEF LocalInv, LocalOK, InIattach, InIdetach, Arets, Drets
  <1>5. InodeInv(p)'
    BY <1>0, <1>a DEF GateInv, Gated, LocalInv, InodeInv, LocalOK, InIattach,
       InIdetach, Arets, Drets
  <1>6. /\ pc[p] # "icopydm" /\ fd'[p] = fd[p] /\ UNCHANGED <<core, dino, scur>>
        /\ Attached(p)' <=> Attached(p)
        /\ Attached(p) => ip'[p] = ip[p]
        /\ mlock' = mlock \/ mlock \in {p, Free}
        /\ list' = list \/ mlock = p
    BY <1>0, <1>a DEF Attached, GateInv, LocalInv, LocalOK, InIattach,
       InIdetach, Arets, Drets
  <1>7. /\ \A i \in Files : namer'[i] = namer[i] \/ namer[i] \in {p, Free}
        /\ \A i \in Files : names[i] > 0 => names'[i] > 0 \/ namer[i] = p
    BY <1>0, <1>a DEF SuperOK, GateInv, LocalInv
  <1> QED
    BY <1>1, <1>2, <1>3, <1>4, <1>5, <1>6, <1>7, MoveIInv

LEMMA badIInv ==
  ASSUME IInv, NEW p \in Procs, bad(p)
  PROVE  IInv'
  <1>0. /\ CoreOK /\ SuperOK /\ LocalOK /\ OneSlot /\ BadInv /\ RefsCounted
        /\ GateInv(p) /\ LocalInv(p) /\ InodeInv(p)
    BY Types DEF IInv, OneSlot
  <1> USE IcacheAssumption
  <1> USE DEF bad, CallIdetach, Running, Goto, Yield, core, super, dirs,
     locals,
     syncvars
  <1>1. OnlyLocals(p) /\ LocalOK'
    BY <1>0 DEF OnlyLocals, LocalOK, Locs, Arets, Drets
  <1>2. SuperOK'
    BY <1>0 DEF SuperOK
  <1>3. GateInv(p)'
    BY <1>0 DEF GateInv, Gated, LocalInv, InodeInv, LocalOK, SuperOK,
       InIattach,
       InIdetach, Arets, Drets
  <1>4. LocalInv(p)'
    BY <1>0 DEF LocalInv, LocalOK, InIattach, InIdetach, Arets, Drets
  <1>5. InodeInv(p)'
    BY <1>0 DEF GateInv, Gated, LocalInv, InodeInv, LocalOK, InIattach,
       InIdetach, Arets, Drets
  <1>6. /\ pc[p] # "icopydm" /\ fd'[p] = fd[p] /\ UNCHANGED <<core, dino, scur>>
        /\ Attached(p)' <=> Attached(p)
        /\ Attached(p) => ip'[p] = ip[p]
        /\ mlock' = mlock \/ mlock \in {p, Free}
        /\ list' = list \/ mlock = p
    BY <1>0 DEF Attached, GateInv, LocalInv, LocalOK, InIattach, InIdetach,
       Arets, Drets
  <1>7. /\ \A i \in Files : namer'[i] = namer[i] \/ namer[i] \in {p, Free}
        /\ \A i \in Files : names[i] > 0 => names'[i] > 0 \/ namer[i] = p
    BY <1>0 DEF SuperOK, GateInv, LocalInv
  <1> QED
    BY <1>1, <1>2, <1>3, <1>4, <1>5, <1>6, <1>7, MoveIInv

LEMMA relockIInv ==
  ASSUME IInv, NEW p \in Procs, relock(p)
  PROVE  IInv'
  <1>0. /\ CoreOK /\ SuperOK /\ LocalOK /\ OneSlot /\ BadInv /\ RefsCounted
        /\ GateInv(p) /\ LocalInv(p) /\ InodeInv(p)
    BY Types DEF IInv, OneSlot
  <1> USE IcacheAssumption
  <1> USE DEF relock, Running, Goto, Yield, core, super, dirs, locals, syncvars
  <1>1. OnlyLocals(p) /\ LocalOK'
    BY <1>0, ZenonT(60) DEF OnlyLocals, LocalOK, Locs, Arets, Drets
  <1>2. SuperOK'
    BY <1>0 DEF SuperOK
  <1>3. GateInv(p)'
    BY <1>0 DEF GateInv, Gated, LocalInv, InodeInv, LocalOK, SuperOK,
       InIattach,
       InIdetach, Arets, Drets
  <1>4. LocalInv(p)'
    BY <1>0 DEF LocalInv, LocalOK, InIattach, InIdetach, Arets, Drets
  <1>5. InodeInv(p)'
    BY <1>0 DEF GateInv, Gated, LocalInv, InodeInv, LocalOK, InIattach,
       InIdetach, Arets, Drets
  <1>6. /\ pc[p] # "icopydm" /\ fd'[p] = fd[p] /\ UNCHANGED <<core, dino, scur>>
        /\ Attached(p)' <=> Attached(p)
        /\ Attached(p) => ip'[p] = ip[p]
        /\ mlock' = mlock \/ mlock \in {p, Free}
        /\ list' = list \/ mlock = p
    BY <1>0 DEF Attached, GateInv, LocalInv, LocalOK, InIattach, InIdetach,
       Arets, Drets
  <1>7. /\ \A i \in Files : namer'[i] = namer[i] \/ namer[i] \in {p, Free}
        /\ \A i \in Files : names[i] > 0 => names'[i] > 0 \/ namer[i] = p
    BY <1>0 DEF SuperOK, GateInv, LocalInv
  <1> QED
    BY <1>1, <1>2, <1>3, <1>4, <1>5, <1>6, <1>7, MoveIInv

(***************************************************************************)
(* The new list has no more inodes than fit, and the bad block file is not *)
(* among them.                                                             *)
(***************************************************************************)
LEMMA scanIInv ==
  ASSUME IInv, NEW p \in Procs, scan(p)
  PROVE  IInv'
  <1>0. /\ CoreOK /\ SuperOK /\ LocalOK /\ OneSlot /\ BadInv /\ RefsCounted
        /\ GateInv(p) /\ LocalInv(p) /\ InodeInv(p)
    BY Types DEF IInv, OneSlot
  <1> USE IcacheAssumption
  <1> USE DEF scan, Running, Goto, Yield, core, super, dirs, locals, syncvars
  <1> DEFINE idle == {i \in Inos : ~dino[i].mode}
  <1>a. idle \subseteq Files
    BY <1>0 DEF BadInv, BadInode, Inode, Files
  <1>b. IsFiniteSet(idle) /\ Cardinality(idle) \in Nat
    <2>1. IsFiniteSet(Inos)
      BY FS_Interval DEF Inos
    <2> QED
      BY <2>1, FS_Subset, FS_CardinalityType
  <1> DEFINE n == IF Cardinality(idle) < NICINOD THEN Cardinality(idle) ELSE NICINOD
  <1>c. n \in Nat /\ n <= NICINOD /\ (idle # {} => n # 0)
    BY <1>b, FS_EmptySet
  <1>d. /\ list' \in [1 .. n -> idle]
        /\ IF idle = {} THEN mlock' = Free /\ Goto(p, "failed")
           ELSE UNCHANGED mlock /\ Goto(p, "take")
    BY DEF scan
  <1>e. list' \in Seq(Files) /\ Len(list') = n
    <2>1. \A m \in Nat : \A f \in [1 .. m -> Files] : f \in Seq(Files) /\ Len(f) = m
      OBVIOUS
    <2>2. list' \in [1 .. n -> Files]
      BY <1>a, <1>d
    <2> QED
      BY <1>c, <2>1, <2>2
  <1>f. idle # {} => list' # <<>>
    BY <1>c, <1>e
  <1>g. pc[p] = "scan" /\ mlock = p
    BY <1>0 DEF scan, GateInv
  <1> HIDE DEF n, idle
  <1>1. OnlyLocals(p) /\ LocalOK'
    BY <1>0, <1>c, <1>d, <1>e, <1>f, <1>g, ZenonT(60) DEF OnlyLocals, LocalOK,
       Locs, Arets,
       Drets
  <1>2. SuperOK'
    BY <1>0, <1>c, <1>d, <1>e, <1>f, <1>g DEF SuperOK
  <1>3. GateInv(p)'
    BY <1>0, <1>c, <1>d, <1>e, <1>f, <1>g DEF GateInv, Gated, LocalInv,
       InodeInv, LocalOK, SuperOK, InIattach, InIdetach, Arets, Drets
  <1>4. LocalInv(p)'
    BY <1>0, <1>c, <1>d, <1>e, <1>f, <1>g DEF LocalInv, LocalOK, InIattach,
       InIdetach, Arets, Drets
  <1>5. InodeInv(p)'
    BY <1>0, <1>c, <1>d, <1>e, <1>f, <1>g DEF GateInv, Gated, LocalInv,
       InodeInv, LocalOK, InIattach, InIdetach, Arets, Drets
  <1>6. /\ pc[p] # "icopydm" /\ fd'[p] = fd[p] /\ UNCHANGED <<core, dino, scur>>
        /\ Attached(p)' <=> Attached(p)
        /\ Attached(p) => ip'[p] = ip[p]
        /\ mlock' = mlock \/ mlock \in {p, Free}
        /\ list' = list \/ mlock = p
    BY <1>0, <1>c, <1>d, <1>e, <1>f, <1>g DEF Attached, GateInv, LocalInv,
       LocalOK, InIattach, InIdetach, Arets, Drets
  <1>7. /\ \A i \in Files : namer'[i] = namer[i] \/ namer[i] \in {p, Free}
        /\ \A i \in Files : names[i] > 0 => names'[i] > 0 \/ namer[i] = p
    BY <1>0, <1>c, <1>d, <1>e, <1>f, <1>g DEF SuperOK, GateInv, LocalInv
  <1> QED
    BY <1>1, <1>2, <1>3, <1>4, <1>5, <1>6, <1>7, MoveIInv

LEMMA takeIInv ==
  ASSUME IInv, NEW p \in Procs, take(p)
  PROVE  IInv'
  <1>0. /\ CoreOK /\ SuperOK /\ LocalOK /\ OneSlot /\ BadInv /\ RefsCounted
        /\ GateInv(p) /\ LocalInv(p) /\ InodeInv(p)
    BY Types DEF IInv, OneSlot
  <1> USE IcacheAssumption
  <1> USE DEF take, Running, Goto, Yield, core, super, dirs, locals, syncvars
  <1>a. pc[p] = "take" /\ mlock = p /\ list \in Seq(Files) /\ list # <<>>
    BY <1>0 DEF GateInv, SuperOK
  <1>b. /\ Last(list) \in Files /\ Front(list) \in Seq(Files)
        /\ Len(Front(list)) <= Len(list)
    BY <1>a DEF Last, Front
  <1>c. Files \subseteq 0 .. NINO
    BY DEF Files, Inos
  <1>d. Len(list) \in Nat /\ Len(Front(list)) \in Nat
    BY <1>a, <1>b
  <1>1. OnlyLocals(p) /\ LocalOK'
    BY <1>0, <1>a, <1>b, <1>c, <1>d DEF OnlyLocals, LocalOK, Locs, Arets, Drets
  <1>2. SuperOK'
    BY <1>0, <1>a, <1>b, <1>c, <1>d DEF SuperOK
  <1>3. GateInv(p)'
    BY <1>0, <1>a, <1>b, <1>c, <1>d DEF GateInv, Gated, LocalInv, InodeInv,
       LocalOK, SuperOK, InIattach, InIdetach, Arets, Drets
  <1>4. LocalInv(p)'
    BY <1>0, <1>a, <1>b, <1>c, <1>d DEF LocalInv, LocalOK, InIattach,
       InIdetach,
       Arets, Drets
  <1>5. InodeInv(p)'
    BY <1>0, <1>a, <1>b, <1>c, <1>d DEF GateInv, Gated, LocalInv, InodeInv,
       LocalOK, InIattach, InIdetach, Arets, Drets
  <1>6. /\ pc[p] # "icopydm" /\ fd'[p] = fd[p] /\ UNCHANGED <<core, dino, scur>>
        /\ Attached(p)' <=> Attached(p)
        /\ Attached(p) => ip'[p] = ip[p]
        /\ mlock' = mlock \/ mlock \in {p, Free}
        /\ list' = list \/ mlock = p
    BY <1>0, <1>a, <1>b, <1>c, <1>d DEF Attached, GateInv, LocalInv, LocalOK,
       InIattach, InIdetach, Arets, Drets
  <1>7. /\ \A i \in Files : namer'[i] = namer[i] \/ namer[i] \in {p, Free}
        /\ \A i \in Files : names[i] > 0 => names'[i] > 0 \/ namer[i] = p
    BY <1>0, <1>a, <1>b, <1>c, <1>d DEF SuperOK, GateInv, LocalInv
  <1> QED
    BY <1>1, <1>2, <1>3, <1>4, <1>5, <1>6, <1>7, MoveIInv

LEMMA takenIInv ==
  ASSUME IInv, NEW p \in Procs, taken(p)
  PROVE  IInv'
  <1>0. /\ CoreOK /\ SuperOK /\ LocalOK /\ OneSlot /\ BadInv /\ RefsCounted
        /\ GateInv(p) /\ LocalInv(p) /\ InodeInv(p)
    BY Types DEF IInv, OneSlot
  <1> USE IcacheAssumption
  <1> USE DEF taken, CallIattach, Running, Goto, Yield, core, super, dirs,
     locals,
     syncvars
  <1>1. OnlyLocals(p) /\ LocalOK'
    BY <1>0 DEF OnlyLocals, LocalOK, Locs, Arets, Drets
  <1>2. SuperOK'
    BY <1>0 DEF SuperOK
  <1>3. GateInv(p)'
    BY <1>0 DEF GateInv, Gated, LocalInv, InodeInv, LocalOK, SuperOK,
       InIattach,
       InIdetach, Arets, Drets
  <1>4. LocalInv(p)'
    BY <1>0 DEF LocalInv, LocalOK, InIattach, InIdetach, Arets, Drets
  <1>5. InodeInv(p)'
    BY <1>0 DEF GateInv, Gated, LocalInv, InodeInv, LocalOK, InIattach,
       InIdetach, Arets, Drets
  <1>6. /\ pc[p] # "icopydm" /\ fd'[p] = fd[p] /\ UNCHANGED <<core, dino, scur>>
        /\ Attached(p)' <=> Attached(p)
        /\ Attached(p) => ip'[p] = ip[p]
        /\ mlock' = mlock \/ mlock \in {p, Free}
        /\ list' = list \/ mlock = p
    BY <1>0 DEF Attached, GateInv, LocalInv, LocalOK, InIattach, InIdetach,
       Arets, Drets
  <1>7. /\ \A i \in Files : namer'[i] = namer[i] \/ namer[i] \in {p, Free}
        /\ \A i \in Files : names[i] > 0 => names'[i] > 0 \/ namer[i] = p
    BY <1>0 DEF SuperOK, GateInv, LocalInv
  <1> QED
    BY <1>1, <1>2, <1>3, <1>4, <1>5, <1>6, <1>7, MoveIInv

-----------------------------------------------------------------------------
(* The system calls.                                                       *)

LEMMA ucreatIInv ==
  ASSUME IInv, NEW p \in Procs, ucreat(p)
  PROVE  IInv'
  <1>0. /\ CoreOK /\ SuperOK /\ LocalOK /\ OneSlot /\ BadInv /\ RefsCounted
        /\ GateInv(p) /\ LocalInv(p) /\ InodeInv(p)
    BY Types DEF IInv, OneSlot
  <1> USE IcacheAssumption
  <1> USE DEF ucreat, Call, Running, Goto, Yield, core, super, dirs, locals,
     syncvars
  <1>1. OnlyLocals(p) /\ LocalOK'
    BY <1>0 DEF OnlyLocals, LocalOK, Locs, Arets, Drets
  <1>2. SuperOK'
    BY <1>0 DEF SuperOK
  <1>3. GateInv(p)'
    BY <1>0 DEF GateInv, Gated, LocalInv, InodeInv, LocalOK, SuperOK,
       InIattach,
       InIdetach, Arets, Drets
  <1>4. LocalInv(p)'
    BY <1>0 DEF LocalInv, LocalOK, InIattach, InIdetach, Arets, Drets
  <1>5. InodeInv(p)'
    BY <1>0 DEF GateInv, Gated, LocalInv, InodeInv, LocalOK, InIattach,
       InIdetach, Arets, Drets
  <1>6. /\ pc[p] # "icopydm" /\ fd'[p] = fd[p] /\ UNCHANGED <<core, dino, scur>>
        /\ Attached(p)' <=> Attached(p)
        /\ Attached(p) => ip'[p] = ip[p]
        /\ mlock' = mlock \/ mlock \in {p, Free}
        /\ list' = list \/ mlock = p
    BY <1>0 DEF Attached, GateInv, LocalInv, LocalOK, InIattach, InIdetach,
       Arets, Drets
  <1>7. /\ \A i \in Files : namer'[i] = namer[i] \/ namer[i] \in {p, Free}
        /\ \A i \in Files : names[i] > 0 => names'[i] > 0 \/ namer[i] = p
    BY <1>0 DEF SuperOK, GateInv, LocalInv
  <1> QED
    BY <1>1, <1>2, <1>3, <1>4, <1>5, <1>6, <1>7, MoveIInv

LEMMA ftoiIInv ==
  ASSUME IInv, NEW p \in Procs, NEW j \in Files, ftoi(p, j)
  PROVE  IInv'
  <1>0. /\ CoreOK /\ SuperOK /\ LocalOK /\ OneSlot /\ BadInv /\ RefsCounted
        /\ GateInv(p) /\ LocalInv(p) /\ InodeInv(p)
    BY Types DEF IInv, OneSlot
  <1> USE IcacheAssumption
  <1> USE DEF ftoi, Call, Running, Goto, Yield, core, super, dirs, locals,
     syncvars
  <1>c. Files \subseteq 0 .. NINO
    BY DEF Files, Inos
  <1>1. OnlyLocals(p) /\ LocalOK'
    BY <1>0, <1>c DEF OnlyLocals, LocalOK, Locs, Arets, Drets
  <1>2. SuperOK'
    BY <1>0, <1>c DEF SuperOK
  <1>3. GateInv(p)'
    BY <1>0, <1>c DEF GateInv, Gated, LocalInv, InodeInv, LocalOK, SuperOK,
       InIattach, InIdetach, Arets, Drets
  <1>4. LocalInv(p)'
    BY <1>0, <1>c DEF LocalInv, LocalOK, InIattach, InIdetach, Arets, Drets
  <1>5. InodeInv(p)'
    BY <1>0, <1>c DEF GateInv, Gated, LocalInv, InodeInv, LocalOK, InIattach,
       InIdetach, Arets, Drets
  <1>6. /\ pc[p] # "icopydm" /\ fd'[p] = fd[p] /\ UNCHANGED <<core, dino, scur>>
        /\ Attached(p)' <=> Attached(p)
        /\ Attached(p) => ip'[p] = ip[p]
        /\ mlock' = mlock \/ mlock \in {p, Free}
        /\ list' = list \/ mlock = p
    BY <1>0, <1>c DEF Attached, GateInv, LocalInv, LocalOK, InIattach,
       InIdetach, Arets, Drets
  <1>7. /\ \A i \in Files : namer'[i] = namer[i] \/ namer[i] \in {p, Free}
        /\ \A i \in Files : names[i] > 0 => names'[i] > 0 \/ namer[i] = p
    BY <1>0, <1>c DEF SuperOK, GateInv, LocalInv
  <1> QED
    BY <1>1, <1>2, <1>3, <1>4, <1>5, <1>6, <1>7, MoveIInv

LEMMA ftoiEndIInv ==
  ASSUME IInv, NEW p \in Procs, ftoiEnd(p)
  PROVE  IInv'
  <1>0. /\ CoreOK /\ SuperOK /\ LocalOK /\ OneSlot /\ BadInv /\ RefsCounted
        /\ GateInv(p) /\ LocalInv(p) /\ InodeInv(p)
    BY Types DEF IInv, OneSlot
  <1> USE IcacheAssumption
  <1> USE DEF ftoiEnd, CallIattach, Running, Goto, Yield, core, super, dirs,
     locals, syncvars
  <1>1. OnlyLocals(p) /\ LocalOK'
    BY <1>0 DEF OnlyLocals, LocalOK, Locs, Arets, Drets
  <1>2. SuperOK'
    BY <1>0 DEF SuperOK
  <1>3. GateInv(p)'
    BY <1>0 DEF GateInv, Gated, LocalInv, InodeInv, LocalOK, SuperOK,
       InIattach,
       InIdetach, Arets, Drets
  <1>4. LocalInv(p)'
    BY <1>0 DEF LocalInv, LocalOK, InIattach, InIdetach, Arets, Drets
  <1>5. InodeInv(p)'
    BY <1>0 DEF GateInv, Gated, LocalInv, InodeInv, LocalOK, InIattach,
       InIdetach, Arets, Drets
  <1>6. /\ pc[p] # "icopydm" /\ fd'[p] = fd[p] /\ UNCHANGED <<core, dino, scur>>
        /\ Attached(p)' <=> Attached(p)
        /\ Attached(p) => ip'[p] = ip[p]
        /\ mlock' = mlock \/ mlock \in {p, Free}
        /\ list' = list \/ mlock = p
    BY <1>0 DEF Attached, GateInv, LocalInv, LocalOK, InIattach, InIdetach,
       Arets, Drets
  <1>7. /\ \A i \in Files : namer'[i] = namer[i] \/ namer[i] \in {p, Free}
        /\ \A i \in Files : names[i] > 0 => names'[i] > 0 \/ namer[i] = p
    BY <1>0 DEF SuperOK, GateInv, LocalInv
  <1> QED
    BY <1>1, <1>2, <1>3, <1>4, <1>5, <1>6, <1>7, MoveIInv

LEMMA failedIInv ==
  ASSUME IInv, NEW p \in Procs, failed(p)
  PROVE  IInv'
  <1>0. /\ CoreOK /\ SuperOK /\ LocalOK /\ OneSlot /\ BadInv /\ RefsCounted
        /\ GateInv(p) /\ LocalInv(p) /\ InodeInv(p)
    BY Types DEF IInv, OneSlot
  <1> USE IcacheAssumption
  <1> USE DEF failed, Return, Running, Goto, Yield, core, super, dirs, locals,
     syncvars
  <1>1. OnlyLocals(p) /\ LocalOK'
    BY <1>0 DEF OnlyLocals, LocalOK, Locs, Arets, Drets
  <1>2. SuperOK'
    BY <1>0 DEF SuperOK
  <1>3. GateInv(p)'
    BY <1>0 DEF GateInv, Gated, LocalInv, InodeInv, LocalOK, SuperOK,
       InIattach,
       InIdetach, Arets, Drets
  <1>4. LocalInv(p)'
    BY <1>0 DEF LocalInv, LocalOK, InIattach, InIdetach, Arets, Drets
  <1>5. InodeInv(p)'
    BY <1>0 DEF GateInv, Gated, LocalInv, InodeInv, LocalOK, InIattach,
       InIdetach, Arets, Drets
  <1>6. /\ pc[p] # "icopydm" /\ fd'[p] = fd[p] /\ UNCHANGED <<core, dino, scur>>
        /\ Attached(p)' <=> Attached(p)
        /\ Attached(p) => ip'[p] = ip[p]
        /\ mlock' = mlock \/ mlock \in {p, Free}
        /\ list' = list \/ mlock = p
    BY <1>0 DEF Attached, GateInv, LocalInv, LocalOK, InIattach, InIdetach,
       Arets, Drets
  <1>7. /\ \A i \in Files : namer'[i] = namer[i] \/ namer[i] \in {p, Free}
        /\ \A i \in Files : names[i] > 0 => names'[i] > 0 \/ namer[i] = p
    BY <1>0 DEF SuperOK, GateInv, LocalInv
  <1> QED
    BY <1>1, <1>2, <1>3, <1>4, <1>5, <1>6, <1>7, MoveIInv

LEMMA uwriteIInv ==
  ASSUME IInv, NEW p \in Procs, uwrite(p)
  PROVE  IInv'
  <1>0. /\ CoreOK /\ SuperOK /\ LocalOK /\ OneSlot /\ BadInv /\ RefsCounted
        /\ GateInv(p) /\ LocalInv(p) /\ InodeInv(p)
    BY Types DEF IInv, OneSlot
  <1> USE IcacheAssumption
  <1> USE DEF uwrite, Call, Slots, Running, Goto, Yield, core, super, dirs,
     locals, syncvars
  <1>1. OnlyLocals(p) /\ LocalOK'
    BY <1>0 DEF OnlyLocals, LocalOK, Locs, Arets, Drets
  <1>2. SuperOK'
    BY <1>0 DEF SuperOK
  <1>3. GateInv(p)'
    BY <1>0 DEF GateInv, Gated, LocalInv, InodeInv, LocalOK, SuperOK,
       InIattach,
       InIdetach, Arets, Drets
  <1>4. LocalInv(p)'
    BY <1>0 DEF LocalInv, LocalOK, InIattach, InIdetach, Arets, Drets
  <1>5. InodeInv(p)'
    BY <1>0 DEF GateInv, Gated, LocalInv, InodeInv, LocalOK, InIattach,
       InIdetach, Arets, Drets
  <1>6. /\ pc[p] # "icopydm" /\ fd'[p] = fd[p] /\ UNCHANGED <<core, dino, scur>>
        /\ Attached(p)' <=> Attached(p)
        /\ Attached(p) => ip'[p] = ip[p]
        /\ mlock' = mlock \/ mlock \in {p, Free}
        /\ list' = list \/ mlock = p
    BY <1>0 DEF Attached, GateInv, LocalInv, LocalOK, InIattach, InIdetach,
       Arets, Drets
  <1>7. /\ \A i \in Files : namer'[i] = namer[i] \/ namer[i] \in {p, Free}
        /\ \A i \in Files : names[i] > 0 => names'[i] > 0 \/ namer[i] = p
    BY <1>0 DEF SuperOK, GateInv, LocalInv
  <1> QED
    BY <1>1, <1>2, <1>3, <1>4, <1>5, <1>6, <1>7, MoveIInv

LEMMA uunlinkIInv ==
  ASSUME IInv, NEW p \in Procs, NEW j \in Files, uunlink(p, j)
  PROVE  IInv'
  <1>0. /\ CoreOK /\ SuperOK /\ LocalOK /\ OneSlot /\ BadInv /\ RefsCounted
        /\ GateInv(p) /\ LocalInv(p) /\ InodeInv(p)
    BY Types DEF IInv, OneSlot
  <1> USE IcacheAssumption
  <1> USE DEF uunlink, Call, CallIattach, Running, Goto, Yield, core, super,
     dirs,
     locals, syncvars
  <1>c. Files \subseteq 0 .. NINO
    BY DEF Files, Inos
  <1>1. OnlyLocals(p) /\ LocalOK'
    BY <1>0, <1>c DEF OnlyLocals, LocalOK, Locs, Arets, Drets
  <1>2. SuperOK'
    BY <1>0, <1>c DEF SuperOK
  <1>3. GateInv(p)'
    BY <1>0, <1>c DEF GateInv, Gated, LocalInv, InodeInv, LocalOK, SuperOK,
       InIattach, InIdetach, Arets, Drets
  <1>4. LocalInv(p)'
    BY <1>0, <1>c DEF LocalInv, LocalOK, InIattach, InIdetach, Arets, Drets
  <1>5. InodeInv(p)'
    BY <1>0, <1>c DEF GateInv, Gated, LocalInv, InodeInv, LocalOK, InIattach,
       InIdetach, Arets, Drets
  <1>6. /\ pc[p] # "icopydm" /\ fd'[p] = fd[p] /\ UNCHANGED <<core, dino, scur>>
        /\ Attached(p)' <=> Attached(p)
        /\ Attached(p) => ip'[p] = ip[p]
        /\ mlock' = mlock \/ mlock \in {p, Free}
        /\ list' = list \/ mlock = p
    BY <1>0, <1>c DEF Attached, GateInv, LocalInv, LocalOK, InIattach,
       InIdetach, Arets, Drets
  <1>7. /\ \A i \in Files : namer'[i] = namer[i] \/ namer[i] \in {p, Free}
        /\ \A i \in Files : names[i] > 0 => names'[i] > 0 \/ namer[i] = p
    BY <1>0, <1>c DEF SuperOK, GateInv, LocalInv
  <1> QED
    BY <1>1, <1>2, <1>3, <1>4, <1>5, <1>6, <1>7, MoveIInv

LEMMA unlinkAttachedIInv ==
  ASSUME IInv, NEW p \in Procs, unlinkAttached(p)
  PROVE  IInv'
  <1>0. /\ CoreOK /\ SuperOK /\ LocalOK /\ OneSlot /\ BadInv /\ RefsCounted
        /\ GateInv(p) /\ LocalInv(p) /\ InodeInv(p)
    BY Types DEF IInv, OneSlot
  <1> USE IcacheAssumption
  <1> USE DEF unlinkAttached, Running, Goto, Yield, core, super, dirs, locals,
     syncvars
  <1>1. OnlyLocals(p) /\ LocalOK'
    BY <1>0 DEF OnlyLocals, LocalOK, Locs, Arets, Drets
  <1>2. SuperOK'
    BY <1>0 DEF SuperOK
  <1>3. GateInv(p)'
    BY <1>0 DEF GateInv, Gated, LocalInv, InodeInv, LocalOK, SuperOK,
       InIattach,
       InIdetach, Arets, Drets
  <1>4. LocalInv(p)'
    BY <1>0 DEF LocalInv, LocalOK, InIattach, InIdetach, Arets, Drets
  <1>5. InodeInv(p)'
    BY <1>0 DEF GateInv, Gated, LocalInv, InodeInv, LocalOK, InIattach,
       InIdetach, Arets, Drets
  <1>6. /\ pc[p] # "icopydm" /\ fd'[p] = fd[p] /\ UNCHANGED <<core, dino, scur>>
        /\ Attached(p)' <=> Attached(p)
        /\ Attached(p) => ip'[p] = ip[p]
        /\ mlock' = mlock \/ mlock \in {p, Free}
        /\ list' = list \/ mlock = p
    BY <1>0 DEF Attached, GateInv, LocalInv, LocalOK, InIattach, InIdetach,
       Arets, Drets
  <1>7. /\ \A i \in Files : namer'[i] = namer[i] \/ namer[i] \in {p, Free}
        /\ \A i \in Files : names[i] > 0 => names'[i] > 0 \/ namer[i] = p
    BY <1>0 DEF SuperOK, GateInv, LocalInv
  <1> QED
    BY <1>1, <1>2, <1>3, <1>4, <1>5, <1>6, <1>7, MoveIInv

LEMMA lockIInv ==
  ASSUME IInv, NEW p \in Procs, lock(p)
  PROVE  IInv'
  <1>0. /\ CoreOK /\ SuperOK /\ LocalOK /\ OneSlot /\ BadInv /\ RefsCounted
        /\ GateInv(p) /\ LocalInv(p) /\ InodeInv(p)
    BY Types DEF IInv, OneSlot
  <1> USE IcacheAssumption
  <1> USE DEF lock, Running, Goto, Yield, core, super, dirs, locals, syncvars
  <1>1. OnlyLocals(p) /\ LocalOK'
    BY <1>0 DEF OnlyLocals, LocalOK, Locs, Arets, Drets
  <1>2. SuperOK'
    BY <1>0 DEF SuperOK
  <1>3. GateInv(p)'
    BY <1>0 DEF GateInv, Gated, LocalInv, InodeInv, LocalOK, SuperOK,
       InIattach,
       InIdetach, Arets, Drets
  <1>4. LocalInv(p)'
    BY <1>0 DEF LocalInv, LocalOK, InIattach, InIdetach, Arets, Drets
  <1>5. InodeInv(p)'
    BY <1>0 DEF GateInv, Gated, LocalInv, InodeInv, LocalOK, InIattach,
       InIdetach, Arets, Drets
  <1>6. /\ pc[p] # "icopydm" /\ fd'[p] = fd[p] /\ UNCHANGED <<core, dino, scur>>
        /\ Attached(p)' <=> Attached(p)
        /\ Attached(p) => ip'[p] = ip[p]
        /\ mlock' = mlock \/ mlock \in {p, Free}
        /\ list' = list \/ mlock = p
    BY <1>0 DEF Attached, GateInv, LocalInv, LocalOK, InIattach, InIdetach,
       Arets, Drets
  <1>7. /\ \A i \in Files : namer'[i] = namer[i] \/ namer[i] \in {p, Free}
        /\ \A i \in Files : names[i] > 0 => names'[i] > 0 \/ namer[i] = p
    BY <1>0 DEF SuperOK, GateInv, LocalInv
  <1> QED
    BY <1>1, <1>2, <1>3, <1>4, <1>5, <1>6, <1>7, MoveIInv

(***************************************************************************)
(* ialloc goes on with what iattach has brought: nothing, an inode that is *)
(* in use after all, or a free one.                                        *)
(***************************************************************************)
LEMMA passedIInv ==
  ASSUME IInv, NEW p \in Procs, pc[p] = "attached",
         \/ ip[p] = 0 /\ Goto(p, "ifree") /\ UNCHANGED dret
         \/ ip[p] # 0 /\ CallIdetach(p, "ialloc"),
         UNCHANGED <<core, dino, super, dirs, op, want, ip, aret, fd, syncvars>>
  PROVE  IInv'
  <1>0. /\ CoreOK /\ SuperOK /\ LocalOK /\ OneSlot /\ BadInv /\ RefsCounted
        /\ GateInv(p) /\ LocalInv(p) /\ InodeInv(p)
    BY Types DEF IInv, OneSlot
  <1> USE IcacheAssumption
  <1> USE DEF CallIdetach, Running, Goto, Yield, core, super, dirs, locals,
     syncvars
  <1>1. OnlyLocals(p) /\ LocalOK'
    BY <1>0 DEF OnlyLocals, LocalOK, Locs, Arets, Drets
  <1>2. SuperOK'
    BY <1>0 DEF SuperOK
  <1>3. GateInv(p)'
    BY <1>0 DEF GateInv, Gated, LocalInv, InodeInv, LocalOK, SuperOK,
       InIattach,
       InIdetach, Arets, Drets
  <1>4. LocalInv(p)'
    BY <1>0 DEF LocalInv, LocalOK, InIattach, InIdetach, Arets, Drets
  <1>5. InodeInv(p)'
    BY <1>0 DEF GateInv, Gated, LocalInv, InodeInv, LocalOK, InIattach,
       InIdetach, Arets, Drets
  <1>6. /\ pc[p] # "icopydm" /\ fd'[p] = fd[p] /\ UNCHANGED <<core, dino, scur>>
        /\ Attached(p)' <=> Attached(p)
        /\ Attached(p) => ip'[p] = ip[p]
        /\ mlock' = mlock \/ mlock \in {p, Free}
        /\ list' = list \/ mlock = p
    BY <1>0 DEF Attached, GateInv, LocalInv, LocalOK, InIattach, InIdetach,
       Arets, Drets
  <1>7. /\ \A i \in Files : namer'[i] = namer[i] \/ namer[i] \in {p, Free}
        /\ \A i \in Files : names[i] > 0 => names'[i] > 0 \/ namer[i] = p
    BY <1>0 DEF SuperOK, GateInv, LocalInv
  <1> QED
    BY <1>1, <1>2, <1>3, <1>4, <1>5, <1>6, <1>7, MoveIInv

LEMMA freshIInv ==
  ASSUME IInv, NEW p \in Procs, pc[p] = "attached", ip[p] # 0,
         val' = [val EXCEPT ![ip[p]] = Inode(TRUE, 1, val[ip[p]].ver)],
         flag' = [flag EXCEPT ![ip[p]] = FALSE], Yield(p, "idirent"),
         UNCHANGED <<ino, refc, gate, dino, super, dirs, locals, syncvars>>
  PROVE  IInv'
  <1>0. /\ CoreOK /\ SuperOK /\ LocalOK /\ OneSlot /\ BadInv /\ RefsCounted
        /\ GateInv(p) /\ LocalInv(p) /\ InodeInv(p)
    BY Types DEF IInv, OneSlot
  <1> USE IcacheAssumption
  <1> USE DEF Running, Goto, Yield, core, super, dirs, locals, syncvars
  <1>a. /\ pc[p] = "attached" /\ ip[p] \in Slots /\ ip[p] # 0 /\ gate[ip[p]] = p
        /\ ino[ip[p]] \in Files
    BY <1>0 DEF GateInv, Gated, InodeInv, LocalInv, Slots
  <1>b. Inode(TRUE, 1, val[ip[p]].ver) \in Values
    BY <1>0, <1>a DEF CoreOK, Values, Inode
  <1>k. \A q \in Procs : pc[q] = "icopydm" => pc'[q] = "icopydm" /\ ip'[q] = ip[q]
    BY <1>0, <1>a DEF LocalOK
  <1>1. OnlyLocals(p) /\ LocalOK'
    BY <1>0, <1>a, <1>b, <1>k DEF OnlyLocals, LocalOK, Locs, Arets, Drets
  <1>2. SuperOK'
    BY <1>0, <1>a, <1>b, <1>k DEF SuperOK
  <1>3. CoreOK'
    BY <1>0, <1>a, <1>b, <1>k DEF CoreOK
  <1>4. BadInv'
    <2>1. \A s \in Slots : ino[s] = BADFIN => val'[s] = val[s] /\ (flag'[s] => flag[s])
      BY <1>0, <1>a DEF CoreOK, Files
    <2>2. scur' = scur /\ dino' = dino /\ ino' = ino /\ scur[2] # BADFIN
      BY <1>0 DEF BadInv
    <2> QED
      BY <1>0, <1>k, <2>1, <2>2, BadKept
  <1>5. RefsCounted'
    BY <1>0, <1>a, <1>b, <1>k, RefSame DEF Attached, LocalOK
  <1>6. GateInv(p)'
    BY <1>0, <1>a, <1>b, <1>k DEF GateInv, Gated, LocalInv, InodeInv, CoreOK,
       LocalOK, SuperOK, InIattach, InIdetach, Arets, Drets
  <1>7. LocalInv(p)'
    BY <1>0, <1>a, <1>b, <1>k DEF LocalInv, LocalOK, InIattach, InIdetach,
       Arets, Drets
  <1>8. InodeInv(p)'
    BY <1>0, <1>a, <1>b, <1>k DEF GateInv, Gated, LocalInv, InodeInv, CoreOK,
       LocalOK, InIattach, InIdetach, Arets, Drets
  <1>9. /\ scur' = scur /\ (mlock' = mlock \/ mlock \in {p, Free})
        /\ list' = list \/ mlock = p
        /\ \A s \in Slots : gate'[s] = gate[s] \/ gate[s] \in {p, Free}
        /\ \A s \in Slots : ino'[s] = ino[s] \/ (refc[s] = 0 /\ gate[s] = Free)
        /\ \A i \in Files : namer'[i] = namer[i] \/ namer[i] \in {p, Free}
        /\ \A i \in Files : names[i] > 0 => names'[i] > 0 \/ namer[i] = p
    BY <1>0, <1>a, <1>b, <1>k DEF CoreOK, SuperOK, GateInv, Gated, LocalInv,
       InIattach, InIdetach, Arets, Drets
  <1>10. \A s, t \in Slots : s # t /\ ino'[s] # 0 => ino'[s] # ino'[t]
    BY <1>0, <1>a, <1>b, <1>k DEF CoreOK, OneSlot
  <1> QED
    BY <1>1, <1>2, <1>3, <1>4, <1>5, <1>6, <1>7, <1>8, <1>9, <1>10, CoreIInv

LEMMA attachedIInv ==
  ASSUME IInv, NEW p \in Procs, attached(p)
  PROVE  IInv'
  <1>1. pc[p] = "attached"
    BY DEF attached, Running
  <1>2. CASE ip[p] = 0 \/ val[ip[p]].mode
    BY <1>1, <1>2, passedIInv DEF attached, core
  <1>3. CASE ip[p] # 0 /\ ~val[ip[p]].mode
    BY <1>1, <1>3, freshIInv DEF attached, locals
  <1> QED
    BY <1>2, <1>3

(***************************************************************************)
(* The new file is open: the reference of the call is the file's.          *)
(***************************************************************************)
LEMMA idirentIInv ==
  ASSUME IInv, NEW p \in Procs, idirent(p)
  PROVE  IInv'
  <1>0. /\ CoreOK /\ SuperOK /\ LocalOK /\ OneSlot /\ BadInv /\ RefsCounted
        /\ GateInv(p) /\ LocalInv(p) /\ InodeInv(p)
    BY Types DEF IInv, OneSlot
  <1> USE IcacheAssumption
  <1> USE DEF idirent, Return, Running, Goto, Yield, core, super, dirs, locals,
     syncvars
  <1>a. /\ pc[p] = "idirent" /\ ip[p] \in Slots /\ ip[p] # 0 /\ gate[ip[p]] = p
        /\ ino[ip[p]] \in Files
    BY <1>0 DEF GateInv, Gated, InodeInv, LocalInv, Slots
  <1>k. \A q \in Procs : pc[q] = "icopydm" => pc'[q] = "icopydm" /\ ip'[q] = ip[q]
    BY <1>0, <1>a DEF LocalOK
  <1>1. OnlyLocals(p) /\ LocalOK'
    BY <1>0, <1>a, <1>k DEF OnlyLocals, LocalOK, Locs, Arets, Drets
  <1>2. SuperOK'
    BY <1>0, <1>a, <1>k DEF SuperOK
  <1>3. CoreOK'
    BY <1>0, <1>a, <1>k DEF CoreOK
  <1>4. BadInv'
    BY <1>0, <1>a, <1>k, BadKept DEF BadInv, CoreOK, Files
  <1>5. RefsCounted'
    <2>1. /\ Attached(p) /\ ~Attached(p)' /\ refc' = refc
          /\ fd[p] = 0 /\ fd'[p] = ip[p]
      BY <1>0, <1>a DEF Attached, LocalInv, LocalOK
    <2> QED
      BY <1>0, <1>1, <1>a, <2>1, OthersRefs, RefOpen
  <1>6. GateInv(p)'
    BY <1>0, <1>a, <1>k DEF GateInv, Gated, LocalInv, InodeInv, CoreOK,
       LocalOK,
       SuperOK, InIattach, InIdetach, Arets, Drets
  <1>7. LocalInv(p)'
    BY <1>0, <1>a, <1>k DEF LocalInv, LocalOK, InIattach, InIdetach, Arets,
       Drets
  <1>8. InodeInv(p)'
    BY <1>0, <1>a, <1>k DEF GateInv, Gated, LocalInv, InodeInv, CoreOK,
       LocalOK,
       InIattach, InIdetach, Arets, Drets
  <1>9. /\ scur' = scur /\ (mlock' = mlock \/ mlock \in {p, Free})
        /\ list' = list \/ mlock = p
        /\ \A s \in Slots : gate'[s] = gate[s] \/ gate[s] \in {p, Free}
        /\ \A s \in Slots : ino'[s] = ino[s] \/ (refc[s] = 0 /\ gate[s] = Free)
        /\ \A i \in Files : namer'[i] = namer[i] \/ namer[i] \in {p, Free}
        /\ \A i \in Files : names[i] > 0 => names'[i] > 0 \/ namer[i] = p
    BY <1>0, <1>a, <1>k DEF CoreOK, SuperOK, GateInv, Gated, LocalInv,
       InIattach, InIdetach, Arets, Drets
  <1>10. \A s, t \in Slots : s # t /\ ino'[s] # 0 => ino'[s] # ino'[t]
    BY <1>0, <1>a, <1>k DEF CoreOK, OneSlot
  <1> QED
    BY <1>1, <1>2, <1>3, <1>4, <1>5, <1>6, <1>7, <1>8, <1>9, <1>10, CoreIInv

(***************************************************************************)
(* The new file has no name, and ucreat gives its inode up.                *)
(***************************************************************************)
LEMMA idirentFailedIInv ==
  ASSUME IInv, NEW p \in Procs, idirentFailed(p)
  PROVE  IInv'
  <1>0. /\ CoreOK /\ SuperOK /\ LocalOK /\ OneSlot /\ BadInv /\ RefsCounted
        /\ GateInv(p) /\ LocalInv(p) /\ InodeInv(p)
    BY Types DEF IInv, OneSlot
  <1> USE IcacheAssumption
  <1> USE DEF idirentFailed, CallIdetach, Running, Goto, Yield, core, super, dirs,
     locals, syncvars
  <1>a. /\ pc[p] = "idirent" /\ ip[p] \in Slots /\ ip[p] # 0 /\ gate[ip[p]] = p
        /\ ino[ip[p]] \in Files
    BY <1>0 DEF GateInv, Gated, InodeInv, LocalInv, Slots
  <1>k. \A q \in Procs : pc[q] = "icopydm" => pc'[q] = "icopydm" /\ ip'[q] = ip[q]
    BY <1>0, <1>a DEF LocalOK
  <1>1. OnlyLocals(p) /\ LocalOK'
    BY <1>0, <1>a, <1>k DEF OnlyLocals, LocalOK, Locs, Arets, Drets
  <1>2. SuperOK'
    BY <1>0, <1>a, <1>k DEF SuperOK
  <1>3. CoreOK'
    BY <1>0, <1>a, <1>k DEF CoreOK
  <1>4. BadInv'
    BY <1>0, <1>a, <1>k, BadKept DEF BadInv, CoreOK, Files
  <1>5. RefsCounted'
    BY <1>0, <1>a, <1>k, RefSame DEF Attached, LocalOK
  <1>6. GateInv(p)'
    BY <1>0, <1>a, <1>k DEF GateInv, Gated, LocalInv, InodeInv,
       CoreOK, LocalOK, SuperOK, InIattach, InIdetach, Arets, Drets
  <1>7. LocalInv(p)'
    BY <1>0, <1>a, <1>k DEF LocalInv, LocalOK, InIattach,
       InIdetach,
       Arets, Drets
  <1>8. InodeInv(p)'
    BY <1>0, <1>a, <1>k DEF GateInv, Gated, LocalInv, InodeInv,
       CoreOK, LocalOK, InIattach, InIdetach, Arets, Drets
  <1>9. /\ scur' = scur /\ (mlock' = mlock \/ mlock \in {p, Free})
        /\ list' = list \/ mlock = p
        /\ \A s \in Slots : gate'[s] = gate[s] \/ gate[s] \in {p, Free}
        /\ \A s \in Slots : ino'[s] = ino[s] \/ (refc[s] = 0 /\ gate[s] = Free)
        /\ \A i \in Files : namer'[i] = namer[i] \/ namer[i] \in {p, Free}
        /\ \A i \in Files : names[i] > 0 => names'[i] > 0 \/ namer[i] = p
    BY <1>0, <1>a, <1>k DEF CoreOK, SuperOK, GateInv, Gated,
       LocalInv, InIattach, InIdetach, Arets, Drets
  <1>10. \A s, t \in Slots : s # t /\ ino'[s] # 0 => ino'[s] # ino'[t]
    BY <1>0, <1>a, <1>k DEF CoreOK, OneSlot
  <1> QED
    BY <1>1, <1>2, <1>3, <1>4, <1>5, <1>6, <1>7, <1>8, <1>9, <1>10, CoreIInv

(***************************************************************************)
(* open has the inode, and gives its reference to the file.                *)
(***************************************************************************)
LEMMA openedIInv ==
  ASSUME IInv, NEW p \in Procs, pc[p] = "open", ip[p] # 0, Return(p),
         fd' = [fd EXCEPT ![p] = ip[p]], gate' = [gate EXCEPT ![ip[p]] = Free],
         UNCHANGED <<ino, refc, flag, val, dino, super, dirs, syncvars>>
  PROVE  IInv'
  <1>0. /\ CoreOK /\ SuperOK /\ LocalOK /\ OneSlot /\ BadInv /\ RefsCounted
        /\ GateInv(p) /\ LocalInv(p) /\ InodeInv(p)
    BY Types DEF IInv, OneSlot
  <1> USE IcacheAssumption
  <1> USE DEF Return, Running, Goto, Yield, core, super, dirs, locals, syncvars
  <1>a. /\ pc[p] = "open" /\ ip[p] \in Slots /\ ip[p] # 0 /\ gate[ip[p]] = p
        /\ ino[ip[p]] \in Files
    BY <1>0 DEF GateInv, Gated, InodeInv, LocalInv, Slots
  <1>k. \A q \in Procs : pc[q] = "icopydm" => pc'[q] = "icopydm" /\ ip'[q] = ip[q]
    BY <1>0, <1>a DEF LocalOK
  <1>1. OnlyLocals(p) /\ LocalOK'
    BY <1>0, <1>a, <1>k DEF OnlyLocals, LocalOK, Locs, Arets, Drets
  <1>2. SuperOK'
    BY <1>0, <1>a, <1>k DEF SuperOK
  <1>3. CoreOK'
    BY <1>0, <1>a, <1>k DEF CoreOK
  <1>4. BadInv'
    BY <1>0, <1>a, <1>k, BadKept DEF BadInv, CoreOK, Files
  <1>5. RefsCounted'
    <2>1. /\ Attached(p) /\ ~Attached(p)' /\ refc' = refc
          /\ fd[p] = 0 /\ fd'[p] = ip[p]
      BY <1>0, <1>a DEF Attached, LocalInv, LocalOK
    <2> QED
      BY <1>0, <1>1, <1>a, <2>1, OthersRefs, RefOpen
  <1>6. GateInv(p)'
    BY <1>0, <1>a, <1>k DEF GateInv, Gated, LocalInv, InodeInv, CoreOK,
       LocalOK,
       SuperOK, InIattach, InIdetach, Arets, Drets
  <1>7. LocalInv(p)'
    BY <1>0, <1>a, <1>k DEF LocalInv, LocalOK, InIattach, InIdetach, Arets,
       Drets
  <1>8. InodeInv(p)'
    BY <1>0, <1>a, <1>k DEF GateInv, Gated, LocalInv, InodeInv, CoreOK,
       LocalOK,
       InIattach, InIdetach, Arets, Drets
  <1>9. /\ scur' = scur /\ (mlock' = mlock \/ mlock \in {p, Free})
        /\ list' = list \/ mlock = p
        /\ \A s \in Slots : gate'[s] = gate[s] \/ gate[s] \in {p, Free}
        /\ \A s \in Slots : ino'[s] = ino[s] \/ (refc[s] = 0 /\ gate[s] = Free)
        /\ \A i \in Files : namer'[i] = namer[i] \/ namer[i] \in {p, Free}
        /\ \A i \in Files : names[i] > 0 => names'[i] > 0 \/ namer[i] = p
    BY <1>0, <1>a, <1>k DEF CoreOK, SuperOK, GateInv, Gated, LocalInv,
       InIattach, InIdetach, Arets, Drets
  <1>10. \A s, t \in Slots : s # t /\ ino'[s] # 0 => ino'[s] # ino'[t]
    BY <1>0, <1>a, <1>k DEF CoreOK, OneSlot
  <1> QED
    BY <1>1, <1>2, <1>3, <1>4, <1>5, <1>6, <1>7, <1>8, <1>9, <1>10, CoreIInv

LEMMA refusedIInv ==
  ASSUME IInv, NEW p \in Procs, pc[p] = "open",
         \/ ip[p] = 0 /\ Return(p) /\ UNCHANGED fd
         \/ ip[p] # 0 /\ CallIdetach(p, "failed") /\ UNCHANGED <<op, want, ip, aret, fd>>,
         UNCHANGED <<core, dino, super, dirs, syncvars>>
  PROVE  IInv'
  <1>0. /\ CoreOK /\ SuperOK /\ LocalOK /\ OneSlot /\ BadInv /\ RefsCounted
        /\ GateInv(p) /\ LocalInv(p) /\ InodeInv(p)
    BY Types DEF IInv, OneSlot
  <1> USE IcacheAssumption
  <1> USE DEF CallIdetach, Return, Running, Goto, Yield, core, super, dirs,
     locals, syncvars
  <1>1. OnlyLocals(p) /\ LocalOK'
    BY <1>0 DEF OnlyLocals, LocalOK, Locs, Arets, Drets
  <1>2. SuperOK'
    BY <1>0 DEF SuperOK
  <1>3. GateInv(p)'
    BY <1>0, SMTT(30) DEF GateInv, Gated, LocalInv, InodeInv, LocalOK,
       SuperOK, InIattach,
       InIdetach, Arets, Drets
  <1>4. LocalInv(p)'
    BY <1>0 DEF LocalInv, LocalOK, InIattach, InIdetach, Arets, Drets
  <1>5. InodeInv(p)'
    BY <1>0 DEF GateInv, Gated, LocalInv, InodeInv, LocalOK, InIattach,
       InIdetach, Arets, Drets
  <1>6. /\ pc[p] # "icopydm" /\ fd'[p] = fd[p] /\ UNCHANGED <<core, dino, scur>>
        /\ Attached(p)' <=> Attached(p)
        /\ Attached(p) => ip'[p] = ip[p]
        /\ mlock' = mlock \/ mlock \in {p, Free}
        /\ list' = list \/ mlock = p
    BY <1>0 DEF Attached, GateInv, LocalInv, LocalOK, InIattach, InIdetach,
       Arets, Drets
  <1>7. /\ \A i \in Files : namer'[i] = namer[i] \/ namer[i] \in {p, Free}
        /\ \A i \in Files : names[i] > 0 => names'[i] > 0 \/ namer[i] = p
    BY <1>0 DEF SuperOK, GateInv, LocalInv
  <1> QED
    BY <1>1, <1>2, <1>3, <1>4, <1>5, <1>6, <1>7, MoveIInv

LEMMA uopenIInv ==
  ASSUME IInv, NEW p \in Procs, uopen(p)
  PROVE  IInv'
  <1>1. pc[p] = "open"
    BY DEF uopen, Running
  <1> QED
    BY <1>1, refusedIInv, openedIInv DEF uopen, core

(***************************************************************************)
(* write: the inode is one the process has open.                           *)
(***************************************************************************)
LEMMA iwriteIInv ==
  ASSUME IInv, NEW p \in Procs, iwrite(p)
  PROVE  IInv'
  <1>0. /\ CoreOK /\ SuperOK /\ LocalOK /\ OneSlot /\ BadInv /\ RefsCounted
        /\ GateInv(p) /\ LocalInv(p) /\ InodeInv(p)
    BY Types DEF IInv, OneSlot
  <1> USE IcacheAssumption
  <1> USE DEF iwrite, Running, Goto, Yield, core, super, dirs, locals, syncvars
  <1>a. /\ pc[p] = "wlock" /\ ip[p] \in Slots /\ ip[p] = fd[p] /\ ip[p] # 0
        /\ ino[ip[p]] \in Files /\ gate[ip[p]] = Free /\ Files \subseteq Inos
    BY <1>0 DEF LocalInv, InodeInv, Slots, Files
  <1>k. \A q \in Procs : pc[q] = "icopydm" => pc'[q] = "icopydm" /\ ip'[q] = ip[q]
    BY <1>0, <1>a DEF LocalOK
  <1>1. OnlyLocals(p) /\ LocalOK'
    BY <1>0, <1>a, <1>k DEF OnlyLocals, LocalOK, Locs, Arets, Drets
  <1>2. SuperOK'
    BY <1>0, <1>a, <1>k DEF SuperOK
  <1>3. CoreOK'
    BY <1>0, <1>a, <1>k DEF CoreOK
  <1>4. BadInv'
    BY <1>0, <1>a, <1>k, BadKept DEF BadInv, CoreOK, Files
  <1>5. RefsCounted'
    BY <1>0, <1>a, <1>k, RefSame DEF Attached, LocalOK
  <1>6. GateInv(p)'
    BY <1>0, <1>a, <1>k DEF GateInv, Gated, LocalInv, InodeInv, CoreOK,
       LocalOK,
       SuperOK, InIattach, InIdetach, Arets, Drets
  <1>7. LocalInv(p)'
    BY <1>0, <1>a, <1>k DEF LocalInv, LocalOK, InIattach, InIdetach, Arets,
       Drets
  <1>8. InodeInv(p)'
    BY <1>0, <1>a, <1>k DEF GateInv, Gated, LocalInv, InodeInv, CoreOK,
       LocalOK,
       InIattach, InIdetach, Arets, Drets
  <1>9. /\ scur' = scur /\ (mlock' = mlock \/ mlock \in {p, Free})
        /\ list' = list \/ mlock = p
        /\ \A s \in Slots : gate'[s] = gate[s] \/ gate[s] \in {p, Free}
        /\ \A s \in Slots : ino'[s] = ino[s] \/ (refc[s] = 0 /\ gate[s] = Free)
        /\ \A i \in Files : namer'[i] = namer[i] \/ namer[i] \in {p, Free}
        /\ \A i \in Files : names[i] > 0 => names'[i] > 0 \/ namer[i] = p
    BY <1>0, <1>a, <1>k DEF CoreOK, SuperOK, GateInv, Gated, LocalInv,
       InIattach, InIdetach, Arets, Drets
  <1>10. \A s, t \in Slots : s # t /\ ino'[s] # 0 => ino'[s] # ino'[t]
    BY <1>0, <1>a, <1>k DEF CoreOK, OneSlot
  <1> QED
    BY <1>1, <1>2, <1>3, <1>4, <1>5, <1>6, <1>7, <1>8, <1>9, <1>10, CoreIInv

LEMMA fwriteIInv ==
  ASSUME IInv, NEW p \in Procs, fwrite(p)
  PROVE  IInv'
  <1>0. /\ CoreOK /\ SuperOK /\ LocalOK /\ OneSlot /\ BadInv /\ RefsCounted
        /\ GateInv(p) /\ LocalInv(p) /\ InodeInv(p)
    BY Types DEF IInv, OneSlot
  <1> USE IcacheAssumption
  <1> USE DEF fwrite, Return, Running, Goto, Yield, core, super, dirs, locals,
     syncvars
  <1>a. /\ pc[p] = "fwrite" /\ ip[p] \in Slots /\ ip[p] = fd[p] /\ ip[p] # 0
        /\ ino[ip[p]] \in Files /\ gate[ip[p]] = p
    BY <1>0 DEF GateInv, Gated, LocalInv, InodeInv, Slots
  <1>b. val' \in [Slots -> Values] /\ \A s \in Slots : s # ip[p] => val'[s] = val[s]
    <2>1. val \in [Slots -> Values]
      BY <1>0 DEF CoreOK
    <2>2. val[ip[p]].ver < MaxVer => [val[ip[p]] EXCEPT !.ver = @ + 1] \in Values
      BY <1>a, <2>1 DEF Values
    <2> QED
      BY <1>a, <2>1, <2>2
  <1>k. \A q \in Procs : pc[q] = "icopydm" => pc'[q] = "icopydm" /\ ip'[q] = ip[q]
    BY <1>0, <1>a DEF LocalOK
  <1>1. OnlyLocals(p) /\ LocalOK'
    BY <1>0, <1>a, <1>b, <1>k DEF OnlyLocals, LocalOK, Locs, Arets, Drets
  <1>2. SuperOK'
    BY <1>0, <1>a, <1>b, <1>k DEF SuperOK
  <1>3. CoreOK'
    BY <1>0, <1>a, <1>b, <1>k DEF CoreOK
  <1>4. BadInv'
    BY <1>0, <1>a, <1>b, <1>k, BadKept DEF BadInv, CoreOK, Files
  <1>5. RefsCounted'
    BY <1>0, <1>a, <1>b, <1>k, RefSame DEF Attached, LocalOK
  <1>6. GateInv(p)'
    BY <1>0, <1>a, <1>b, <1>k DEF GateInv, Gated, LocalInv, InodeInv, CoreOK,
       LocalOK, SuperOK, InIattach, InIdetach, Arets, Drets
  <1>7. LocalInv(p)'
    BY <1>0, <1>a, <1>b, <1>k DEF LocalInv, LocalOK, InIattach, InIdetach,
       Arets, Drets
  <1>8. InodeInv(p)'
    BY <1>0, <1>a, <1>b, <1>k DEF GateInv, Gated, LocalInv, InodeInv, CoreOK,
       LocalOK, InIattach, InIdetach, Arets, Drets
  <1>9. /\ scur' = scur /\ (mlock' = mlock \/ mlock \in {p, Free})
        /\ list' = list \/ mlock = p
        /\ \A s \in Slots : gate'[s] = gate[s] \/ gate[s] \in {p, Free}
        /\ \A s \in Slots : ino'[s] = ino[s] \/ (refc[s] = 0 /\ gate[s] = Free)
        /\ \A i \in Files : namer'[i] = namer[i] \/ namer[i] \in {p, Free}
        /\ \A i \in Files : names[i] > 0 => names'[i] > 0 \/ namer[i] = p
    BY <1>0, <1>a, <1>b, <1>k DEF CoreOK, SuperOK, GateInv, Gated, LocalInv,
       InIattach, InIdetach, Arets, Drets
  <1>10. \A s, t \in Slots : s # t /\ ino'[s] # 0 => ino'[s] # ino'[t]
    BY <1>0, <1>a, <1>b, <1>k DEF CoreOK, OneSlot
  <1> QED
    BY <1>1, <1>2, <1>3, <1>4, <1>5, <1>6, <1>7, <1>8, <1>9, <1>10, CoreIInv

(***************************************************************************)
(* close: the reference of the file is the call's.                         *)
(***************************************************************************)
LEMMA ucloseIInv ==
  ASSUME IInv, NEW p \in Procs, uclose(p)
  PROVE  IInv'
  <1>0. /\ CoreOK /\ SuperOK /\ LocalOK /\ OneSlot /\ BadInv /\ RefsCounted
        /\ GateInv(p) /\ LocalInv(p) /\ InodeInv(p)
    BY Types DEF IInv, OneSlot
  <1> USE IcacheAssumption
  <1> USE DEF uclose, Call, Running, Goto, Yield, core, super, dirs, locals,
     syncvars
  <1>a. pc[p] = "user" /\ fd[p] \in Slots /\ fd[p] # 0 /\ ino[fd[p]] \in Files
    BY <1>0 DEF InodeInv, LocalOK, Slots
  <1>k. \A q \in Procs : pc[q] = "icopydm" => pc'[q] = "icopydm" /\ ip'[q] = ip[q]
    BY <1>0, <1>a DEF LocalOK
  <1>1. OnlyLocals(p) /\ LocalOK'
    BY <1>0, <1>a, <1>k DEF OnlyLocals, LocalOK, Locs, Arets, Drets
  <1>2. SuperOK'
    BY <1>0, <1>a, <1>k DEF SuperOK
  <1>3. CoreOK'
    BY <1>0, <1>a, <1>k DEF CoreOK
  <1>4. BadInv'
    BY <1>0, <1>a, <1>k, BadKept DEF BadInv
  <1>5. RefsCounted'
    <2>1. /\ ~Attached(p) /\ Attached(p)' /\ refc' = refc
          /\ ip'[p] = fd[p] /\ fd'[p] = 0
      BY <1>0, <1>a DEF Attached, LocalOK
    <2> QED
      BY <1>0, <1>1, <1>a, <2>1, OthersRefs, RefClose
  <1>6. GateInv(p)'
    BY <1>0, <1>a, <1>k DEF GateInv, Gated, LocalInv, InodeInv, CoreOK,
       LocalOK,
       SuperOK, InIattach, InIdetach, Arets, Drets
  <1>7. LocalInv(p)'
    BY <1>0, <1>a, <1>k DEF LocalInv, LocalOK, InIattach, InIdetach, Arets,
       Drets
  <1>8. InodeInv(p)'
    BY <1>0, <1>a, <1>k DEF GateInv, Gated, LocalInv, InodeInv, CoreOK,
       LocalOK,
       InIattach, InIdetach, Arets, Drets
  <1>9. /\ scur' = scur /\ (mlock' = mlock \/ mlock \in {p, Free})
        /\ list' = list \/ mlock = p
        /\ \A s \in Slots : gate'[s] = gate[s] \/ gate[s] \in {p, Free}
        /\ \A s \in Slots : ino'[s] = ino[s] \/ (refc[s] = 0 /\ gate[s] = Free)
        /\ \A i \in Files : namer'[i] = namer[i] \/ namer[i] \in {p, Free}
        /\ \A i \in Files : names[i] > 0 => names'[i] > 0 \/ namer[i] = p
    BY <1>0, <1>a, <1>k DEF CoreOK, SuperOK, GateInv, Gated, LocalInv,
       InIattach, InIdetach, Arets, Drets
  <1>10. \A s, t \in Slots : s # t /\ ino'[s] # 0 => ino'[s] # ino'[t]
    BY <1>0, <1>a, <1>k DEF CoreOK, OneSlot
  <1> QED
    BY <1>1, <1>2, <1>3, <1>4, <1>5, <1>6, <1>7, <1>8, <1>9, <1>10, CoreIInv

LEMMA icloseIInv ==
  ASSUME IInv, NEW p \in Procs, iclose(p)
  PROVE  IInv'
  <1>0. /\ CoreOK /\ SuperOK /\ LocalOK /\ OneSlot /\ BadInv /\ RefsCounted
        /\ GateInv(p) /\ LocalInv(p) /\ InodeInv(p)
    BY Types DEF IInv, OneSlot
  <1> USE IcacheAssumption
  <1> USE DEF iclose, CallIdetach, Running, Goto, Yield, core, super, dirs,
     locals, syncvars
  <1>a. /\ pc[p] = "clock" /\ ip[p] \in Slots /\ ip[p] # 0
        /\ ino[ip[p]] \in Files /\ gate[ip[p]] = Free /\ Files \subseteq Inos
    BY <1>0 DEF LocalInv, InodeInv, Slots, Files
  <1>k. \A q \in Procs : pc[q] = "icopydm" => pc'[q] = "icopydm" /\ ip'[q] = ip[q]
    BY <1>0, <1>a DEF LocalOK
  <1>1. OnlyLocals(p) /\ LocalOK'
    BY <1>0, <1>a, <1>k DEF OnlyLocals, LocalOK, Locs, Arets, Drets
  <1>2. SuperOK'
    BY <1>0, <1>a, <1>k DEF SuperOK
  <1>3. CoreOK'
    BY <1>0, <1>a, <1>k DEF CoreOK
  <1>4. BadInv'
    BY <1>0, <1>a, <1>k, BadKept DEF BadInv, CoreOK, Files
  <1>5. RefsCounted'
    BY <1>0, <1>a, <1>k, RefSame DEF Attached, LocalOK
  <1>6. GateInv(p)'
    BY <1>0, <1>a, <1>k DEF GateInv, Gated, LocalInv, InodeInv, CoreOK,
       LocalOK,
       SuperOK, InIattach, InIdetach, Arets, Drets
  <1>7. LocalInv(p)'
    BY <1>0, <1>a, <1>k DEF LocalInv, LocalOK, InIattach, InIdetach, Arets,
       Drets
  <1>8. InodeInv(p)'
    BY <1>0, <1>a, <1>k DEF GateInv, Gated, LocalInv, InodeInv, CoreOK,
       LocalOK,
       InIattach, InIdetach, Arets, Drets
  <1>9. /\ scur' = scur /\ (mlock' = mlock \/ mlock \in {p, Free})
        /\ list' = list \/ mlock = p
        /\ \A s \in Slots : gate'[s] = gate[s] \/ gate[s] \in {p, Free}
        /\ \A s \in Slots : ino'[s] = ino[s] \/ (refc[s] = 0 /\ gate[s] = Free)
        /\ \A i \in Files : namer'[i] = namer[i] \/ namer[i] \in {p, Free}
        /\ \A i \in Files : names[i] > 0 => names'[i] > 0 \/ namer[i] = p
    BY <1>0, <1>a, <1>k DEF CoreOK, SuperOK, GateInv, Gated, LocalInv,
       InIattach, InIdetach, Arets, Drets
  <1>10. \A s, t \in Slots : s # t /\ ino'[s] # 0 => ino'[s] # ino'[t]
    BY <1>0, <1>a, <1>k DEF CoreOK, OneSlot
  <1> QED
    BY <1>1, <1>2, <1>3, <1>4, <1>5, <1>6, <1>7, <1>8, <1>9, <1>10, CoreIInv

(***************************************************************************)
(* unlink holds the directory from before iattach until the entry is gone. *)
(***************************************************************************)
LEMMA unnameIInv ==
  ASSUME IInv, NEW p \in Procs, unname(p)
  PROVE  IInv'
  <1>0. /\ CoreOK /\ SuperOK /\ LocalOK /\ OneSlot /\ BadInv /\ RefsCounted
        /\ GateInv(p) /\ LocalInv(p) /\ InodeInv(p)
    BY Types DEF IInv, OneSlot
  <1> USE IcacheAssumption
  <1> USE DEF unname, CallIdetach, Running, Goto, Yield, core, super, dirs,
     locals, syncvars
  <1>a. /\ pc[p] = "unname" /\ ip[p] \in Slots /\ ip[p] # 0 /\ gate[ip[p]] = p
        /\ ino[ip[p]] \in Files
    BY <1>0 DEF GateInv, Gated, InodeInv, LocalInv, Slots
  <1>b. /\ want[p] \in Files /\ namer[want[p]] = p /\ names[want[p]] > 0
        /\ names[want[p]] - 1 \in Nat
    BY <1>0, <1>a DEF LocalInv, GateInv, SuperOK
  <1>c. val' \in [Slots -> Values] /\ \A s \in Slots : s # ip[p] => val'[s] = val[s]
    <2>1. val \in [Slots -> Values]
      BY <1>0 DEF CoreOK
    <2>2. [val[ip[p]] EXCEPT !.nlink = IF @ > 0 THEN @ - 1 ELSE @] \in Values
      BY <1>a, <2>1 DEF Values
    <2> QED
      BY <1>a, <2>1, <2>2
  <1>k. \A q \in Procs : pc[q] = "icopydm" => pc'[q] = "icopydm" /\ ip'[q] = ip[q]
    BY <1>0, <1>a DEF LocalOK
  <1>1. OnlyLocals(p) /\ LocalOK'
    BY <1>0, <1>a, <1>b, <1>c, <1>k DEF OnlyLocals, LocalOK, Locs, Arets, Drets
  <1>2. SuperOK'
    BY <1>0, <1>a, <1>b, <1>c, <1>k DEF SuperOK
  <1>3. CoreOK'
    BY <1>0, <1>a, <1>b, <1>c, <1>k DEF CoreOK
  <1>4. BadInv'
    BY <1>0, <1>a, <1>c, <1>k, BadKept DEF BadInv, CoreOK, Files
  <1>5. RefsCounted'
    BY <1>0, <1>a, <1>b, <1>c, <1>k, RefSame DEF Attached, LocalOK
  <1>6. GateInv(p)'
    BY <1>0, <1>a, <1>b, <1>c, <1>k DEF GateInv, Gated, LocalInv, InodeInv,
       CoreOK, LocalOK, SuperOK, InIattach, InIdetach, Arets, Drets
  <1>7. LocalInv(p)'
    BY <1>0, <1>a, <1>b, <1>c, <1>k DEF LocalInv, LocalOK, InIattach,
       InIdetach,
       Arets, Drets
  <1>8. InodeInv(p)'
    BY <1>0, <1>a, <1>b, <1>c, <1>k DEF GateInv, Gated, LocalInv, InodeInv,
       CoreOK, LocalOK, InIattach, InIdetach, Arets, Drets
  <1>9. /\ scur' = scur /\ (mlock' = mlock \/ mlock \in {p, Free})
        /\ list' = list \/ mlock = p
        /\ \A s \in Slots : gate'[s] = gate[s] \/ gate[s] \in {p, Free}
        /\ \A s \in Slots : ino'[s] = ino[s] \/ (refc[s] = 0 /\ gate[s] = Free)
        /\ \A i \in Files : namer'[i] = namer[i] \/ namer[i] \in {p, Free}
        /\ \A i \in Files : names[i] > 0 => names'[i] > 0 \/ namer[i] = p
    BY <1>0, <1>a, <1>b, <1>c, <1>k DEF CoreOK, SuperOK, GateInv, Gated,
       LocalInv, InIattach, InIdetach, Arets, Drets
  <1>10. \A s, t \in Slots : s # t /\ ino'[s] # 0 => ino'[s] # ino'[t]
    BY <1>0, <1>a, <1>b, <1>c, <1>k DEF CoreOK, OneSlot
  <1> QED
    BY <1>1, <1>2, <1>3, <1>4, <1>5, <1>6, <1>7, <1>8, <1>9, <1>10, CoreIInv

-----------------------------------------------------------------------------
(* sync.                                                                   *)

(***************************************************************************)
(* sync changes no process's variables and no structure but its flag, and  *)
(* the bad block file, which is never modified, is not what it writes.     *)
(***************************************************************************)
LEMMA syncIInv ==
  ASSUME IInv, UNCHANGED <<ino, refc, gate, val, super, dirs, pc, locals>>,
         cpu' \in Procs \union {NoProc, Syncer},
         flag' \in [Slots -> BOOLEAN], \A s \in Slots : flag'[s] => flag[s],
         dino' \in [Inos -> Values], dino'[BADFIN] = dino[BADFIN],
         SyncOK', scur'[2] # BADFIN
  PROVE  IInv'
  <1>0. TypeOK /\ TypeInv /\ OneSlot /\ BadInv /\ RefsCounted
    BY DEF IInv, OneSlot
  <1> USE DEF super, dirs, locals
  <1>1. TypeOK' /\ TypeInv'
    BY <1>0 DEF TypeOK, TypeInv, SyncOK
  <1>2. OneSlot'
    BY <1>0, <1>1 DEF OneSlot
  <1>3. BadInv'
    BY <1>0, BadKept
  <1>4. RefsCounted'
    BY <1>0, RefSame DEF Attached
  <1>5. ASSUME NEW q \in Procs PROVE GateInv(q)' /\ LocalInv(q)' /\ InodeInv(q)'
    BY DEF IInv, GateInv, LocalInv, InodeInv, Gated
  <1> QED
    BY <1>1, <1>2, <1>3, <1>4, <1>5 DEF IInv

LEMMA SyncIInv ==
  ASSUME IInv, Sync
  PROVE  IInv'
  <1>0. TypeOK /\ TypeInv /\ BadInv /\ SyncOK
    BY DEF IInv, OneSlot, TypeInv, SyncOK
  <1> USE DEF core
  <1>1. CASE usync
    BY <1>0, <1>1, syncIInv DEF usync, TypeOK, SyncOK, BadInv
  <1>2. ASSUME NEW s \in Slots, isync(s) PROVE IInv'
    <2>1. CASE refc[s] # 0 /\ flag[s]
      <3>1. scur' = <<s, ino[s], val[s]>> /\ cpu' = NoProc
        BY <1>2, <2>1 DEF isync
      <3>2. ino[s] \in 0 .. NINO /\ val[s] \in Values /\ s \in 0 .. NINODE
        BY <1>0, <2>1, IcacheAssumption DEF TypeOK, Slots
      <3>3. SyncOK' /\ scur'[2] # BADFIN
        <4>1. ino[s] # BADFIN
          BY <1>0, <2>1 DEF BadInv
        <4> QED
          BY <3>1, <3>2, <4>1 DEF SyncOK
      <3> QED
        BY <1>0, <1>2, <3>1, <3>3, syncIInv DEF isync, TypeOK
    <2>2. CASE ~(refc[s] # 0 /\ flag[s])
      BY <1>0, <1>2, <2>2, syncIInv DEF isync, TypeOK, SyncOK, BadInv
    <2> QED
      BY <2>1, <2>2
  <1>3. CASE isyncDone
    <2>1. Clear \in Values /\ BADFIN # 0
      BY IcacheAssumption DEF Clear, Inode, Values, BADFIN
    <2>2. scur' = <<0, 0, Clear>>
      BY <1>3 DEF isyncDone
    <2>3. SyncOK' /\ scur'[2] # BADFIN
      BY <2>1, <2>2, IcacheAssumption DEF SyncOK
    <2>4. scur[3] \in Values
      BY <1>0 DEF SyncOK
    <2>5. dino' \in [Inos -> Values] /\ dino'[BADFIN] = dino[BADFIN]
      <3>1. dino' = [dino EXCEPT ![scur[2]] = scur[3]] /\ dino \in [Inos -> Values]
        BY <1>0, <1>3 DEF isyncDone, TypeOK
      <3>2. scur[2] # BADFIN
        BY <1>0 DEF BadInv
      <3>3. BADFIN \in Inos
        BY IcacheAssumption DEF BADFIN, Inos
      <3> QED
        BY <2>4, <3>1, <3>2, <3>3
    <2>6. flag' \in [Slots -> BOOLEAN] /\ \A s \in Slots : flag'[s] => flag[s]
      BY <1>0, <1>3 DEF isyncDone, TypeOK
    <2> QED
      BY <1>3, <2>3, <2>5, <2>6, syncIInv DEF isyncDone
  <1>4. CASE isyncEnd
    BY <1>0, <1>4, syncIInv DEF isyncEnd, TypeOK, SyncOK, BadInv
  <1> QED
    BY <1>1, <1>2, <1>3, <1>4 DEF Sync

-----------------------------------------------------------------------------
(* The theorems.                                                           *)

LEMMA StutterIInv ==
  ASSUME IInv, UNCHANGED vars
  PROVE  IInv'
  <1>1. UNCHANGED <<core, dino, super, dirs, pc, locals, cpu, scur>>
    BY DEF vars, core, super, dirs, locals
  <1>2. TypeOK /\ TypeInv /\ BadInv /\ SyncOK
    BY DEF IInv, OneSlot, TypeInv, SyncOK
  <1> QED
    BY <1>1, <1>2, syncIInv DEF core, TypeOK, SyncOK, BadInv

LEMMA NextIInv == IInv /\ [Next]_vars => IInv'
  <1> SUFFICES ASSUME IInv, [Next]_vars PROVE IInv'
    OBVIOUS
  <1>1. ASSUME NEW p \in Procs, Alloc(p) PROVE IInv'
    BY <1>1, iallocIInv, haveIInv, badIInv, relockIInv, scanIInv, takeIInv,
       takenIInv, attachedIInv DEF Alloc
  <1>2. ASSUME NEW p \in Procs, Creat(p) \/ Open(p) PROVE IInv'
    BY <1>2, ucreatIInv, idirentIInv, idirentFailedIInv, failedIInv, ftoiIInv, ftoiEndIInv,
       uopenIInv
       DEF Creat, Open
  <1>3. ASSUME NEW p \in Procs, Write(p) \/ Close(p) \/ Unlink(p) PROVE IInv'
    BY <1>3, uwriteIInv, iwriteIInv, fwriteIInv, ucloseIInv, icloseIInv,
       uunlinkIInv, unlinkAttachedIInv, unnameIInv DEF Write, Close, Unlink
  <1> QED
    BY <1>1, <1>2, <1>3, lockIInv, AttachIInv, DetachIInv, SyncIInv,
       StutterIInv
       DEF Next, rest

THEOREM IcacheInvariant == Spec => []IInv
  BY InitIInv, NextIInv, PTL DEF Spec

(***************************************************************************)
(* Whatever iattach sleeps for, two structures never hold the same inode.  *)
(***************************************************************************)
THEOREM IcacheOneSlot == Spec => []OneSlot
  <1>1. IInv => OneSlot
    BY DEF IInv
  <1> QED
    BY <1>1, IcacheInvariant, PTL

(***************************************************************************)
(* The count of a structure is the number of files and calls that have it. *)
(***************************************************************************)
THEOREM IcacheRefsCounted == Spec => []RefsCounted
  <1>1. IInv => RefsCounted
    BY DEF IInv
  <1> QED
    BY <1>1, IcacheInvariant, PTL

-----------------------------------------------------------------------------
(* Names and links.                                                        *)

\* n entries name an inode that is v.
Right(n, v) == n = v.nlink /\ (n > 0 => v.mode)

\* The dinode says what the structure says, but for the version.
SameLinks(d, v) == d.nlink = v.nlink /\ d.mode = v.mode

\* The structure is being read from the dinode; it is new and has no name yet.
Reading(s) == \E p \in Procs : pc[p] = "icopydm" /\ ip[p] = s
Naming(s) == \E p \in Procs : pc[p] = "idirent" /\ ip[p] = s

\* The structure s and its dinode agree with the names of its inode.
SlotRight(s) ==
  ino[s] \in Files =>
    LET i == ino[s]
    IN  /\ Reading(s) => Right(Links[i], dino[i])
        /\ Naming(s) => Links[i] = 0 /\ val[s].nlink = 1 /\ val[s].mode
        /\ ~Reading(s) /\ ~Naming(s) =>
             Right(Links[i], val[s]) /\ (flag[s] \/ SameLinks(dino[i], val[s]))
        /\ refc[s] = 0 /\ gate[s] = Free => ~flag[s]

\* An inode that is in no structure.
DiskRight(i) == (\A s \in Slots : ino[s] # i) => Right(Links[i], dino[i])

\* What unlink and idetach know of the structure they have.
NameLocal(p) ==
  /\ pc[p] = "unname" => want[p] = ino[ip[p]]
  /\ pc[p] = "iclear" => val[ip[p]].nlink = 0

NInv ==
  /\ spc = "icopymd" => scur[1] \in Slots
  /\ \A p \in Procs : NameLocal(p)
  /\ ~overtaken => /\ \A s \in Slots : SlotRight(s)
                   /\ \A i \in Files : DiskRight(i)

\* The structures a step of p may put among those nobody uses.
StaysUsed ==
  \A s \in Slots : refc'[s] = 0 /\ gate'[s] = Free => refc[s] = 0 /\ gate[s] = Free

\* Nobody else moves in a step of p.
OthersStay(p) ==
  \A q \in Procs : q # p => pc'[q] = pc[q] /\ ip'[q] = ip[q] /\ want'[q] = want[q]

LEMMA InitNInv == Init => NInv
  <1> SUFFICES ASSUME Init PROVE NInv
    OBVIOUS
  <1> USE IcacheAssumption DEF Init
  <1>1. \A s \in Slots : SlotRight(s)
    BY DEF SlotRight, Files, Inos
  <1>2. \A i \in Files : DiskRight(i)
    BY DEF DiskRight, Links, Right, Clear, Inode, Files, Inos
  <1> QED
    BY <1>1, <1>2 DEF NInv, NameLocal

LEMMA LinksType ==
  ASSUME IInv
  PROVE  Links \in [Files -> Nat]
  BY DEF IInv, OneSlot, TypeOK, Links

(***************************************************************************)
(* Only one process is at a structure whose gate is closed.                *)
(***************************************************************************)
LEMMA AloneAt ==
  ASSUME IInv, NEW p \in Procs, Gated(p)
  PROVE  /\ ip[p] \in Slots /\ gate[ip[p]] = p /\ p # Free
         /\ Reading(ip[p]) <=> pc[p] = "icopydm"
         /\ Naming(ip[p]) <=> pc[p] = "idirent"
  <1>1. ip[p] \in Slots /\ gate[ip[p]] = p /\ p # Free
    BY IcacheAssumption DEF IInv, GateInv
  <1>2. \A q \in Procs : pc[q] \in {"icopydm", "idirent"} => Gated(q) /\ gate[ip[q]] = q
    BY DEF IInv, GateInv, Gated
  <1> QED
    BY <1>1, <1>2 DEF Reading, Naming

LEMMA OpenAt ==
  ASSUME IInv, NEW s \in Slots, gate[s] = Free
  PROVE  ~Reading(s) /\ ~Naming(s)
  <1>1. \A q \in Procs : pc[q] \in {"icopydm", "idirent"} => gate[ip[q]] = q
    BY DEF IInv, GateInv, Gated
  <1> QED
    BY <1>1, IcacheAssumption DEF Reading, Naming

(***************************************************************************)
(* A step of p that reads and names nothing.                               *)
(***************************************************************************)
LEMMA ReadingSame ==
  ASSUME NEW p \in Procs, OthersStay(p),
         pc[p] \notin {"icopydm", "idirent"}, pc'[p] \notin {"icopydm", "idirent"}
  PROVE  \A s : (Reading(s)' <=> Reading(s)) /\ (Naming(s)' <=> Naming(s))
  BY DEF Reading, Naming, OthersStay

(***************************************************************************)
(* A step of p that changes neither names nor inodes.                      *)
(***************************************************************************)
LEMMA QuietNInv ==
  ASSUME IInv, NInv, NEW p \in Procs, OthersStay(p), StaysUsed,
         pc[p] \notin {"icopydm", "idirent"},
         pc'[p] \notin {"icopydm", "idirent", "unname", "iclear"},
         UNCHANGED <<ino, val, dino, Links, flag, spc, scur, overtaken>>
  PROVE  NInv'
  <1>1. \A s : (Reading(s)' <=> Reading(s)) /\ (Naming(s)' <=> Naming(s))
    BY ReadingSame
  <1>2. \A s \in Slots : SlotRight(s) => SlotRight(s)'
    BY <1>1 DEF SlotRight, StaysUsed, Right, SameLinks
  <1>3. \A i \in Files : DiskRight(i) => DiskRight(i)'
    BY DEF DiskRight, Right
  <1>4. \A q \in Procs : NameLocal(q)'
    BY DEF NInv, NameLocal, OthersStay
  <1> QED
    BY <1>2, <1>3, <1>4 DEF NInv

(***************************************************************************)
(* A step of p at a structure whose gate it has.                           *)
(***************************************************************************)
LEMMA AtNInv ==
  ASSUME IInv, NInv, NEW p \in Procs, NEW s \in Slots, OthersStay(p), NameLocal(p)',
         ip[p] = s, gate[s] \in {p, Free}, ino' = ino,
         pc'[p] # "icopydm", pc'[p] = "idirent" => ip'[p] = s,
         \A t \in Slots : t # s =>
           /\ val'[t] = val[t] /\ flag'[t] = flag[t] /\ refc'[t] = refc[t]
           /\ gate'[t] = gate[t],
         \A i \in Files : i # ino[s] => Links'[i] = Links[i] /\ dino'[i] = dino[i],
         UNCHANGED <<spc, scur, overtaken>>, ~overtaken => SlotRight(s)'
  PROVE  NInv'
  <1>1. OneSlot
    BY DEF IInv
  <1>3. ASSUME NEW t \in Slots, t # s, SlotRight(t), ino[t] \in Files
        PROVE  SlotRight(t)'
    <2>1. (Reading(t)' <=> Reading(t)) /\ (Naming(t)' <=> Naming(t))
      BY <1>3 DEF Reading, Naming, OthersStay
    <2>2. ino[t] # ino[s]
      BY <1>1, <1>3 DEF OneSlot, Files, Inos
    <2> QED
      BY <1>3, <2>1, <2>2 DEF SlotRight, Right, SameLinks
  <1>4. \A i \in Files : DiskRight(i) => DiskRight(i)'
    BY DEF DiskRight, Right
  <1>5. \A t \in Slots : ino[t] \notin Files => SlotRight(t)'
    BY DEF SlotRight
  <1>6. ASSUME NEW q \in Procs, q # p, pc[q] \in {"unname", "iclear"}
        PROVE  NameLocal(q)'
    <2>1. ip[q] \in Slots /\ gate[ip[q]] = q
      BY <1>6 DEF IInv, GateInv, Gated, InIdetach
    <2>2. ip[q] # s
      BY <1>6, <2>1, IcacheAssumption
    <2> QED
      BY <1>6, <2>1, <2>2 DEF NInv, NameLocal, OthersStay
  <1>7. \A q \in Procs : NameLocal(q)'
    BY <1>6 DEF NameLocal, OthersStay
  <1> QED
    BY <1>3, <1>4, <1>5, <1>7 DEF NInv

(***************************************************************************)
(* The steps that move a process, close a gate or fill the list.           *)
(***************************************************************************)
LEMMA MovesNInv ==
  ASSUME IInv, NInv, NEW p \in Procs,
         \/ lock(p) \/ ifree(p) \/ ifreed(p) \/ icopymd(p) \/ ialloc(p) \/ have(p)
         \/ bad(p) \/ relock(p) \/ scan(p) \/ take(p) \/ taken(p)
         \/ ucreat(p) \/ failed(p) \/ (\E i \in Files : ftoi(p, i)) \/ ftoiEnd(p)
         \/ uwrite(p) \/ uclose(p) \/ (\E i \in Files : uunlink(p, i))
  PROVE  NInv'
  <1>0. /\ pc \in [Procs -> Locs] /\ ip \in [Procs -> 0 .. NINODE]
        /\ want \in [Procs -> 0 .. NINO]
    BY DEF IInv, OneSlot, TypeOK, TypeInv
  <1>1. StaysUsed /\ UNCHANGED <<ino, val, dino, Links, flag, spc, scur, overtaken>>
    BY DEF lock, ifree, ifreed, icopymd, ialloc, have, bad, relock, scan, take,
           taken, ucreat, failed, ftoi, ftoiEnd, uwrite, uclose, uunlink,
           core, syncvars, dirs, Links, StaysUsed
  <1>2. \A q \in Procs : q # p => ip'[q] = ip[q] /\ want'[q] = want[q]
    BY <1>0 DEF lock, ifree, ifreed, icopymd, ialloc, have, bad, relock, scan,
       take,
           taken, ucreat, failed, ftoi, ftoiEnd, uwrite, uclose, uunlink,
           locals, Return, CallIattach
  <1>3. PICK l \in Locs \ {"icopydm", "idirent", "unname", "iclear"} :
           pc' = [pc EXCEPT ![p] = l] /\ pc[p] \notin {"icopydm", "idirent"}
    <2>1. CASE lock(p)
      BY <1>0, <2>1 DEF lock, Locs
    <2>2. CASE ifree(p) \/ ifreed(p) \/ icopymd(p) \/ ialloc(p) \/ have(p) \/ bad(p)
      BY <1>0, <2>2 DEF ifree, ifreed, icopymd, ialloc, have, bad, Running,
         Goto,
                        Yield, CallIattach, CallIdetach, Locs
    <2>3. CASE relock(p) \/ scan(p) \/ take(p) \/ taken(p) \/ ucreat(p)
      BY <1>0, <2>3 DEF relock, scan, take, taken, ucreat, Call, Running,
         Goto, Yield,
                        CallIattach, Locs
    <2>4. CASE failed(p) \/ (\E i \in Files : ftoi(p, i)) \/ ftoiEnd(p) \/ uwrite(p)
      BY <1>0, <2>4 DEF failed, ftoi, ftoiEnd, uwrite, Call, Running, Goto,
         Yield,
                        CallIattach, Return, Locs
    <2>5. CASE uclose(p) \/ (\E i \in Files : uunlink(p, i))
      BY <1>0, <2>5 DEF uclose, uunlink, Call, Running, Goto, CallIattach, Locs
    <2> QED
      BY <2>1, <2>2, <2>3, <2>4, <2>5
  <1>4. OthersStay(p) /\ pc'[p] = l
    BY <1>0, <1>2, <1>3 DEF OthersStay
  <1> QED
    BY <1>1, <1>3, <1>4, QuietNInv

LEMMA SearchNInv ==
  ASSUME IInv, NInv, NEW p \in Procs,
         \/ iattach(p) \/ ilock(p)
         \/ victim(p) /\ (refc[ip[p]] # 0 \/ \E s \in Slots : ino[s] = want[p])
  PROVE  NInv'
  <1>0. /\ pc \in [Procs -> Locs] /\ ip \in [Procs -> 0 .. NINODE]
        /\ refc \in [Slots -> Nat] /\ gate \in [Slots -> Procs \union {Free}]
        /\ LocalInv(p)
    BY DEF IInv, OneSlot, TypeOK, TypeInv
  <1>1. UNCHANGED <<ino, val, dino, Links, flag, spc, scur, overtaken, want>>
    BY DEF iattach, ilock, victim, core, syncvars, dirs, Links, locals
  <1>2. StaysUsed
    <2>1. CASE ilock(p)
      <3>1. ip[p] \in Slots
        BY <1>0, <2>1 DEF ilock, Running, LocalInv
      <3> QED
        BY <1>0, <2>1, <3>1 DEF ilock, StaysUsed
    <2> QED
      BY <2>1 DEF iattach, victim, core, StaysUsed
  <1>3. \A q \in Procs : q # p => ip'[q] = ip[q]
    BY <1>0 DEF iattach, ilock, victim, locals
  <1>4. PICK l \in Locs \ {"icopydm", "idirent", "unname", "iclear"} :
           pc' = [pc EXCEPT ![p] = l] /\ pc[p] \notin {"icopydm", "idirent"}
    <2>1. pc[p] \in InIattach \ {"icopydm"}
      BY DEF iattach, ilock, victim, Running, InIattach
    <2>2. aret[p] \in Arets
      BY <1>0, <2>1 DEF LocalInv, InIattach
    <2> QED
      BY <1>0, <2>1, <2>2 DEF iattach, ilock, victim, Goto, InIattach, Arets,
         Locs
  <1>5. OthersStay(p) /\ pc'[p] = l
    BY <1>0, <1>1, <1>3, <1>4 DEF OthersStay
  <1> QED
    BY <1>1, <1>2, <1>4, <1>5, QuietNInv

LEMMA icloseNInv ==
  ASSUME IInv, NInv, NEW p \in Procs, iclose(p)
  PROVE  NInv'
  <1>0. /\ pc \in [Procs -> Locs] /\ gate \in [Slots -> Procs \union {Free}]
        /\ ip[p] \in Slots /\ p # Free
    BY IcacheAssumption DEF IInv, OneSlot, TypeOK, TypeInv, LocalInv, iclose,
       Running
  <1>1. UNCHANGED <<ino, val, dino, Links, flag, spc, scur, overtaken, want, ip>>
    BY DEF iclose, syncvars, dirs, Links
  <1>2. StaysUsed
    BY <1>0 DEF iclose, StaysUsed
  <1>3. pc' = [pc EXCEPT ![p] = "idetach"] /\ pc[p] = "clock"
    BY DEF iclose, CallIdetach, Goto, Running
  <1>4. OthersStay(p) /\ pc'[p] = "idetach"
    BY <1>0, <1>1, <1>3 DEF OthersStay
  <1> QED
    BY <1>1, <1>2, <1>3, <1>4, QuietNInv

LEMMA uopenNInv ==
  ASSUME IInv, NInv, NEW p \in Procs, uopen(p)
  PROVE  NInv'
  <1>0. /\ pc \in [Procs -> Locs] /\ gate \in [Slots -> Procs \union {Free}]
        /\ ip \in [Procs -> 0 .. NINODE] /\ want \in [Procs -> 0 .. NINO]
        /\ RefsCounted /\ refc \in [Slots -> Nat]
    BY DEF IInv, OneSlot, TypeOK, TypeInv
  <1>1. UNCHANGED <<ino, refc, val, dino, Links, flag, spc, scur, overtaken>>
    BY DEF uopen, syncvars, dirs, Links
  <1>2. \A q \in Procs : q # p => ip'[q] = ip[q] /\ want'[q] = want[q]
    BY <1>0 DEF uopen, Return
  <1>3. StaysUsed
    <2>1. ip[p] # 0 => ip[p] \in Slots /\ refc[ip[p]] >= 1
      BY <1>0, Referred DEF uopen, Running, Attached, Slots
    <2>2. \A s \in Slots : gate'[s] = gate[s] \/ (s = ip[p] /\ ip[p] # 0)
      BY <1>0 DEF uopen
    <2> QED
      BY <1>0, <1>1, <2>1, <2>2 DEF StaysUsed
  <1>4. PICK l \in {"user", "idetach"} : pc' = [pc EXCEPT ![p] = l]
    BY DEF uopen, Return, Yield, CallIdetach, Goto
  <1>5. pc[p] = "open"
    BY DEF uopen, Running
  <1>6. OthersStay(p) /\ pc'[p] = l
    BY <1>0, <1>2, <1>4 DEF OthersStay
  <1> QED
    BY <1>1, <1>3, <1>4, <1>5, <1>6, QuietNInv

LEMMA unlinkAttachedNInv ==
  ASSUME IInv, NInv, NEW p \in Procs, unlinkAttached(p)
  PROVE  NInv'
  <1>0. pc \in [Procs -> Locs] /\ pc[p] = "unlink" /\ InodeInv(p)
    BY DEF IInv, TypeInv, unlinkAttached, Running
  <1>1. UNCHANGED <<ino, val, dino, Links, flag, refc, gate, spc, scur, overtaken,
                    want, ip>>
    BY DEF unlinkAttached, syncvars, core, locals, Links
  <1>2. CASE ip[p] # 0
    <2>1. pc' = [pc EXCEPT ![p] = "unname"]
      BY <1>2 DEF unlinkAttached, Yield
    <2>2. \A s : (Reading(s)' <=> Reading(s)) /\ (Naming(s)' <=> Naming(s))
      <3>1. OthersStay(p) /\ pc'[p] = "unname"
        BY <1>0, <1>1, <2>1 DEF OthersStay
      <3> QED
        BY <1>0, <3>1, ReadingSame
    <2>3. \A s \in Slots : SlotRight(s) => SlotRight(s)'
      BY <1>1, <2>2 DEF SlotRight, Right, SameLinks
    <2>4. \A i \in Files : DiskRight(i) => DiskRight(i)'
      BY <1>1 DEF DiskRight, Right
    <2>5. want[p] = ino[ip[p]]
      BY <1>0, <1>2 DEF InodeInv
    <2>6. \A q \in Procs : NameLocal(q)'
      BY <1>0, <1>1, <2>1, <2>5 DEF NInv, NameLocal
    <2> QED
      BY <1>1, <2>3, <2>4, <2>6 DEF NInv
  <1>3. CASE ip[p] = 0
    <2>1. pc' = [pc EXCEPT ![p] = "failed"]
      BY <1>3 DEF unlinkAttached, Goto
    <2>2. StaysUsed /\ OthersStay(p) /\ pc'[p] = "failed"
      BY <1>0, <1>1, <2>1 DEF StaysUsed, OthersStay
    <2> QED
      BY <1>0, <1>1, <2>2, QuietNInv
  <1> QED
    BY <1>2, <1>3

(***************************************************************************)
(* The steps at a structure.                                               *)
(***************************************************************************)
LEMMA installNInv ==
  ASSUME IInv, NInv, NEW p \in Procs, victim(p),
         ~(refc[ip[p]] # 0 \/ \E s \in Slots : ino[s] = want[p])
  PROVE  NInv'
  <1>a. PICK s, i : s = ip[p] /\ i = want[p]
    OBVIOUS
  <1>0. /\ pc \in [Procs -> Locs] /\ OneSlot /\ ino \in [Slots -> 0 .. NINO]
        /\ gate \in [Slots -> Procs \union {Free}] /\ flag \in [Slots -> BOOLEAN]
        /\ refc \in [Slots -> Nat] /\ s \in Slots /\ gate[s] = Free /\ pc[p] = "victim"
        /\ p # Free
    BY <1>a, IcacheAssumption
       DEF IInv, OneSlot, TypeOK, TypeInv, LocalInv, victim, Running
  <1>1. /\ ino' = [ino EXCEPT ![s] = i] /\ gate' = [gate EXCEPT ![s] = p]
        /\ refc' = [refc EXCEPT ![s] = 1] /\ flag' = [flag EXCEPT ![s] = FALSE]
        /\ pc' = [pc EXCEPT ![p] = "icopydm"]
        /\ UNCHANGED <<val, dino, Links, want, ip, spc, scur, overtaken>>
    BY <1>a DEF victim, Install, Yield, dirs, Links, locals, syncvars
  <1>2. ~Reading(s) /\ ~Naming(s)
    BY <1>0, OpenAt
  <1>b. refc[s] = 0 /\ \A t \in Slots : ino[t] # i
    BY <1>a
  <1>3. Reading(s)' /\ ~Naming(s)'
    BY <1>0, <1>1, <1>2, <1>a DEF Reading, Naming
  <1>4. \A t \in Slots : t # s => (Reading(t)' <=> Reading(t)) /\ (Naming(t)' <=> Naming(t))
    BY <1>0, <1>1, <1>a DEF Reading, Naming
  <1>5. ASSUME ~overtaken
        PROVE  (\A t \in Slots : SlotRight(t)') /\ \A j \in Files : DiskRight(j)'
    <2>1. (\A t \in Slots : SlotRight(t)) /\ \A j \in Files : DiskRight(j)
      BY <1>5 DEF NInv
    <2>2. SlotRight(s)'
      <3>1. i \in Files => Right(Links[i], dino[i])
        BY <2>1, <1>b DEF DiskRight
      <3>2. ino'[s] = i /\ refc'[s] = 1
        BY <1>0, <1>1
      <3> QED
        BY <1>1, <1>3, <3>1, <3>2 DEF SlotRight, Right
    <2>3. ASSUME NEW t \in Slots, t # s PROVE SlotRight(t)'
      <3>1. /\ ino'[t] = ino[t] /\ gate'[t] = gate[t] /\ refc'[t] = refc[t]
            /\ flag'[t] = flag[t] /\ val'[t] = val[t]
        BY <1>0, <1>1, <2>3
      <3> QED
        BY <1>1, <1>4, <2>1, <2>3, <3>1 DEF SlotRight, Right, SameLinks
    <2>4. ASSUME NEW j \in Files, \A t \in Slots : ino'[t] # j
          PROVE  Right(Links[j], dino[j])
      <3>1. CASE ino[s] = j
        BY <1>0, <1>2, <1>b, <2>1, <3>1 DEF SlotRight, Right, SameLinks
      <3>2. CASE ino[s] # j
        <4>1. \A t \in Slots : ino[t] # j
          BY <1>0, <1>1, <2>4, <3>2
        <4> QED
          BY <2>1, <4>1 DEF DiskRight
      <3> QED
        BY <3>1, <3>2
    <2>5. \A j \in Files : DiskRight(j)'
      BY <1>1, <2>4 DEF DiskRight, Right
    <2> QED
      BY <2>2, <2>3, <2>5
  <1>6. ASSUME NEW q \in Procs, pc'[q] \in {"unname", "iclear"} PROVE NameLocal(q)'
    <2>1. q # p /\ pc'[q] = pc[q] /\ ip'[q] = ip[q] /\ want'[q] = want[q]
      BY <1>0, <1>1, <1>6
    <2>2. gate[ip[q]] = q /\ ip[q] \in Slots
      BY <1>6, <2>1 DEF IInv, GateInv, Gated, InIdetach
    <2>3. ip[q] # s
      BY <1>0, <2>2, IcacheAssumption
    <2> QED
      BY <1>0, <1>1, <2>1, <2>2, <2>3 DEF NInv, NameLocal
  <1>7. \A q \in Procs : NameLocal(q)'
    BY <1>6 DEF NameLocal
  <1> QED
    BY <1>1, <1>5, <1>7 DEF NInv

LEMMA icopydmNInv ==
  ASSUME IInv, NInv, NEW p \in Procs, icopydm(p)
  PROVE  NInv'
  <1>a. PICK s : s = ip[p]
    OBVIOUS
  <1>b. pc[p] = "icopydm" /\ Gated(p)
    BY DEF icopydm, Running, Gated
  <1>0. /\ pc \in [Procs -> Locs] /\ val \in [Slots -> Values]
        /\ s \in Slots /\ gate[s] = p /\ p # Free
        /\ Reading(s) /\ ~Naming(s) /\ want[p] = ino[s] /\ aret[p] \in Arets
    BY <1>a, <1>b, AloneAt DEF IInv, OneSlot, TypeOK, TypeInv, InodeInv,
       LocalInv, InIattach
  <1>1. /\ val' = [val EXCEPT ![s] = dino[ino[s]]] /\ pc' = [pc EXCEPT ![p] = aret[p]]
        /\ UNCHANGED <<ino, refc, gate, flag, dino, Links, want, ip, spc, scur, overtaken>>
    BY <1>a, <1>0 DEF icopydm, Goto, dirs, Links, locals, syncvars
  <1>2. ~Reading(s)' /\ ~Naming(s)'
    <2>1. \A q \in Procs : pc[q] \in {"icopydm", "idirent"} /\ ip[q] = s => q = p
      BY <1>0 DEF IInv, GateInv, Gated
    <2> QED
      BY <1>0, <1>1, <2>1 DEF Reading, Naming, Arets
  <1>3. ~overtaken => SlotRight(s)'
    <2>1. val'[s] = dino[ino[s]]
      BY <1>0, <1>1
    <2> QED
      BY <1>0, <1>1, <1>2, <2>1, IcacheAssumption DEF NInv, SlotRight, Right,
         SameLinks
  <1>4. /\ pc'[p] \notin {"icopydm", "idirent"} /\ NameLocal(p)' /\ OthersStay(p)
        /\ \A t \in Slots : t # s => val'[t] = val[t]
    BY <1>0, <1>1 DEF Arets, NameLocal, OthersStay
  <1> QED
    BY <1>0, <1>1, <1>3, <1>4, <1>a, AtNInv

LEMMA idetachNInv ==
  ASSUME IInv, NInv, NEW p \in Procs, idetach(p)
  PROVE  NInv'
  <1>a. PICK s : s = ip[p]
    OBVIOUS
  <1>b. pc[p] = "idetach" /\ Gated(p)
    BY DEF idetach, Running, Gated, InIdetach
  <1>0. /\ pc \in [Procs -> Locs] /\ refc \in [Slots -> Nat] /\ ip \in [Procs -> 0 .. NINODE]
        /\ s \in Slots /\ gate[s] = p /\ p # Free /\ gate \in [Slots -> Procs \union {Free}]
        /\ ~Reading(s) /\ ~Naming(s) /\ dret[p] \in Drets
    BY <1>a, <1>b, AloneAt DEF IInv, OneSlot, TypeOK, TypeInv, LocalInv,
       InIdetach
  <1>1. /\ refc' = [refc EXCEPT ![s] = refc[s] - 1]
        /\ UNCHANGED <<ino, val, flag, dino, Links, want, ip, spc, scur, overtaken>>
    BY <1>a DEF idetach, dirs, Links, locals, syncvars
  <1>2. refc[s] >= 1
    <2>1. RefsCounted
      BY DEF IInv
    <2>2. Attached(p) /\ ip[p] = s
      BY <1>0, <1>a, <1>b, IcacheAssumption DEF Attached, Slots
    <2> QED
      BY <1>0, <2>1, <2>2, Referred
  <1>3. PICK l \in Locs \ {"icopydm", "idirent", "unname"} :
          pc' = [pc EXCEPT ![p] = l] /\ (l = "iclear" => val[s].nlink = 0)
    BY <1>0, <1>a DEF idetach, Goto, Yield, Drets, Locs
  <1>4. \A t \in Slots : t # s => gate'[t] = gate[t] /\ refc'[t] = refc[t]
    BY <1>0, <1>1, <1>a DEF idetach
  <1>5. refc'[s] = 0 /\ gate'[s] = Free => ~flag[s]
    BY <1>0, <1>1, <1>2, <1>a DEF idetach
  <1>c. OthersStay(p) /\ pc'[p] = l
    BY <1>0, <1>1, <1>3 DEF OthersStay
  <1>6. (Reading(s)' <=> Reading(s)) /\ (Naming(s)' <=> Naming(s))
    BY <1>3, <1>b, <1>c, ReadingSame
  <1>7. ~overtaken => SlotRight(s)'
    BY <1>0, <1>1, <1>5, <1>6 DEF NInv, SlotRight, Right, SameLinks
  <1>8. NameLocal(p)'
    BY <1>0, <1>1, <1>3, <1>a DEF NameLocal
  <1> QED
    BY <1>0, <1>1, <1>3, <1>4, <1>7, <1>8, <1>a, <1>c, AtNInv

LEMMA iclearNInv ==
  ASSUME IInv, NInv, NEW p \in Procs, iclear(p)
  PROVE  NInv'
  <1>a. PICK s : s = ip[p]
    OBVIOUS
  <1>b. pc[p] = "iclear" /\ Gated(p)
    BY DEF iclear, Running, Gated, InIdetach
  <1>0. /\ pc \in [Procs -> Locs] /\ val \in [Slots -> Values]
        /\ s \in Slots /\ gate[s] = p /\ p # Free /\ flag \in [Slots -> BOOLEAN]
        /\ ~Reading(s) /\ ~Naming(s) /\ val[s].nlink = 0
    BY <1>a, <1>b, AloneAt DEF IInv, OneSlot, TypeOK, TypeInv, NInv, NameLocal
  <1>1. /\ val' = [val EXCEPT ![s].mode = FALSE] /\ pc' = [pc EXCEPT ![p] = "ifree"]
        /\ flag' = [flag EXCEPT ![s] = flag[s] \/ val[s].mode]
        /\ UNCHANGED <<ino, refc, gate, dino, Links, want, ip, spc, scur, overtaken>>
    BY <1>a DEF iclear, Goto, dirs, Links, locals, syncvars
  <1>c. OthersStay(p) /\ pc'[p] = "ifree"
    BY <1>0, <1>1 DEF OthersStay
  <1>2. ~Reading(s)' /\ ~Naming(s)'
    <2>1. (Reading(s)' <=> Reading(s)) /\ (Naming(s)' <=> Naming(s))
      BY <1>b, <1>c, ReadingSame
    <2> QED
      BY <1>0, <2>1
  <1>3. /\ val'[s].nlink = val[s].nlink /\ val'[s].mode = FALSE
        /\ flag'[s] = (flag[s] \/ val[s].mode)
        /\ \A t \in Slots : t # s => val'[t] = val[t] /\ flag'[t] = flag[t]
    BY <1>0, <1>1 DEF Values
  <1>4. ~overtaken => SlotRight(s)'
    <2>1. val[s].mode \in BOOLEAN
      BY <1>0 DEF Values
    <2>2. CASE val[s].mode
      <3>1. flag'[s] = TRUE
        BY <1>3, <2>2
      <3> QED
        BY <1>0, <1>1, <1>2, <1>3, <3>1 DEF NInv, SlotRight, Right
    <2>3. CASE ~val[s].mode
      <3>1. val'[s].mode = val[s].mode /\ flag'[s] = flag[s]
        BY <1>0, <1>3, <2>1, <2>3
      <3> QED
        BY <1>0, <1>1, <1>2, <1>3, <3>1 DEF NInv, SlotRight, Right, SameLinks
    <2> QED
      BY <2>2, <2>3
  <1>5. NameLocal(p)'
    BY <1>0, <1>1 DEF NameLocal
  <1> QED
    BY <1>0, <1>1, <1>3, <1>4, <1>5, <1>a, <1>c, AtNInv

LEMMA idoneNInv ==
  ASSUME IInv, NInv, NEW p \in Procs, idone(p)
  PROVE  NInv'
  <1>a. PICK s : s = ip[p]
    OBVIOUS
  <1>b. pc[p] = "idone" /\ Gated(p)
    BY DEF idone, Running, Gated, InIdetach
  <1>0. /\ pc \in [Procs -> Locs] /\ dino \in [Inos -> Values]
        /\ s \in Slots /\ gate[s] = p /\ p # Free /\ flag \in [Slots -> BOOLEAN]
        /\ gate \in [Slots -> Procs \union {Free}] /\ dret[p] \in Drets
        /\ ~Reading(s) /\ ~Naming(s) /\ ino[s] \in Inos
    BY <1>a, <1>b, AloneAt DEF IInv, OneSlot, TypeOK, TypeInv, LocalInv,
       InodeInv, InIdetach
  <1>1. /\ dino' = [dino EXCEPT ![ino[s]] = val[s]] /\ gate' = [gate EXCEPT ![s] = Free]
        /\ flag' = [flag EXCEPT ![s] = FALSE]
        /\ UNCHANGED <<ino, refc, val, Links, want, ip, spc, scur, overtaken>>
    BY <1>a DEF idone, dirs, Links, locals, syncvars
  <1>2. OthersStay(p) /\ pc'[p] \in Drets
    BY <1>0, <1>1 DEF idone, Goto, OthersStay
  <1>3. ~Reading(s)' /\ ~Naming(s)'
    <2>1. (Reading(s)' <=> Reading(s)) /\ (Naming(s)' <=> Naming(s))
      BY <1>2, <1>b, ReadingSame DEF Drets
    <2> QED
      BY <1>0, <2>1
  <1>4. /\ dino'[ino[s]] = val[s] /\ ~flag'[s]
        /\ \A t \in Slots : t # s => gate'[t] = gate[t] /\ flag'[t] = flag[t]
        /\ \A i \in Files : i # ino[s] => dino'[i] = dino[i]
    BY <1>0, <1>1 DEF Files
  <1>5. ~overtaken => SlotRight(s)'
    BY <1>0, <1>1, <1>3, <1>4 DEF NInv, SlotRight, Right, SameLinks
  <1>6. NameLocal(p)' /\ pc'[p] \notin {"icopydm", "idirent"}
    BY <1>0, <1>2 DEF NameLocal, Drets
  <1>7. /\ s \in Slots /\ gate[s] \in {p, Free} /\ ip[p] = s
        /\ \A t \in Slots : t # s =>
             /\ val'[t] = val[t] /\ flag'[t] = flag[t] /\ refc'[t] = refc[t]
             /\ gate'[t] = gate[t]
        /\ \A i \in Files : i # ino[s] => Links'[i] = Links[i] /\ dino'[i] = dino[i]
        /\ UNCHANGED <<ino, spc, scur, overtaken>>
    BY <1>0, <1>1, <1>4, <1>a
  <1> QED
    BY <1>2, <1>5, <1>6, <1>7, AtNInv

\* ialloc: the inode is in use, or it becomes a new one.
LEMMA attachedNInv ==
  ASSUME IInv, NInv, NEW p \in Procs, attached(p)
  PROVE  NInv'
  <1>a. PICK s : s = ip[p]
    OBVIOUS
  <1>b. pc[p] = "attached" /\ pc \in [Procs -> Locs]
    BY DEF attached, Running, IInv, TypeInv
  <1>c. UNCHANGED <<ino, refc, gate, dino, Links, want, ip, spc, scur, overtaken>>
    BY DEF attached, dirs, Links, syncvars
  <1>1. CASE s = 0 \/ val[s].mode
    <2>1. UNCHANGED <<flag, val>> /\ StaysUsed
      BY <1>1, <1>a, <1>c DEF attached, StaysUsed
    <2>2. OthersStay(p) /\ pc'[p] \in {"ifree", "idetach"}
      BY <1>1, <1>a, <1>b, <1>c DEF attached, Goto, CallIdetach, OthersStay
    <2> QED
      BY <1>b, <1>c, <2>1, <2>2, QuietNInv
  <1>2. CASE s # 0 /\ ~val[s].mode
    <2>0. Gated(p)
      BY <1>2, <1>a, <1>b DEF Gated
    <2>1. /\ s \in Slots /\ gate[s] = p /\ p # Free /\ ~Reading(s) /\ ~Naming(s)
          /\ val \in [Slots -> Values] /\ flag \in [Slots -> BOOLEAN]
          /\ Links \in [Files -> Nat]
      BY <1>a, <1>b, <2>0, AloneAt, LinksType DEF IInv, OneSlot, TypeOK
    <2>2. /\ val' = [val EXCEPT ![s] = Inode(TRUE, 1, val[s].ver)]
          /\ flag' = [flag EXCEPT ![s] = FALSE] /\ pc' = [pc EXCEPT ![p] = "idirent"]
      BY <1>2, <1>a DEF attached, Yield
    <2>3. ~Reading(s)' /\ Naming(s)'
      BY <1>a, <1>b, <1>c, <2>1, <2>2 DEF Reading, Naming
    <2>4. /\ val'[s].nlink = 1 /\ val'[s].mode = TRUE /\ flag'[s] = FALSE
          /\ \A t \in Slots : t # s => val'[t] = val[t] /\ flag'[t] = flag[t]
      BY <2>1, <2>2 DEF Inode
    <2>5. ~overtaken => SlotRight(s)'
      <3>1. ~overtaken /\ ino[s] \in Files => Links[ino[s]] = 0
        BY <1>2, <2>1 DEF NInv, SlotRight, Right
      <3> QED
        BY <1>c, <2>3, <2>4, <3>1 DEF SlotRight
    <2>6. NameLocal(p)'
      BY <1>b, <2>2 DEF NameLocal
    <2>7. OthersStay(p) /\ pc'[p] = "idirent" /\ ip'[p] = s
      BY <1>a, <1>b, <1>c, <2>2 DEF OthersStay
    <2> QED
      BY <1>a, <1>c, <2>1, <2>4, <2>5, <2>6, <2>7, AtNInv
  <1> QED
    BY <1>1, <1>2

LEMMA idirentNInv ==
  ASSUME IInv, NInv, NEW p \in Procs, idirent(p)
  PROVE  NInv'
  <1>a. PICK s : s = ip[p]
    OBVIOUS
  <1>b. pc[p] = "idirent" /\ Gated(p)
    BY DEF idirent, Running, Gated
  <1>0. /\ pc \in [Procs -> Locs] /\ ip \in [Procs -> 0 .. NINODE]
        /\ want \in [Procs -> 0 .. NINO]
        /\ s \in Slots /\ gate[s] = p /\ p # Free /\ flag \in [Slots -> BOOLEAN]
        /\ gate \in [Slots -> Procs \union {Free}] /\ refc \in [Slots -> Nat]
        /\ ~Reading(s) /\ Naming(s) /\ ino[s] \in Files /\ Links \in [Files -> Nat]
    BY <1>a, <1>b, AloneAt, LinksType DEF IInv, OneSlot, TypeOK, TypeInv, InodeInv
  <1>1. /\ gate' = [gate EXCEPT ![s] = Free] /\ flag' = [flag EXCEPT ![s] = TRUE]
        /\ pc' = [pc EXCEPT ![p] = "user"]
        /\ want' = [want EXCEPT ![p] = 0] /\ ip' = [ip EXCEPT ![p] = 0]
        /\ UNCHANGED <<ino, refc, val, dino, spc, scur, overtaken>>
    BY <1>a DEF idirent, Return, Yield, syncvars
  <1>2. ~Reading(s)' /\ ~Naming(s)'
    <2>1. \A q \in Procs : pc[q] \in {"icopydm", "idirent"} /\ ip[q] = s => q = p
      BY <1>0 DEF IInv, GateInv, Gated
    <2> QED
      BY <1>0, <1>1, <2>1 DEF Reading, Naming
  <1>3. refc[s] >= 1
    <2>1. RefsCounted /\ Attached(p) /\ ip[p] = s
      BY <1>0, <1>a, <1>b, IcacheAssumption DEF Attached, Slots, IInv
    <2> QED
      BY <1>0, <2>1, Referred
  <1>4. /\ flag'[s] = TRUE
        /\ \A t \in Slots : t # s => gate'[t] = gate[t] /\ flag'[t] = flag[t]
        /\ \A i \in Files : i # ino[s] => Links'[i] = Links[i]
    <2>1. \A i \in Files : i # ino[s] => Links'[i] = Links[i]
      BY <1>0, <1>a DEF idirent, Links, IInv, OneSlot, TypeOK
    <2> QED
      BY <1>0, <1>1, <2>1
  <1>7. ~overtaken => Links[ino[s]] = 0 /\ Links'[ino[s]] = 1
    <2>1. ~overtaken => Links[ino[s]] = 0
      BY <1>0 DEF NInv, SlotRight
    <2>2. /\ names \in [Files -> Nat] /\ unnamed' = unnamed
          /\ names' = [names EXCEPT ![ino[s]] = names[ino[s]] + 1]
      BY <1>a DEF idirent, IInv, OneSlot, TypeOK
    <2> QED
      BY <1>0, <2>1, <2>2 DEF Links
  <1>5. ~overtaken => SlotRight(s)'
    BY <1>0, <1>1, <1>2, <1>3, <1>4, <1>7 DEF NInv, SlotRight, Right
  <1>6. NameLocal(p)' /\ pc'[p] = "user" /\ OthersStay(p)
    BY <1>0, <1>1 DEF NameLocal, OthersStay
  <1>8. /\ s \in Slots /\ gate[s] \in {p, Free} /\ ip[p] = s
        /\ \A t \in Slots : t # s =>
             /\ val'[t] = val[t] /\ flag'[t] = flag[t] /\ refc'[t] = refc[t]
             /\ gate'[t] = gate[t]
        /\ \A i \in Files : i # ino[s] => Links'[i] = Links[i] /\ dino'[i] = dino[i]
        /\ UNCHANGED <<ino, spc, scur, overtaken>>
    BY <1>0, <1>1, <1>4, <1>a
  <1> QED
    BY <1>5, <1>6, <1>8, AtNInv

(***************************************************************************)
(* The inode creat gives up has the link it would have had a name for.     *)
(***************************************************************************)
LEMMA idirentFailedNInv ==
  ASSUME IInv, NInv, NEW p \in Procs, idirentFailed(p)
  PROVE  NInv'
  <1>a. PICK s : s = ip[p]
    OBVIOUS
  <1>b. pc[p] = "idirent" /\ Gated(p)
    BY DEF idirentFailed, Running, Gated
  <1>0. /\ pc \in [Procs -> Locs] /\ ip \in [Procs -> 0 .. NINODE]
        /\ want \in [Procs -> 0 .. NINO]
        /\ s \in Slots /\ gate[s] = p /\ p # Free /\ flag \in [Slots -> BOOLEAN]
        /\ gate \in [Slots -> Procs \union {Free}] /\ refc \in [Slots -> Nat]
        /\ ~Reading(s) /\ Naming(s) /\ ino[s] \in Files /\ Links \in [Files -> Nat]
    BY <1>a, <1>b, AloneAt, LinksType DEF IInv, OneSlot, TypeOK, TypeInv, InodeInv
  <1>1. /\ flag' = [flag EXCEPT ![s] = TRUE] /\ pc' = [pc EXCEPT ![p] = "idetach"]
        /\ UNCHANGED <<ino, refc, gate, val, dino, want, ip, spc, scur, overtaken>>
    BY <1>a DEF idirentFailed, CallIdetach, Goto, syncvars
  <1>2. ~Reading(s)' /\ ~Naming(s)'
    <2>1. \A q \in Procs : pc[q] \in {"icopydm", "idirent"} /\ ip[q] = s => q = p
      BY <1>0 DEF IInv, GateInv, Gated
    <2> QED
      BY <1>0, <1>1, <2>1 DEF Reading, Naming
  <1>3. refc[s] >= 1
    <2>1. RefsCounted /\ Attached(p) /\ ip[p] = s
      BY <1>0, <1>a, <1>b, IcacheAssumption DEF Attached, Slots, IInv
    <2> QED
      BY <1>0, <2>1, Referred
  <1>4. /\ flag'[s] = TRUE
        /\ \A t \in Slots : t # s => gate'[t] = gate[t] /\ flag'[t] = flag[t]
        /\ \A i \in Files : i # ino[s] => Links'[i] = Links[i]
    <2>1. \A i \in Files : i # ino[s] => Links'[i] = Links[i]
      BY <1>0, <1>a DEF idirentFailed, Links, IInv, OneSlot, TypeOK
    <2> QED
      BY <1>0, <1>1, <2>1
  <1>7. ~overtaken => Links[ino[s]] = 0 /\ Links'[ino[s]] = 1
    <2>1. ~overtaken => Links[ino[s]] = 0
      BY <1>0 DEF NInv, SlotRight
    <2>2. /\ names \in [Files -> Nat] /\ unnamed' = unnamed \union {ino[s]}
          /\ names' = names
      BY <1>a DEF idirentFailed, IInv, OneSlot, TypeOK
    <2> QED
      BY <1>0, <2>1, <2>2 DEF Links
  <1>5. ~overtaken => SlotRight(s)'
    BY <1>0, <1>1, <1>2, <1>3, <1>4, <1>7 DEF NInv, SlotRight, Right
  <1>6. NameLocal(p)' /\ pc'[p] = "idetach" /\ OthersStay(p)
    BY <1>0, <1>1 DEF NameLocal, OthersStay
  <1>8. /\ s \in Slots /\ gate[s] \in {p, Free} /\ ip[p] = s
        /\ \A t \in Slots : t # s =>
             /\ val'[t] = val[t] /\ flag'[t] = flag[t] /\ refc'[t] = refc[t]
             /\ gate'[t] = gate[t]
        /\ \A i \in Files : i # ino[s] => Links'[i] = Links[i] /\ dino'[i] = dino[i]
        /\ UNCHANGED <<ino, spc, scur, overtaken>>
    BY <1>0, <1>1, <1>4, <1>a
  <1> QED
    BY <1>5, <1>6, <1>8, AtNInv

LEMMA iwriteNInv ==
  ASSUME IInv, NInv, NEW p \in Procs, iwrite(p)
  PROVE  NInv'
  <1>a. PICK s : s = ip[p]
    OBVIOUS
  <1>0. /\ pc \in [Procs -> Locs] /\ pc[p] = "wlock" /\ s \in Slots /\ gate[s] = Free
        /\ p # Free /\ gate \in [Slots -> Procs \union {Free}]
        /\ flag \in [Slots -> BOOLEAN]
    BY <1>a, IcacheAssumption
       DEF iwrite, Running, IInv, OneSlot, TypeOK, TypeInv, LocalInv
  <1>1. /\ gate' = [gate EXCEPT ![s] = p] /\ flag' = [flag EXCEPT ![s] = TRUE]
        /\ UNCHANGED <<ino, refc, val, dino, Links, want, ip, spc, scur, overtaken>>
    BY <1>a DEF iwrite, dirs, Links, locals, syncvars
  <1>2. OthersStay(p) /\ pc'[p] = "fwrite"
    BY <1>0, <1>1 DEF iwrite, Yield, OthersStay
  <1>3. ~Reading(s)' /\ ~Naming(s)'
    <2>1. (Reading(s)' <=> Reading(s)) /\ (Naming(s)' <=> Naming(s))
      BY <1>0, <1>2, ReadingSame
    <2> QED
      BY <1>0, <2>1, OpenAt
  <1>4. /\ flag'[s] = TRUE /\ gate'[s] # Free
        /\ \A t \in Slots : t # s => gate'[t] = gate[t] /\ flag'[t] = flag[t]
    BY <1>0, <1>1
  <1>5. ~overtaken => SlotRight(s)'
    BY <1>0, <1>1, <1>3, <1>4, OpenAt DEF NInv, SlotRight, Right
  <1>6. NameLocal(p)'
    BY <1>0, <1>2 DEF NameLocal
  <1> QED
    BY <1>0, <1>1, <1>2, <1>4, <1>5, <1>6, <1>a, AtNInv

LEMMA fwriteNInv ==
  ASSUME IInv, NInv, NEW p \in Procs, fwrite(p)
  PROVE  NInv'
  <1>a. PICK s : s = ip[p]
    OBVIOUS
  <1>b. pc[p] = "fwrite" /\ Gated(p)
    BY DEF fwrite, Running, Gated
  <1>0. /\ pc \in [Procs -> Locs] /\ ip \in [Procs -> 0 .. NINODE]
        /\ want \in [Procs -> 0 .. NINO] /\ val \in [Slots -> Values]
        /\ s \in Slots /\ gate[s] = p /\ p # Free /\ refc \in [Slots -> Nat]
        /\ gate \in [Slots -> Procs \union {Free}]
        /\ ~Reading(s) /\ ~Naming(s) /\ fd[p] = s
    BY <1>a, <1>b, AloneAt DEF IInv, OneSlot, TypeOK, TypeInv, LocalInv
  <1>1. /\ val' = val \/ val' = [val EXCEPT ![s].ver = val[s].ver + 1]
        /\ gate' = [gate EXCEPT ![s] = Free] /\ pc' = [pc EXCEPT ![p] = "user"]
        /\ want' = [want EXCEPT ![p] = 0] /\ ip' = [ip EXCEPT ![p] = 0]
        /\ UNCHANGED <<ino, refc, flag, dino, Links, spc, scur, overtaken>>
    BY <1>a DEF fwrite, Return, Yield, dirs, Links, syncvars
  <1>2. OthersStay(p) /\ pc'[p] = "user" /\ NameLocal(p)'
    BY <1>0, <1>1 DEF OthersStay, NameLocal
  <1>3. ~Reading(s)' /\ ~Naming(s)'
    <2>1. (Reading(s)' <=> Reading(s)) /\ (Naming(s)' <=> Naming(s))
      BY <1>2, <1>b, ReadingSame
    <2> QED
      BY <1>0, <2>1
  <1>4. refc[s] >= 1
    <2>1. RefsCounted
      BY DEF IInv
    <2> QED
      BY <1>0, <2>1, Referred
  <1>5. /\ val'[s].nlink = val[s].nlink /\ val'[s].mode = val[s].mode
        /\ \A t \in Slots : t # s => val'[t] = val[t] /\ gate'[t] = gate[t]
    BY <1>0, <1>1 DEF Values
  <1>6. ~overtaken => SlotRight(s)'
    <2>1. UNCHANGED <<ino, refc, flag, dino, Links, overtaken>>
      BY <1>1
    <2> QED
      BY <1>0, <1>3, <1>4, <1>5, <2>1 DEF NInv, SlotRight, Right, SameLinks
  <1>7. /\ \A t \in Slots : t # s =>
             /\ val'[t] = val[t] /\ flag'[t] = flag[t] /\ refc'[t] = refc[t]
             /\ gate'[t] = gate[t]
        /\ UNCHANGED <<ino, dino, Links, spc, scur, overtaken>>
    BY <1>1, <1>5
  <1> QED
    BY <1>0, <1>2, <1>6, <1>7, <1>a, AtNInv

LEMMA unnameNInv ==
  ASSUME IInv, NInv, NEW p \in Procs, unname(p)
  PROVE  NInv'
  <1>a. PICK s : s = ip[p]
    OBVIOUS
  <1>b. pc[p] = "unname" /\ Gated(p)
    BY DEF unname, Running, Gated
  <1>0. /\ pc \in [Procs -> Locs] /\ Links \in [Files -> Nat] /\ val \in [Slots -> Values]
        /\ flag \in [Slots -> BOOLEAN]
        /\ s \in Slots /\ gate[s] = p /\ p # Free /\ ~Reading(s) /\ ~Naming(s)
        /\ ino[s] \in Files /\ want[p] = ino[s] /\ names[ino[s]] > 0
    BY <1>a, <1>b, AloneAt, LinksType
       DEF IInv, OneSlot, TypeOK, TypeInv, InodeInv, GateInv, NInv, NameLocal
  <1>1. /\ val' = [val EXCEPT ![s].nlink = IF val[s].nlink > 0 THEN val[s].nlink - 1
                                           ELSE val[s].nlink]
        /\ flag' = [flag EXCEPT ![s] = TRUE] /\ pc' = [pc EXCEPT ![p] = "idetach"]
        /\ UNCHANGED <<ino, refc, gate, dino, want, ip, spc, scur, overtaken>>
    BY <1>0, <1>a DEF unname, CallIdetach, Goto, syncvars
  <1>2. OthersStay(p) /\ pc'[p] = "idetach" /\ NameLocal(p)'
    BY <1>0, <1>1 DEF OthersStay, NameLocal
  <1>3. ~Reading(s)' /\ ~Naming(s)'
    <2>1. (Reading(s)' <=> Reading(s)) /\ (Naming(s)' <=> Naming(s))
      BY <1>2, <1>b, ReadingSame
    <2> QED
      BY <1>0, <2>1
  <1>4. /\ val'[s].mode = val[s].mode /\ flag'[s] = TRUE
        /\ val'[s].nlink = IF val[s].nlink > 0 THEN val[s].nlink - 1 ELSE val[s].nlink
    BY <1>0, <1>1 DEF Values
  <1>7. /\ Links'[ino[s]] = Links[ino[s]] - 1 /\ Links[ino[s]] \in Nat
        /\ Links[ino[s]] > 0
        /\ \A i \in Files : i # ino[s] => Links'[i] = Links[i]
    <2>1. /\ names \in [Files -> Nat] /\ unnamed' = unnamed
          /\ names' = [names EXCEPT ![ino[s]] = names[ino[s]] - 1]
      BY <1>0, <1>a DEF unname, IInv, OneSlot, TypeOK
    <2> QED
      BY <1>0, <2>1 DEF Links
  <1>5. /\ \A t \in Slots : t # s =>
             /\ val'[t] = val[t] /\ flag'[t] = flag[t] /\ refc'[t] = refc[t]
             /\ gate'[t] = gate[t]
        /\ \A i \in Files : i # ino[s] => Links'[i] = Links[i] /\ dino'[i] = dino[i]
        /\ UNCHANGED <<ino, spc, scur, overtaken, gate>>
    BY <1>0, <1>1, <1>7
  <1>6. ~overtaken => SlotRight(s)'
    BY <1>0, <1>3, <1>4, <1>5, <1>7 DEF NInv, SlotRight, Right
  <1> QED
    BY <1>0, <1>2, <1>5, <1>6, <1>a, AtNInv

(***************************************************************************)
(* sync: what icopymd writes is what the structure has, unless it has      *)
(* overtaken a user of the inode.                                          *)
(***************************************************************************)
LEMMA isyncDoneNInv ==
  ASSUME IInv, NInv, isyncDone
  PROVE  NInv'
  <1>a. PICK s : s = scur[1]
    OBVIOUS
  <1>0. /\ s \in Slots /\ flag \in [Slots -> BOOLEAN] /\ dino \in [Inos -> Values]
        /\ scur \in (0 .. NINODE) \X (0 .. NINO) \X Values /\ OneSlot
        /\ ino \in [Slots -> 0 .. NINO]
    BY <1>a DEF isyncDone, SyncAt, NInv, IInv, OneSlot, TypeOK, TypeInv
  <1>1. /\ dino' = [dino EXCEPT ![scur[2]] = scur[3]]
        /\ flag' = [flag EXCEPT ![s] = FALSE]
        /\ overtaken' = (overtaken \/ gate[s] # Free \/ <<s, ino[s], val[s]>> # scur)
        /\ spc' = "isync"
        /\ UNCHANGED <<ino, refc, gate, val, Links, pc, want, ip>>
    BY <1>a DEF isyncDone, dirs, Links, locals
  <1>2. \A t : (Reading(t)' <=> Reading(t)) /\ (Naming(t)' <=> Naming(t))
    BY <1>1 DEF Reading, Naming
  <1>3. ASSUME ~overtaken'
        PROVE  (\A t \in Slots : SlotRight(t)') /\ \A i \in Files : DiskRight(i)'
    <2>1. /\ ~overtaken /\ gate[s] = Free /\ scur[2] = ino[s] /\ scur[3] = val[s]
      <3>1. ~overtaken /\ gate[s] = Free /\ <<s, ino[s], val[s]>> = scur
        BY <1>1, <1>3
      <3> QED
        BY <3>1
    <2>2. (\A t \in Slots : SlotRight(t)) /\ \A i \in Files : DiskRight(i)
      BY <2>1 DEF NInv
    <2>3. /\ \A i \in Files : i # ino[s] => dino'[i] = dino[i]
          /\ ino[s] \in Files => dino'[ino[s]] = val[s]
          /\ \A t \in Slots : t # s => flag'[t] = flag[t]
          /\ flag'[s] = FALSE
      BY <1>0, <1>1, <2>1 DEF Files
    <2>4. ~Reading(s) /\ ~Naming(s)
      BY <1>0, <2>1, OpenAt
    <2>5. SlotRight(s)'
      BY <1>0, <1>1, <1>2, <2>1, <2>2, <2>3, <2>4 DEF SlotRight, Right,
         SameLinks
    <2>6. ASSUME NEW t \in Slots, t # s PROVE SlotRight(t)'
      <3>1. ino[t] \in Files => ino[t] # ino[s]
        BY <1>0, <2>6 DEF OneSlot, Files, Inos
      <3> QED
        BY <1>1, <1>2, <2>2, <2>3, <2>6, <3>1 DEF SlotRight, Right, SameLinks
    <2>7. \A i \in Files : DiskRight(i)'
      BY <1>0, <1>1, <2>2, <2>3 DEF DiskRight, Right
    <2> QED
      BY <2>5, <2>6, <2>7
  <1>4. \A q \in Procs : NameLocal(q)'
    BY <1>1 DEF NInv, NameLocal
  <1> QED
    BY <1>1, <1>3, <1>4 DEF NInv

LEMMA StillNInv ==
  ASSUME NInv, spc' = "icopymd" => scur'[1] \in Slots,
         UNCHANGED <<core, dino, dirs, pc, locals, overtaken>>
  PROVE  NInv'
  <1>1. UNCHANGED <<ino, refc, gate, flag, val, Links, want, ip>>
    BY DEF core, dirs, Links, locals
  <1>2. \A t : (Reading(t)' <=> Reading(t)) /\ (Naming(t)' <=> Naming(t))
    BY <1>1 DEF Reading, Naming
  <1>3. \A s \in Slots : SlotRight(s) => SlotRight(s)'
    BY <1>1, <1>2 DEF SlotRight, Right, SameLinks
  <1>4. \A i \in Files : DiskRight(i) => DiskRight(i)'
    BY <1>1 DEF DiskRight, Right
  <1>5. \A q \in Procs : NameLocal(q)'
    BY <1>1 DEF NInv, NameLocal
  <1> QED
    BY <1>3, <1>4, <1>5 DEF NInv

LEMMA SyncNInv ==
  ASSUME IInv, NInv, Sync
  PROVE  NInv'
  <1>1. CASE usync \/ isyncEnd
    BY <1>1, StillNInv DEF usync, isyncEnd
  <1>2. CASE \E s \in Slots : isync(s)
    <2>1. spc' = "icopymd" => scur'[1] \in Slots
      BY <1>2 DEF isync, SyncAt
    <2> QED
      BY <1>2, <2>1, StillNInv DEF isync
  <1> QED
    BY <1>1, <1>2, isyncDoneNInv DEF Sync

LEMMA NextNInv == IInv /\ NInv /\ [Next]_vars => NInv'
  <1> SUFFICES ASSUME IInv, NInv, [Next]_vars PROVE NInv'
    OBVIOUS
  <1>1. ASSUME NEW p \in Procs, Attach(p) \/ Detach(p) \/ Alloc(p) PROVE NInv'
    <2>1. CASE victim(p)
      BY <2>1, SearchNInv, installNInv
    <2> QED
      BY <1>1, <2>1, SearchNInv, icopydmNInv, idetachNInv, iclearNInv,
         idoneNInv,
         attachedNInv, MovesNInv DEF Attach, Detach, Alloc
  <1>2. ASSUME NEW p \in Procs, Creat(p) \/ Open(p) \/ lock(p) PROVE NInv'
    BY <1>2, MovesNInv, idirentNInv, idirentFailedNInv, uopenNInv DEF Creat, Open
  <1>3. ASSUME NEW p \in Procs, Write(p) \/ Close(p) \/ Unlink(p) PROVE NInv'
    BY <1>3, MovesNInv, iwriteNInv, fwriteNInv, icloseNInv, unlinkAttachedNInv,
       unnameNInv DEF Write, Close, Unlink
  <1>4. ASSUME UNCHANGED vars PROVE NInv'
    <2>1. UNCHANGED <<core, dino, dirs, pc, locals, overtaken, spc, scur>>
      BY <1>4 DEF vars, core, dirs, Links, locals
    <2> QED
      BY <2>1, StillNInv DEF NInv
  <1> QED
    BY <1>1, <1>2, <1>3, <1>4, SyncNInv DEF Next, rest

(***************************************************************************)
(* Whatever inodes ialloc is given by lists that are out of date, an inode *)
(* has as many links as names and none with a name is free, as long as     *)
(* sync has not overtaken the user of an inode; an inode that creat could  *)
(* not name keeps one link, and is not given to another file.              *)
(***************************************************************************)
THEOREM IcacheNamesRight == Spec => []NamesRight
  <1>1. IInv /\ NInv => NamesRight
    <2> SUFFICES ASSUME IInv, NInv, ~overtaken, NEW i \in Files, ~InUse(i)
                 PROVE  Right(Links[i], Current(i))
      BY DEF NamesRight, Right
    <2>1. CASE \E s \in Slots : ino[s] = i
      <3>1. PICK s \in Slots : s = CHOOSE t \in Slots : ino[t] = i
        BY <2>1
      <3>2. ino[s] = i /\ gate[s] = Free /\ Current(i) = val[s]
        BY <2>1, <3>1 DEF Current, InUse
      <3> QED
        BY <3>2, OpenAt DEF NInv, SlotRight
    <2>2. CASE ~\E s \in Slots : ino[s] = i
      BY <2>2 DEF NInv, DiskRight, Current
    <2> QED
      BY <2>1, <2>2
  <1>2. Spec => [](IInv /\ NInv)
    BY InitIInv, InitNInv, NextIInv, NextNInv, PTL DEF Spec
  <1> QED
    BY <1>1, <1>2, PTL

=============================================================================
