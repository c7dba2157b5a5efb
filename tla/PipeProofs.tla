----------------------------- MODULE PipeProofs -----------------------------
(***************************************************************************)
(* Proofs about pipes, for any number of readers and writers, any size of  *)
(* the ring and any set of bytes.                                          *)
(***************************************************************************)
EXTENDS Pipe, FiniteSetTheorems, SequenceTheorems, TLAPS

\* Where a process holds the inode's gate.
Holding == {"pread", "take", "eof", "pwrite"}

\* The gate's owner is the one process inside pread or pwrite.
GateInv == \A p \in Procs : pc[p] \in Holding <=> gate = p

\* Readers read and writers write, through a descriptor they keep meanwhile.
PlaceInv ==
  /\ \A p \in Readers : pc[p] \notin {"pwrite", "wsleep"}
  /\ \A p \in Writers : pc[p] \notin {"pread", "rsleep", "take", "eof"}
  /\ \A p \in Procs : pc[p] # "user" => p \in fd

\* Whoever is on a sleep queue is inside sleep.
QueueInv == \A p \in asleep : pc[p] \in {"rsleep", "wsleep"}

\* The descriptors of an unnamed pipe: one per end that is still held.
Ends ==
  (IF fd \intersect Readers = {} THEN 0 ELSE 1)
    + (IF fd \intersect Writers = {} THEN 0 ELSE 1)

\* i_refc counts descriptors; only a named pipe has a link.
RefcInv ==
  /\ refc = IF named THEN Cardinality(fd) ELSE Ends
  /\ nlink = 1 => named

\* IFEOF on an unnamed pipe: an end has been closed.
EofInv == "IFEOF" \in iflag /\ ~ named => refc < 2

\* What SleepsRightly says of readers.
ReaderInv ==
  OnPrx # {} =>
    "IFWFW" \in iflag /\ pnc = 0 /\ "IFEOF" \notin iflag /\ ~ OneEndLeft

\* While the gate is locked a writer may sleep although there is room: the
\* reader that made it is still to wake it, at the end of pread.
WriterInv ==
  /\ OnPwx # {} => "IFWFR" \in iflag /\ ~ OneEndLeft
  /\ OnPwx \ passed # {} =>
       \/ pnc = PIPSIZE \/ "IFEOF" \in iflag
       \/ \E p \in Readers : pc[p] \in {"take", "eof"}

IInv ==
  /\ RingOK /\ GateInv /\ PlaceInv /\ QueueInv /\ RefcInv
  /\ EofInv /\ ReaderInv /\ WriterInv /\ EofMeansClosed

\* What every step but a creat does to the history.
Kept == named' = named /\ passed' = passed \intersect asleep'

-----------------------------------------------------------------------------
(***************************************************************************)
(* Processes come in finite numbers, at least one at each end.             *)
(***************************************************************************)
LEMMA ProcsFinite ==
  ASSUME NEW S \in SUBSET Procs
  PROVE  /\ IsFiniteSet(S) /\ Cardinality(S) \in Nat
         /\ Cardinality(S) <= Cardinality(Procs)
         /\ Cardinality(Procs) \in Nat
  <1>1. IsFiniteSet(S) /\ Cardinality(S) <= Cardinality(Procs)
    BY FS_Subset, PipeAssumption
  <1> QED
    BY <1>1, FS_CardinalityType, PipeAssumption

(***************************************************************************)
(* A set of processes with two members counts for at least two.            *)
(***************************************************************************)
LEMMA TwoMembers ==
  ASSUME NEW S \in SUBSET Procs, NEW a \in S, NEW b \in S, a # b
  PROVE  Cardinality(S) >= 2
  <1> DEFINE T == S \ {a}
             U == T \ {b}
  <1>1. IsFiniteSet(S) /\ IsFiniteSet(T) /\ IsFiniteSet(U)
    BY ProcsFinite
  <1>2. Cardinality(S) \in Nat /\ Cardinality(T) \in Nat /\ Cardinality(U) \in Nat
    BY <1>1, FS_CardinalityType
  <1>3. Cardinality(T) = Cardinality(S) - 1
    BY <1>1, FS_RemoveElement
  <1>4. Cardinality(U) = Cardinality(T) - 1
    BY <1>1, FS_RemoveElement, b \in T
  <1> QED
    BY <1>2, <1>3, <1>4

(***************************************************************************)
(* The reference count against the holders: i_refc is at least one while   *)
(* somebody has a descriptor, and two while there is a holder at each end  *)
(* or, for a named pipe, while there are two holders.                      *)
(***************************************************************************)
LEMMA RefcCounts ==
  ASSUME TypeOK, RefcInv
  PROVE  /\ refc \in Nat
         /\ fd # {} => refc >= 1
         /\ \A a, b \in fd : a # b /\ named => refc >= 2
         /\ \A a \in fd : a \in Readers /\ ~ named /\ refc < 2
                            => fd \intersect Writers = {}
         /\ \A a \in fd : a \in Writers /\ ~ named /\ refc < 2
                            => fd \intersect Readers = {}
  <1>1. Cardinality(fd) \in Nat /\ (fd # {} => Cardinality(fd) >= 1)
    <2>1. fd \in SUBSET Procs /\ IsFiniteSet(fd) /\ Cardinality(fd) \in Nat
      BY ProcsFinite DEF TypeOK
    <2>2. Cardinality(fd) = 0 <=> fd = {}
      BY <2>1, FS_EmptySet
    <2> QED
      BY <2>1, <2>2
  <1>2. \A a, b \in fd : a # b => Cardinality(fd) >= 2
    BY TwoMembers DEF TypeOK
  <1>3. fd # {} => Ends >= 1
    BY DEF Ends, TypeOK, Procs
  <1> QED
    BY <1>1, <1>2, <1>3 DEF RefcInv, Ends

(***************************************************************************)
(* The bytes of blocks nobody has written are bytes.                       *)
(***************************************************************************)
LEMMA BlankType == Blank \in [0 .. PIPSIZE - 1 -> Values]
  <1>1. (CHOOSE v \in Values : TRUE) \in Values
    BY PipeAssumption
  <1> QED
    BY <1>1 DEF Blank

(***************************************************************************)
(* The initial state satisfies the inductive invariant.                    *)
(***************************************************************************)
LEMMA InitIInv == Init => IInv
  <1> SUFFICES ASSUME Init PROVE IInv
    OBVIOUS
  <1>1. Cardinality(Procs) \in Nat /\ Cardinality(Procs) >= 2
    <2>1. PICK a \in Readers, b \in Writers : a # b
      BY PipeAssumption
    <2> QED
      BY <2>1, TwoMembers, ProcsFinite DEF Procs
  <1>2. TypeOK
    BY <1>1, BlankType, PipeAssumption DEF Init, TypeOK, Locs
  <1>3. pwx = (prx + pnc) % PIPSIZE
    BY PipeAssumption DEF Init
  <1>4. GateInv /\ PlaceInv /\ QueueInv
    BY PipeAssumption DEF Init, GateInv, PlaceInv, QueueInv, Holding, Procs
  <1>5. RefcInv
    BY PipeAssumption, FS_EmptySet DEF Init, RefcInv, Ends, Procs
  <1>6. EofInv /\ ReaderInv /\ WriterInv
    BY DEF Init, EofInv, ReaderInv, WriterInv, OnPrx, OnPwx
  <1>7. EofMeansClosed
    BY DEF Init, EofMeansClosed, Procs
  <1> QED
    BY <1>2, <1>3, <1>4, <1>5, <1>6, <1>7 DEF IInv, RingOK

(***************************************************************************)
(* popen wakes the writers behind IFWFR when it takes back an end of file. *)
(***************************************************************************)
LEMMA popenWakes ==
  ASSUME IInv, popen, UNCHANGED pc
  PROVE  /\ iflag' \in SUBSET {"IFWFR", "IFWFW", "IFEOF"} /\ "IFEOF" \notin iflag'
         /\ asleep' \subseteq asleep
         /\ OnPrx' \subseteq OnPrx /\ OnPwx' \subseteq OnPwx
         /\ OnPrx' # {} => "IFWFW" \in iflag'
         /\ OnPwx' # {} => "IFWFR" \in iflag' /\ "IFEOF" \notin iflag
  <1> USE DEF IInv, RingOK
  <1>0. asleep # {} => refc >= 1
    BY RefcCounts DEF QueueInv, PlaceInv, TypeOK
  <1>1. PICK g \in Attached :
          \/ /\ "IFEOF" \in g
             /\ iflag' = g \ {"IFEOF", "IFWFR"}
             /\ asleep' = IF "IFWFR" \in g THEN asleep \ OnPwx ELSE asleep
          \/ "IFEOF" \notin g /\ iflag' = g /\ UNCHANGED asleep
    BY DEF popen
  <1>2. g \subseteq {"IFWFR", "IFWFW", "IFEOF"} /\ (asleep # {} => g = iflag)
    BY <1>0 DEF Attached, TypeOK
  <1>3. /\ asleep' \subseteq asleep
        /\ OnPrx' \subseteq OnPrx /\ OnPwx' \subseteq OnPwx
    BY <1>1 DEF OnPrx, OnPwx
  <1>4. OnPrx' # {} => "IFWFW" \in iflag'
    <2>1. OnPrx' # {} => asleep # {} /\ OnPrx # {}
      BY <1>3 DEF OnPrx
    <2> QED
      BY <1>1, <1>2, <2>1 DEF ReaderInv
  <1>5. OnPwx' # {} => "IFWFR" \in iflag' /\ "IFEOF" \notin iflag
    <2>1. OnPwx' # {} => asleep # {} /\ OnPwx # {}
      BY <1>3 DEF OnPwx
    <2>2. OnPwx' # {} /\ "IFWFR" \in g => "IFEOF" \notin g
      BY <1>1 DEF OnPwx
    <2> QED
      BY <1>1, <1>2, <2>1, <2>2 DEF WriterInv
  <1> QED
    BY <1>1, <1>2, <1>3, <1>4, <1>5

(***************************************************************************)
(* A new descriptor of a named pipe: what open and creat have in common.   *)
(***************************************************************************)
LEMMA fdopenInv ==
  ASSUME IInv, named' = named, NEW p \in Procs, fdopen(p)
  PROVE  /\ RefcInv' /\ PlaceInv' /\ GateInv' /\ QueueInv' /\ EofInv'
         /\ EofMeansClosed' /\ fd' \in SUBSET Procs
         /\ refc' \in 0 .. Cardinality(Procs)
         /\ OnPrx' \union OnPwx' # {} => ~ OneEndLeft'
  <1> USE DEF IInv, RingOK
  <1>0. refc \in Nat /\ (fd # {} => refc >= 1)
    BY RefcCounts
  <1>1. popen /\ UNCHANGED <<nlink, gate, pc, ioc>> /\ named
    BY DEF fdopen
  <1>2. RefcInv'
    <2>1. Cardinality(fd') = Cardinality(fd) + 1
      BY ProcsFinite, FS_AddElement DEF fdopen, TypeOK
    <2> QED
      BY <2>1 DEF RefcInv, fdopen
  <1>3. fd' \in SUBSET Procs
    BY DEF fdopen, TypeOK
  <1>4. refc' \in 0 .. Cardinality(Procs)
    BY <1>2, <1>3, ProcsFinite DEF RefcInv, fdopen
  <1>5. PlaceInv' /\ GateInv' /\ QueueInv'
    BY <1>1, popenWakes DEF fdopen, PlaceInv, GateInv, QueueInv
  <1>6. EofInv' /\ EofMeansClosed'
    BY <1>1, popenWakes DEF EofInv, EofMeansClosed
  <1>7. OnPrx' \union OnPwx' # {} => ~ OneEndLeft'
    BY <1>1 DEF fdopen, OneEndLeft
  <1> QED
    BY <1>2, <1>3, <1>4, <1>5, <1>6, <1>7

(***************************************************************************)
(* open of a named pipe.                                                   *)
(***************************************************************************)
LEMMA uopenIInv ==
  ASSUME IInv, Kept, NEW p \in Procs, uopen(p)
  PROVE  IInv'
  <1> USE DEF IInv, RingOK, Kept
  <1>1. fdopen(p) /\ popen /\ UNCHANGED <<nlink, gate, pc, ioc>>
        /\ UNCHANGED <<ring, pnc, prx, pwx, size, out>>
    BY DEF uopen, fdopen, ringvars
  <1>2. TypeOK'
    <2>1. fd' \in SUBSET Procs /\ refc' \in 0 .. Cardinality(Procs)
      BY <1>1, fdopenInv
    <2>2. /\ iflag' \in SUBSET {"IFWFR", "IFWFW", "IFEOF"}
          /\ asleep' \in SUBSET Procs /\ passed' \in SUBSET asleep'
      BY <1>1, popenWakes DEF TypeOK
    <2> QED
      BY <1>1, <2>1, <2>2 DEF TypeOK
  <1>3. (pwx = (prx + pnc) % PIPSIZE)'
    BY <1>1
  <1>4. ReaderInv'
    <2>1. OnPrx' # {} => "IFWFW" \in iflag' /\ "IFEOF" \notin iflag' /\ OnPrx # {}
      BY <1>1, popenWakes
    <2>2. OnPrx' # {} => ~ OneEndLeft'
      BY <1>1, fdopenInv
    <2> QED
      BY <1>1, <2>1, <2>2 DEF ReaderInv
  <1>5. WriterInv'
    <2>1. /\ OnPwx' \subseteq OnPwx
          /\ OnPwx' # {} => "IFWFR" \in iflag' /\ "IFEOF" \notin iflag
      BY <1>1, popenWakes
    <2>2. OnPwx' # {} => ~ OneEndLeft'
      BY <1>1, fdopenInv
    <2>3. OnPwx' \ passed' \subseteq OnPwx \ passed
      BY <2>1 DEF OnPwx
    <2> QED
      BY <1>1, <2>1, <2>2, <2>3 DEF WriterInv
  <1> QED
    BY <1>1, <1>2, <1>3, <1>4, <1>5, fdopenInv

(***************************************************************************)
(* creat of a named pipe empties the ring, and counts the writers it       *)
(* leaves asleep.                                                          *)
(***************************************************************************)
LEMMA ucreatIInv ==
  ASSUME IInv, named' = named, NEW p \in Procs, ucreat(p), passed' = OnPwx'
  PROVE  IInv'
  <1> USE DEF IInv, RingOK
  <1>1. /\ fdopen(p) /\ popen /\ UNCHANGED <<nlink, gate, pc, ioc, out>>
        /\ pnc' = 0 /\ prx' = 0 /\ pwx' = 0 /\ size' = 0 /\ ring' = Blank
    BY DEF ucreat, fdopen, iclear
  <1>2. TypeOK'
    <2>1. fd' \in SUBSET Procs /\ refc' \in 0 .. Cardinality(Procs)
      BY <1>1, fdopenInv
    <2>2. /\ iflag' \in SUBSET {"IFWFR", "IFWFW", "IFEOF"}
          /\ asleep' \in SUBSET Procs
      BY <1>1, popenWakes DEF TypeOK
    <2>3. passed' \in SUBSET asleep'
      BY DEF OnPwx
    <2>4. Blank \in [0 .. PIPSIZE - 1 -> Values]
      BY BlankType
    <2>5. 0 \in 0 .. PIPSIZE /\ 0 \in 0 .. PIPSIZE - 1
      BY PipeAssumption
    <2> QED
      BY <1>1, <2>1, <2>2, <2>3, <2>4, <2>5 DEF TypeOK
  <1>3. (pwx = (prx + pnc) % PIPSIZE)'
    BY <1>1, PipeAssumption
  <1>4. ReaderInv'
    <2>1. OnPrx' # {} => "IFWFW" \in iflag' /\ "IFEOF" \notin iflag'
      BY <1>1, popenWakes
    <2>2. OnPrx' # {} => ~ OneEndLeft'
      BY <1>1, fdopenInv
    <2> QED
      BY <1>1, <2>1, <2>2 DEF ReaderInv
  <1>5. WriterInv'
    <2>1. OnPwx' # {} => "IFWFR" \in iflag'
      BY <1>1, popenWakes
    <2>2. OnPwx' # {} => ~ OneEndLeft'
      BY <1>1, fdopenInv
    <2> QED
      BY <2>1, <2>2 DEF WriterInv
  <1> QED
    BY <1>1, <1>2, <1>3, <1>4, <1>5, fdopenInv

(***************************************************************************)
(* pevent leaves nobody asleep on a queue whose flag was set, and the      *)
(* sleepers it leaves were there before.                                   *)
(***************************************************************************)
LEMMA peventWakes ==
  ASSUME IInv, NEW g \in SUBSET {"IFWFR", "IFWFW", "IFEOF"}, pevent(g),
         UNCHANGED pc
  PROVE  /\ iflag' \in SUBSET {"IFWFR", "IFWFW", "IFEOF"}
         /\ asleep' \subseteq asleep
         /\ OnPrx' = {} /\ OnPwx' = {}
         /\ "IFEOF" \in iflag' => "IFEOF" \in g
  <1> USE DEF IInv, RingOK, Kept
  <1>1. OnPrx' \subseteq OnPrx /\ OnPwx' \subseteq OnPwx
    BY DEF pevent, OnPrx, OnPwx
  <1>2. OnPrx' = {}
    BY <1>1 DEF pevent, ReaderInv, OnPrx
  <1>3. OnPwx' = {}
    BY <1>1 DEF pevent, WriterInv, OnPwx
  <1> QED
    BY <1>2, <1>3 DEF pevent

(***************************************************************************)
(* close of a descriptor, by the last process that shares it or another.   *)
(***************************************************************************)
LEMMA pcloseIInv ==
  ASSUME IInv, Kept, NEW p \in Procs, pclose(p)
  PROVE  IInv'
  <1> USE DEF IInv, RingOK, Kept
  <1> DEFINE last == Sharers(p) = {p}
  <1>0. /\ refc \in Nat /\ refc >= 1
        /\ fd \in SUBSET Procs /\ p \in fd /\ fd' = fd \ {p}
    BY RefcCounts DEF pclose, TypeOK
  <1>1. RefcInv'
    <2>1. CASE named
      <3>1. last /\ refc' = refc - 1
        BY <2>1 DEF pclose, Sharers
      <3>2. Cardinality(fd') = Cardinality(fd) - 1
        BY <1>0, ProcsFinite, FS_RemoveElement
      <3> QED
        BY <2>1, <3>1, <3>2 DEF RefcInv, pclose
    <2>2. CASE ~ named /\ last
      BY <1>0, <2>2, PipeAssumption DEF pclose, RefcInv, Ends, Sharers, Procs
    <2>3. CASE ~ named /\ ~ last
      BY <1>0, <2>3, PipeAssumption DEF pclose, RefcInv, Ends, Sharers, Procs
    <2> QED
      BY <2>1, <2>2, <2>3
  <1>2. \/ UNCHANGED <<iflag, asleep>> /\ refc' = refc /\ ~ last
        \/ UNCHANGED <<iflag, asleep>> /\ refc' = refc - 1 /\ refc # 2 /\ last
        \/ /\ OnPrx' = {} /\ OnPwx' = {} /\ refc' = 1 /\ last
           /\ asleep' \subseteq asleep
           /\ iflag' \in SUBSET {"IFWFR", "IFWFW", "IFEOF"}
    <2>1. CASE pevent(iflag \union {"IFEOF"}) /\ refc = 2 /\ last /\ refc' = refc - 1
      <3>1. UNCHANGED pc /\ iflag \union {"IFEOF"} \in SUBSET {"IFWFR", "IFWFW", "IFEOF"}
        BY DEF pclose, TypeOK
      <3> QED
        BY <2>1, <3>1, peventWakes
    <2> QED
      BY <2>1 DEF pclose
  <1>3. TypeOK'
    <2>1. refc' \in 0 .. Cardinality(Procs)
      BY <1>0, <1>2, ProcsFinite DEF TypeOK
    <2>2. iflag' \in SUBSET {"IFWFR", "IFWFW", "IFEOF"} /\ asleep' \in SUBSET Procs
      BY <1>2 DEF TypeOK
    <2> QED
      BY <1>0, <2>1, <2>2 DEF TypeOK, pclose, ringvars
  <1>4. (pwx = (prx + pnc) % PIPSIZE)' /\ GateInv' /\ QueueInv'
    BY <1>2 DEF pclose, ringvars, GateInv, QueueInv
  <1>5. PlaceInv'
    BY <1>0 DEF pclose, PlaceInv
  <1>6. EofInv'
    BY <1>0, <1>2 DEF EofInv
  <1>7. EofMeansClosed'
    BY <1>0 DEF pclose, EofMeansClosed, ringvars
  \* Another holder keeps i_refc at two where no event is raised.
  <1>8. ASSUME NEW s \in asleep, OnPrx' \union OnPwx' # {}, OneEndLeft'
        PROVE  OneEndLeft
    <2>1. s \in fd /\ s # p
      BY <1>8, <1>0 DEF QueueInv, PlaceInv, pclose, TypeOK
    <2>2. CASE ~ last
      BY <1>2, <1>8, <2>2 DEF OneEndLeft, pclose
    <2>3. CASE named
      BY <1>0, <1>2, <1>8, <2>1, <2>3, RefcCounts DEF OneEndLeft, pclose
    <2>4. CASE ~ named /\ last
      <3>1. s \notin (IF p \in Readers THEN Readers ELSE Writers)
        BY <1>0, <2>1, <2>4 DEF Sharers
      <3>2. refc = 2
        BY <1>0, <2>1, <2>4, <3>1, PipeAssumption DEF RefcInv, Ends, Procs
      <3> QED
        BY <1>2, <3>2, <2>4, <1>8
    <2> QED
      BY <2>2, <2>3, <2>4
  <1>9. ReaderInv'
    <2>1. CASE OnPrx' = {}
      BY <2>1 DEF ReaderInv
    <2>2. CASE UNCHANGED <<iflag, asleep>> /\ OnPrx' # {}
      <3>1. OnPrx' = OnPrx
        BY <2>2 DEF OnPrx, pclose
      <3> QED
        BY <1>8, <2>2, <3>1 DEF ReaderInv, OnPrx, pclose, ringvars
    <2> QED
      BY <1>2, <2>1, <2>2
  <1>10. WriterInv'
    <2>1. CASE OnPwx' = {}
      BY <2>1 DEF WriterInv
    <2>2. CASE UNCHANGED <<iflag, asleep>> /\ OnPwx' # {}
      <3>1. OnPwx' = OnPwx
        BY <2>2 DEF OnPwx, pclose
      <3> QED
        BY <1>8, <2>2, <3>1 DEF WriterInv, OnPwx, pclose, ringvars
    <2> QED
      BY <1>2, <2>1, <2>2
  <1> QED
    BY <1>1, <1>3, <1>4, <1>5, <1>6, <1>7, <1>9, <1>10

(***************************************************************************)
(* unlink of a named pipe.                                                 *)
(***************************************************************************)
LEMMA uunlinkIInv ==
  ASSUME IInv, Kept, uunlink
  PROVE  IInv'
  <1> USE DEF IInv, RingOK, Kept
  <1>0. refc \in Nat /\ (fd # {} => refc >= 1) /\ named
    BY RefcCounts DEF uunlink, RefcInv
  <1>1. UNCHANGED <<ring, pnc, prx, pwx, size, out, refc, fd, gate, pc, ioc>> /\ nlink' = 0
    BY DEF uunlink, ringvars
  <1>2. \/ UNCHANGED <<iflag, asleep>> /\ refc # 1
        \/ /\ OnPrx' = {} /\ OnPwx' = {}
           /\ asleep' \subseteq asleep
           /\ iflag' \in SUBSET {"IFWFR", "IFWFW", "IFEOF"}
           /\ "IFEOF" \in iflag' => "IFEOF" \in iflag
    <2>1. CASE pevent(iflag)
      BY <1>1, <2>1, peventWakes DEF TypeOK
    <2> QED
      BY <1>0, <2>1 DEF uunlink
  <1>3. TypeOK'
    <2>1. iflag' \in SUBSET {"IFWFR", "IFWFW", "IFEOF"} /\ asleep' \in SUBSET Procs
      BY <1>2 DEF TypeOK
    <2> QED
      BY <1>1, <2>1 DEF TypeOK
  <1>4. (pwx = (prx + pnc) % PIPSIZE)' /\ GateInv' /\ PlaceInv' /\ EofMeansClosed'
    BY <1>1 DEF GateInv, PlaceInv, EofMeansClosed
  <1>5. QueueInv' /\ RefcInv' /\ EofInv'
    BY <1>0, <1>1, <1>2 DEF QueueInv, RefcInv, Ends, EofInv
  <1>6. CASE OnPrx' = {} /\ OnPwx' = {}
    BY <1>3, <1>4, <1>5, <1>6 DEF ReaderInv, WriterInv
  <1>7. CASE UNCHANGED <<iflag, asleep>> /\ refc # 1
    <2>1. OnPrx' = OnPrx /\ OnPwx' = OnPwx
      BY <1>1, <1>7 DEF OnPrx, OnPwx
    <2>2. asleep # {} => ~ OneEndLeft'
      <3>1. asleep # {} => fd # {}
        BY DEF QueueInv, PlaceInv, TypeOK
      <3> QED
        BY <1>0, <1>1, <1>7, <3>1 DEF OneEndLeft
    <2>3. ReaderInv'
      BY <1>1, <1>7, <2>1, <2>2 DEF ReaderInv, OnPrx
    <2>4. WriterInv'
      BY <1>1, <1>7, <2>1, <2>2 DEF WriterInv, OnPwx
    <2> QED
      BY <1>3, <1>4, <1>5, <2>3, <2>4
  <1> QED
    BY <1>2, <1>6, <1>7

(***************************************************************************)
(* A system call enters pread or pwrite, from the user or from its sleep.  *)
(***************************************************************************)
LEMMA EnterIInv ==
  ASSUME IInv, NEW p \in Procs, NEW l \in {"pread", "pwrite"},
         p \in fd, p \notin asleep, pc[p] \notin Holding, gate = Free,
         l = "pread" => p \in Readers, l = "pwrite" => p \in Writers,
         gate' = p, Goto(p, l), ioc' \in [Procs -> 0 .. MaxCount],
         UNCHANGED <<ringvars, inodevars, iflag, asleep>>, Kept
  PROVE  IInv'
  <1> USE DEF IInv, RingOK, Kept
  <1>1. UNCHANGED <<ring, pnc, prx, pwx, size, out, refc, nlink, fd>>
    BY DEF ringvars, inodevars
  <1>2. TypeOK'
    BY <1>1 DEF TypeOK, Goto, Locs
  <1>3. (pwx = (prx + pnc) % PIPSIZE)'
    BY <1>1
  <1>4. GateInv'
    BY PipeAssumption DEF GateInv, Goto, Holding, TypeOK
  <1>5. PlaceInv' /\ QueueInv'
    BY <1>1, PipeAssumption DEF PlaceInv, QueueInv, Goto, TypeOK, Procs
  <1>6. RefcInv' /\ EofInv'
    BY <1>1 DEF RefcInv, Ends, EofInv
  <1>7. OnPrx' = OnPrx /\ OnPwx' = OnPwx
    BY DEF OnPrx, OnPwx, Goto, TypeOK
  <1>8. ReaderInv'
    BY <1>1, <1>7 DEF ReaderInv, OneEndLeft
  <1>9. WriterInv'
    <2>1. ~ \E r \in Readers : pc[r] \in {"take", "eof"}
      BY PipeAssumption DEF GateInv, Holding, Procs
    <2>2. OnPwx' \ passed' = OnPwx \ passed
      BY <1>7 DEF OnPwx
    <2> QED
      BY <1>1, <1>7, <2>1, <2>2 DEF WriterInv, OneEndLeft
  <1>10. EofMeansClosed'
    BY <1>1 DEF EofMeansClosed, Goto, TypeOK, Procs
  <1> QED
    BY <1>2, <1>3, <1>4, <1>5, <1>6, <1>8, <1>9, <1>10

LEMMA CallIInv ==
  ASSUME IInv, Kept, NEW p \in Procs, NEW c \in 1 .. MaxCount,
         NEW l \in {"pread", "pwrite"}, Call(p, l, c),
         l = "pread" => p \in Readers, l = "pwrite" => p \in Writers
  PROVE  IInv'
  <1>1. p \notin asleep /\ pc[p] \notin Holding /\ p \in fd /\ gate = Free
    BY DEF IInv, QueueInv, Call, Holding
  <1>2. ioc' \in [Procs -> 0 .. MaxCount]
    BY DEF IInv, RingOK, TypeOK, Call
  <1> QED
    BY <1>1, <1>2, EnterIInv DEF Call

LEMMA ResumeIInv ==
  ASSUME IInv, Kept, NEW p \in Procs, Resume(p)
  PROVE  IInv'
  <1>1. CASE Woken(p, "rsleep", "pread")
    <2>1. p \in fd /\ p \in Readers /\ pc[p] \notin Holding
      BY <1>1 DEF IInv, PlaceInv, Woken, Procs, Holding
    <2>2. ioc' \in [Procs -> 0 .. MaxCount]
      BY <1>1 DEF IInv, RingOK, TypeOK, Woken
    <2> QED
      BY <1>1, <2>1, <2>2, EnterIInv DEF Woken
  <1>2. CASE Woken(p, "wsleep", "pwrite")
    <2>1. p \in fd /\ p \in Writers /\ pc[p] \notin Holding
      BY <1>2 DEF IInv, PlaceInv, Woken, Procs, Holding
    <2>2. ioc' \in [Procs -> 0 .. MaxCount]
      BY <1>2 DEF IInv, RingOK, TypeOK, Woken
    <2> QED
      BY <1>2, <2>1, <2>2, EnterIInv DEF Woken
  <1> QED
    BY <1>1, <1>2 DEF Resume

(***************************************************************************)
(* A signal takes one process off its queue.                               *)
(***************************************************************************)
LEMMA SignalIInv ==
  ASSUME IInv, Kept, NEW p \in Procs, Signal(p)
  PROVE  IInv'
  <1> USE DEF IInv, RingOK, Kept
  <1>1. UNCHANGED <<ring, pnc, prx, pwx, size, out, refc, nlink, fd, iflag, gate>>
    BY DEF Signal, ringvars, inodevars
  <1>2. TypeOK'
    BY <1>1, PipeAssumption DEF TypeOK, Signal, Goto, Locs
  <1>3. (pwx = (prx + pnc) % PIPSIZE)'
    BY <1>1
  <1>4. GateInv' /\ PlaceInv' /\ QueueInv'
    BY <1>1 DEF GateInv, PlaceInv, QueueInv, Signal, Goto, TypeOK, Holding, Procs
  <1>5. RefcInv' /\ EofInv'
    BY <1>1 DEF RefcInv, Ends, EofInv
  <1>6. OnPrx' \subseteq OnPrx /\ OnPwx' \subseteq OnPwx
    BY DEF OnPrx, OnPwx, Signal, Goto, TypeOK
  <1>7. ReaderInv'
    BY <1>1, <1>6 DEF ReaderInv, OneEndLeft
  <1>8. WriterInv'
    <2>1. \A r \in Readers : pc[r] \in {"take", "eof"} => pc'[r] = pc[r]
      BY DEF Signal, Goto, TypeOK, Procs
    <2>2. OnPwx' \ passed' \subseteq OnPwx \ passed
      BY <1>6 DEF OnPwx
    <2> QED
      BY <1>1, <1>6, <2>1, <2>2 DEF WriterInv, OneEndLeft
  <1>9. EofMeansClosed'
    BY <1>1 DEF EofMeansClosed, Signal, Goto, TypeOK, Procs
  <1> QED
    BY <1>2, <1>3, <1>4, <1>5, <1>7, <1>8, <1>9

(***************************************************************************)
(* The process inside pread or pwrite is alone there, and on no queue.     *)
(***************************************************************************)
LEMMA Alone ==
  ASSUME IInv, NEW p \in Procs, pc[p] \in Holding
  PROVE  /\ gate = p /\ p \notin asleep /\ p \in fd
         /\ \A q \in Procs : q # p => pc[q] \notin Holding
  BY DEF IInv, GateInv, QueueInv, PlaceInv, Holding

(***************************************************************************)
(* The first loop of pread: bytes, the end of the pipe, or a sleep.        *)
(***************************************************************************)
LEMMA preadIInv ==
  ASSUME IInv, Kept, NEW p \in Procs, pread(p)
  PROVE  IInv'
  <1> USE DEF IInv, RingOK, Kept
  <1>0. /\ gate = p /\ p \notin asleep /\ p \in fd /\ p \in Readers
        /\ pc[p] = "pread"
        /\ \A q \in Procs : q # p => pc[q] \notin Holding
    BY Alone DEF pread, Holding, PlaceInv, Procs
  <1>1. UNCHANGED <<ring, pnc, prx, pwx, size, out, refc, nlink, fd, ioc>>
    BY DEF pread, Sleep, ringvars, inodevars
  <1>2. (pwx = (prx + pnc) % PIPSIZE)' /\ RefcInv'
    BY <1>1 DEF RefcInv, Ends
  <1>3. CASE pnc > 0 /\ Goto(p, "take") /\ UNCHANGED <<iflag, gate, asleep>>
    <2>1. TypeOK'
      BY <1>1, <1>3 DEF TypeOK, Goto, Locs
    <2>2. GateInv' /\ PlaceInv' /\ QueueInv'
      BY <1>0, <1>1, <1>3, PipeAssumption
         DEF GateInv, PlaceInv, QueueInv, Goto, TypeOK, Holding, Procs
    <2>3. OnPrx' = OnPrx /\ OnPwx' = OnPwx
      BY <1>0, <1>3 DEF OnPrx, OnPwx, Goto, TypeOK
    <2>4. ReaderInv' /\ EofInv'
      BY <1>1, <1>3, <2>3 DEF ReaderInv, EofInv, OneEndLeft
    <2>5. WriterInv'
      BY <1>0, <1>1, <1>3, <2>3 DEF WriterInv, OneEndLeft, Goto, TypeOK
    <2>6. EofMeansClosed'
      BY <1>0, <1>1, <1>3 DEF EofMeansClosed, Goto, TypeOK, Procs, Holding
    <2> QED
      BY <1>2, <2>1, <2>2, <2>4, <2>5, <2>6
  <1>4. CASE /\ pnc = 0 /\ ("IFEOF" \in iflag \/ OneEndLeft)
             /\ iflag' = iflag \ {"IFEOF"}
             /\ Goto(p, "eof") /\ UNCHANGED <<gate, asleep>>
    <2>1. TypeOK'
      BY <1>1, <1>4 DEF TypeOK, Goto, Locs
    <2>2. GateInv' /\ PlaceInv' /\ QueueInv'
      BY <1>0, <1>1, <1>4, PipeAssumption
         DEF GateInv, PlaceInv, QueueInv, Goto, TypeOK, Holding, Procs
    <2>3. OnPrx' = OnPrx /\ OnPwx' = OnPwx
      BY <1>0, <1>4 DEF OnPrx, OnPwx, Goto, TypeOK
    <2>4. ReaderInv' /\ EofInv'
      BY <1>1, <1>4, <2>3 DEF ReaderInv, EofInv, OneEndLeft
    <2>5. WriterInv'
      BY <1>0, <1>1, <1>4, <2>3 DEF WriterInv, OneEndLeft, Goto, TypeOK
    <2>6. EofMeansClosed'
      <3>1. ~ named => refc < 2
        BY <1>4 DEF EofInv, OneEndLeft
      <3>2. ~ named => fd \intersect Writers = {}
        BY <1>0, <3>1, RefcCounts
      <3> QED
        BY <1>1, <1>4, <3>2 DEF EofMeansClosed
    <2> QED
      BY <1>2, <2>1, <2>2, <2>4, <2>5, <2>6
  <1>5. CASE /\ pnc = 0 /\ "IFEOF" \notin iflag /\ ~ OneEndLeft
             /\ Sleep(p, "rsleep", "IFWFW")
    <2>0. /\ iflag' = iflag \union {"IFWFW"} /\ gate' = Free
          /\ asleep' = asleep \union {p} /\ pc' = [pc EXCEPT ![p] = "rsleep"]
      BY <1>5 DEF Sleep, Goto
    <2>1. TypeOK'
      BY <1>1, <2>0 DEF TypeOK, Locs
    <2>2. GateInv' /\ PlaceInv' /\ QueueInv'
      BY <1>0, <1>1, <2>0, PipeAssumption
         DEF GateInv, PlaceInv, QueueInv, TypeOK, Holding, Procs
    <2>3. OnPwx' = OnPwx
      BY <1>0, <2>0 DEF OnPwx, TypeOK
    <2>4. ReaderInv' /\ EofInv'
      BY <1>1, <1>5, <2>0 DEF ReaderInv, EofInv, OneEndLeft
    <2>5. WriterInv'
      BY <1>0, <1>1, <2>0, <2>3 DEF WriterInv, OneEndLeft, TypeOK, Procs
    <2>6. EofMeansClosed'
      BY <1>0, <1>1, <2>0 DEF EofMeansClosed, TypeOK, Procs
    <2> QED
      BY <1>2, <2>1, <2>2, <2>4, <2>5, <2>6
  <1> QED
    BY <1>3, <1>4, <1>5 DEF pread

(***************************************************************************)
(* What the sizes of the ring leave modulo PIPSIZE.                        *)
(***************************************************************************)
LEMMA RingModulo ==
  ASSUME NEW k \in 0 .. PIPSIZE - 1
  PROVE  k % PIPSIZE = k /\ (PIPSIZE + k) % PIPSIZE = k
  BY PipeAssumption

(***************************************************************************)
(* A function on 1 .. m is a sequence of length m.                         *)
(***************************************************************************)
LEMMA SequenceOf ==
  ASSUME NEW m \in Nat, NEW S, NEW f \in [1 .. m -> S]
  PROVE  f \in Seq(S) /\ Len(f) = m
  OBVIOUS

(***************************************************************************)
(* One round of the second loop of pread takes m bytes.                    *)
(***************************************************************************)
LEMMA takeMoves ==
  ASSUME IInv, NEW p \in Procs, take(p)
  PROVE  \E m \in 0 .. pnc :
           /\ m <= ioc[p] /\ prx + m <= PIPSIZE
           /\ out' = [i \in 1 .. m |-> ring[prx + i - 1]]
           /\ prx' = IF prx + m = PIPSIZE THEN 0 ELSE prx + m
           /\ pnc' = pnc - m
           /\ ioc' \in [Procs -> 0 .. MaxCount]
  <1> DEFINE n == Readable(p)
  <1>1. /\ PIPSIZE \in Nat /\ MaxCount \in Nat /\ pnc \in 0 .. PIPSIZE
        /\ prx \in 0 .. PIPSIZE - 1 /\ ioc \in [Procs -> 0 .. MaxCount]
        /\ ioc[p] \in 0 .. MaxCount /\ size \in 0 .. PIPSIZE
    BY PipeAssumption DEF IInv, RingOK, TypeOK
  <1>2. n \in Nat /\ n <= pnc /\ n <= ioc[p] /\ n <= PIPSIZE - prx
    BY <1>1 DEF Least, Readable, Wanted
  <1> HIDE DEF n
  <1>3. PICK m \in 0 .. n :
          /\ out' = [i \in 1 .. m |-> ring[prx + i - 1]]
          /\ prx' = IF prx + m = PIPSIZE THEN 0 ELSE prx + m
          /\ pnc' = pnc - m
          /\ ioc' = [ioc EXCEPT ![p] = IF m < n THEN 0 ELSE @ - m]
    BY DEF take, n
  <1>4. m \in 0 .. pnc /\ m <= ioc[p] /\ prx + m <= PIPSIZE
    BY <1>1, <1>2
  <1>5. ioc' \in [Procs -> 0 .. MaxCount]
    BY <1>1, <1>3, <1>4
  <1> QED
    BY <1>3, <1>4, <1>5

LEMMA takeIInv ==
  ASSUME IInv, Kept, NEW p \in Procs, take(p)
  PROVE  IInv'
  <1> USE DEF IInv, RingOK, Kept
  <1>0. /\ gate = p /\ p \in Readers /\ pc[p] = "take" /\ pnc > 0
        /\ \A q \in Procs : q # p => pc[q] \notin Holding
    BY Alone DEF take, Holding, PlaceInv, Procs
  <1>1. UNCHANGED <<ring, pwx, size, refc, nlink, fd, iflag, gate, pc, asleep>>
    BY DEF take, inodevars
  <1>2. /\ PIPSIZE \in Nat \ {0} /\ pnc \in 0 .. PIPSIZE /\ prx \in 0 .. PIPSIZE - 1
        /\ ring \in [0 .. PIPSIZE - 1 -> Values]
    BY PipeAssumption DEF TypeOK
  <1>3. PICK m \in 0 .. pnc :
           /\ m <= ioc[p] /\ prx + m <= PIPSIZE
           /\ out' = [i \in 1 .. m |-> ring[prx + i - 1]]
           /\ prx' = IF prx + m = PIPSIZE THEN 0 ELSE prx + m
           /\ pnc' = pnc - m
           /\ ioc' \in [Procs -> 0 .. MaxCount]
    BY takeMoves
  <1>4. TypeOK'
    <2>1. out' \in [1 .. m -> Values]
      BY <1>2, <1>3
    <2>2. out' \in Seq(Values) /\ Len(out') <= PIPSIZE
      <3>1. m \in Nat /\ m <= PIPSIZE
        BY <1>2
      <3> QED
        BY <2>1, <3>1, SequenceOf
    <2>3. prx' \in 0 .. PIPSIZE - 1 /\ pnc' \in 0 .. PIPSIZE
      BY <1>2, <1>3
    <2> QED
      BY <1>1, <1>3, <2>2, <2>3 DEF TypeOK
  <1>5. (pwx = (prx + pnc) % PIPSIZE)'
    <2>1. CASE prx + m = PIPSIZE
      <3>1. prx + pnc = PIPSIZE + pnc'
        BY <1>2, <1>3, <2>1
      <3>2. pnc' \in 0 .. PIPSIZE - 1
        BY <1>2, <1>3, <2>1
      <3>3. (PIPSIZE + pnc') % PIPSIZE = pnc' /\ pnc' % PIPSIZE = pnc'
        BY <3>2, RingModulo
      <3> QED
        BY <1>1, <1>3, <2>1, <3>1, <3>2, <3>3
    <2>2. CASE prx + m # PIPSIZE
      BY <1>1, <1>2, <1>3, <2>2
    <2> QED
      BY <2>1, <2>2
  <1>6. GateInv' /\ PlaceInv' /\ QueueInv' /\ RefcInv' /\ EofInv'
    BY <1>1 DEF GateInv, PlaceInv, QueueInv, RefcInv, Ends, EofInv
  <1>7. OnPrx' = OnPrx /\ OnPwx' = OnPwx
    BY <1>1 DEF OnPrx, OnPwx
  <1>8. ReaderInv'
    BY <1>0, <1>1, <1>2, <1>7 DEF ReaderInv
  <1>9. WriterInv'
    BY <1>0, <1>1, <1>7 DEF WriterInv, OneEndLeft
  <1>10. EofMeansClosed'
    BY <1>0, <1>1 DEF EofMeansClosed, Holding, Procs
  <1> QED
    BY <1>4, <1>5, <1>6, <1>8, <1>9, <1>10

(***************************************************************************)
(* The end of pread wakes the writers that wait for room.                  *)
(***************************************************************************)
LEMMA preadEndIInv ==
  ASSUME IInv, Kept, NEW p \in Procs, preadEnd(p)
  PROVE  IInv'
  <1> USE DEF IInv, RingOK, Kept
  <1>0. /\ gate = p /\ p \notin asleep /\ pc[p] \in {"take", "eof"}
        /\ \A q \in Procs : q # p => pc[q] \notin Holding
    BY Alone DEF preadEnd, Holding
  <1>1. /\ UNCHANGED <<ring, pnc, prx, pwx, size, out, refc, nlink, fd>>
        /\ gate' = Free /\ pc' = [pc EXCEPT ![p] = "user"]
        /\ ioc' = [ioc EXCEPT ![p] = 0]
    BY DEF preadEnd, Return, Goto, ringvars, inodevars
  <1>2. \/ UNCHANGED <<iflag, asleep>> /\ ("IFWFR" \notin iflag \/ pnc = PIPSIZE)
        \/ iflag' = iflag \ {"IFWFR"} /\ asleep' = asleep \ OnPwx
    BY DEF preadEnd
  <1>3. TypeOK'
    <2>1. ioc' \in [Procs -> 0 .. MaxCount] /\ pc' \in [Procs -> Locs]
      BY <1>1, PipeAssumption DEF TypeOK, Locs
    <2>2. iflag' \in SUBSET {"IFWFR", "IFWFW", "IFEOF"} /\ asleep' \in SUBSET Procs
      BY <1>2 DEF TypeOK
    <2> QED
      BY <1>1, <2>1, <2>2 DEF TypeOK
  <1>4. (pwx = (prx + pnc) % PIPSIZE)' /\ RefcInv'
    BY <1>1 DEF RefcInv, Ends
  <1>5. GateInv'
    BY <1>0, <1>1, PipeAssumption DEF GateInv, TypeOK, Holding
  <1>6. PlaceInv' /\ QueueInv'
    BY <1>0, <1>1, <1>2 DEF PlaceInv, QueueInv, TypeOK, Procs
  <1>7. EofInv'
    BY <1>1, <1>2 DEF EofInv
  <1>8. ReaderInv'
    <2>1. OnPrx' \subseteq OnPrx
      BY <1>0, <1>1, <1>2 DEF OnPrx, TypeOK
    <2> QED
      BY <1>1, <1>2, <2>1 DEF ReaderInv, OneEndLeft
  <1>9. WriterInv'
    <2>1. OnPwx' \subseteq OnPwx /\ (OnPwx' # {} => UNCHANGED iflag /\ pnc = PIPSIZE)
      BY <1>0, <1>1, <1>2 DEF OnPwx, TypeOK, WriterInv
    <2> QED
      BY <1>1, <2>1 DEF WriterInv, OneEndLeft
  <1>10. EofMeansClosed'
    BY <1>0, <1>1 DEF EofMeansClosed, TypeOK, Procs, Holding
  <1> QED
    BY <1>3, <1>4, <1>5, <1>6, <1>7, <1>8, <1>9, <1>10

(***************************************************************************)
(* pwrite returns.                                                         *)
(***************************************************************************)
LEMMA pwriteEndIInv ==
  ASSUME IInv, Kept, NEW p \in Procs, pwriteEnd(p)
  PROVE  IInv'
  <1> USE DEF IInv, RingOK, Kept
  <1>0. /\ gate = p /\ p \notin asleep /\ pc[p] = "pwrite"
        /\ \A q \in Procs : q # p => pc[q] \notin Holding
    BY Alone DEF pwriteEnd, Holding
  <1>1. /\ UNCHANGED <<ring, pnc, prx, pwx, size, out, refc, nlink, fd, iflag, asleep>>
        /\ gate' = Free /\ pc' = [pc EXCEPT ![p] = "user"]
        /\ ioc' = [ioc EXCEPT ![p] = 0]
    BY DEF pwriteEnd, Return, Goto, ringvars, inodevars
  <1>2. TypeOK'
    BY <1>1, PipeAssumption DEF TypeOK, Locs
  <1>3. (pwx = (prx + pnc) % PIPSIZE)' /\ RefcInv' /\ EofInv'
    BY <1>1 DEF RefcInv, Ends, EofInv
  <1>4. GateInv' /\ PlaceInv' /\ QueueInv'
    BY <1>0, <1>1, PipeAssumption
       DEF GateInv, PlaceInv, QueueInv, TypeOK, Holding, Procs
  <1>5. OnPrx' = OnPrx /\ OnPwx' = OnPwx
    BY <1>0, <1>1 DEF OnPrx, OnPwx, TypeOK
  <1>6. ReaderInv'
    BY <1>1, <1>5 DEF ReaderInv, OneEndLeft
  <1>7. WriterInv'
    BY <1>0, <1>1, <1>5 DEF WriterInv, OneEndLeft, TypeOK, Procs
  <1>8. EofMeansClosed'
    BY <1>1 DEF EofMeansClosed, TypeOK, Procs
  <1> QED
    BY <1>2, <1>3, <1>4, <1>6, <1>7, <1>8

(***************************************************************************)
(* pwrite sleeps: the ring is full, or the readers are gone for now.       *)
(***************************************************************************)
LEMMA pwriteSleepIInv ==
  ASSUME IInv, Kept, NEW p \in Procs, pwriteSleep(p)
  PROVE  IInv'
  <1> USE DEF IInv, RingOK, Kept
  <1>0. /\ gate = p /\ p \notin asleep /\ pc[p] = "pwrite" /\ p \in fd
        /\ p \in Writers /\ ~ OneEndLeft
        /\ \A q \in Procs : q # p => pc[q] \notin Holding
    BY Alone DEF pwriteSleep, Holding, PlaceInv, Procs
  <1>1. /\ UNCHANGED <<ring, pnc, prx, pwx, size, out, refc, nlink, fd, ioc>>
        /\ iflag' = iflag \union {"IFWFR"} /\ gate' = Free
        /\ asleep' = asleep \union {p} /\ pc' = [pc EXCEPT ![p] = "wsleep"]
    BY DEF pwriteSleep, Sleep, Goto, ringvars, inodevars
  <1>2. pnc = PIPSIZE \/ "IFEOF" \in iflag
    <2>1. ioc[p] \in Nat /\ ioc[p] > 0 /\ (Room(p) = 0 \/ "IFEOF" \in iflag)
      BY DEF pwriteSleep, TypeOK
    <2>2. pwx \in 0 .. PIPSIZE - 1 /\ pnc \in 0 .. PIPSIZE /\ PIPSIZE \in Nat
      BY PipeAssumption DEF TypeOK
    <2> QED
      BY <2>1, <2>2 DEF Room, Least
  <1>3. TypeOK'
    BY <1>1 DEF TypeOK, Locs
  <1>4. (pwx = (prx + pnc) % PIPSIZE)' /\ RefcInv' /\ EofInv'
    BY <1>1 DEF RefcInv, Ends, EofInv
  <1>5. GateInv' /\ PlaceInv' /\ QueueInv'
    BY <1>0, <1>1, PipeAssumption
       DEF GateInv, PlaceInv, QueueInv, TypeOK, Holding, Procs
  <1>6. OnPrx' = OnPrx
    BY <1>0, <1>1 DEF OnPrx, TypeOK
  <1>7. ReaderInv'
    BY <1>1, <1>6 DEF ReaderInv, OneEndLeft
  <1>8. WriterInv'
    BY <1>0, <1>1, <1>2 DEF WriterInv, OneEndLeft
  <1>9. EofMeansClosed'
    BY <1>1 DEF EofMeansClosed, TypeOK, Procs
  <1> QED
    BY <1>3, <1>4, <1>5, <1>7, <1>8, <1>9

\* The m bytes s go into the ring, and the readers that wait are woken.
Moved(m, s) ==
  /\ pwx + m <= PIPSIZE
  /\ ring' = [i \in 0 .. PIPSIZE - 1 |->
       IF i \in pwx .. pwx + m - 1 THEN s[i - pwx + 1] ELSE ring[i]]
  /\ pwx' = IF pwx + m = PIPSIZE THEN 0 ELSE pwx + m
  /\ pnc' = pnc + m
  /\ size' \in 0 .. PIPSIZE
  /\ ioc' \in [Procs -> 0 .. MaxCount]
  /\ \/ /\ "IFWFW" \in iflag
        /\ iflag' = iflag \ {"IFWFW"}
        /\ asleep' = asleep \ OnPrx
     \/ /\ "IFWFW" \notin iflag \/ pnc + m = 0
        /\ UNCHANGED <<iflag, asleep>>

(***************************************************************************)
(* The whole blocks below n end at or before it.                           *)
(***************************************************************************)
LEMMA WholeBlocks ==
  ASSUME NEW n \in Nat, NEW b \in Nat \ {0}
  PROVE  (n \div b) * b \in Nat /\ (n \div b) * b <= n
  OBVIOUS

(***************************************************************************)
(* One round of pwrite puts the m bytes s.                                 *)
(***************************************************************************)
LEMMA putMoves ==
  ASSUME IInv, NEW p \in Procs, put(p)
  PROVE  \E m \in 0 .. PIPSIZE - pnc : \E s \in [1 .. m -> Values] : Moved(m, s)
  <1>1. /\ PIPSIZE \in Nat /\ MaxCount \in Nat /\ pnc \in 0 .. PIPSIZE
        /\ pwx \in 0 .. PIPSIZE - 1 /\ ioc \in [Procs -> 0 .. MaxCount]
        /\ ioc[p] \in 0 .. MaxCount
    BY PipeAssumption DEF IInv, RingOK, TypeOK
  <1>2. /\ Room(p) \in Nat /\ Room(p) <= PIPSIZE - pnc
        /\ Room(p) <= ioc[p] /\ Room(p) <= PIPSIZE - pwx
    BY <1>1 DEF Room, Least
  <1>3. PICK m \in 0 .. Room(p) : \E s \in [1 .. m -> Values] :
           /\ ring' = [i \in 0 .. PIPSIZE - 1 |->
                IF i \in pwx .. pwx + m - 1 THEN s[i - pwx + 1] ELSE ring[i]]
           /\ pwx' = IF pwx + m = PIPSIZE THEN 0 ELSE pwx + m
           /\ pnc' = pnc + m
           /\ size' = Written(m, Room(p))
           /\ ioc' = [ioc EXCEPT ![p] = IF m < Room(p) THEN 0 ELSE @ - m]
           /\ \/ /\ "IFWFW" \in iflag
                 /\ iflag' = iflag \ {"IFWFW"}
                 /\ asleep' = asleep \ OnPrx
              \/ /\ "IFWFW" \notin iflag \/ pnc + m = 0
                 /\ UNCHANGED <<iflag, asleep>>
    BY DEF put
  <1>4. m \in 0 .. PIPSIZE - pnc /\ m <= ioc[p] /\ pwx + m <= PIPSIZE
    BY <1>1, <1>2
  <1>5. ioc' \in [Procs -> 0 .. MaxCount]
    BY <1>1, <1>3, <1>4
  <1>6. size' \in 0 .. PIPSIZE
    <2>1. size \in 0 .. PIPSIZE /\ BSIZE \in Nat \ {0} /\ pwx + m \in Nat
      BY <1>1, <1>4, PipeAssumption DEF IInv, RingOK, TypeOK
    <2>2. /\ ((pwx + m) \div BSIZE) * BSIZE \in Nat
          /\ ((pwx + m) \div BSIZE) * BSIZE <= pwx + m
      BY <2>1, WholeBlocks
    <2> QED
      BY <1>1, <1>3, <1>4, <2>1, <2>2 DEF Written
  <1>7. \E s \in [1 .. m -> Values] : Moved(m, s)
    BY <1>3, <1>4, <1>5, <1>6 DEF Moved
  <1> QED
    BY <1>4, <1>7

LEMMA putIInv ==
  ASSUME IInv, Kept, NEW p \in Procs, put(p)
  PROVE  IInv'
  <1> USE DEF IInv, RingOK, Kept
  <1>0. /\ gate = p /\ p \in Writers /\ pc[p] = "pwrite" /\ "IFEOF" \notin iflag
        /\ \A q \in Procs : q # p => pc[q] \notin Holding
    BY Alone DEF put, Holding, PlaceInv, Procs
  <1>1. UNCHANGED <<prx, out, refc, nlink, fd, gate, pc>>
    BY DEF put, inodevars
  <1>2. /\ PIPSIZE \in Nat \ {0} /\ pnc \in 0 .. PIPSIZE /\ prx \in 0 .. PIPSIZE - 1
        /\ pwx \in 0 .. PIPSIZE - 1 /\ pwx = (prx + pnc) % PIPSIZE
        /\ ring \in [0 .. PIPSIZE - 1 -> Values]
    BY PipeAssumption DEF TypeOK
  <1>3a. PICK m \in 0 .. PIPSIZE - pnc : \E s \in [1 .. m -> Values] : Moved(m, s)
    BY putMoves
  <1>3b. PICK s \in [1 .. m -> Values] : Moved(m, s)
    BY <1>3a
  <1>3. /\ pwx + m <= PIPSIZE
        /\ ring' = [i \in 0 .. PIPSIZE - 1 |->
             IF i \in pwx .. pwx + m - 1 THEN s[i - pwx + 1] ELSE ring[i]]
        /\ pwx' = IF pwx + m = PIPSIZE THEN 0 ELSE pwx + m
        /\ pnc' = pnc + m
        /\ size' \in 0 .. PIPSIZE
        /\ ioc' \in [Procs -> 0 .. MaxCount]
        /\ \/ /\ "IFWFW" \in iflag
              /\ iflag' = iflag \ {"IFWFW"}
              /\ asleep' = asleep \ OnPrx
           \/ /\ "IFWFW" \notin iflag \/ pnc + m = 0
              /\ UNCHANGED <<iflag, asleep>>
    BY <1>3b DEF Moved
  <1>4. TypeOK'
    <2>1. ring' \in [0 .. PIPSIZE - 1 -> Values]
      BY <1>2, <1>3
    <2>2. pwx' \in 0 .. PIPSIZE - 1 /\ pnc' \in 0 .. PIPSIZE
      BY <1>2, <1>3
    <2>3. iflag' \in SUBSET {"IFWFR", "IFWFW", "IFEOF"} /\ asleep' \in SUBSET Procs
      BY <1>3 DEF TypeOK
    <2> QED
      BY <1>1, <1>3, <2>1, <2>2, <2>3 DEF TypeOK
  <1>5. (pwx = (prx + pnc) % PIPSIZE)'
    <2>0. /\ m \in Nat /\ pnc \in Nat /\ PIPSIZE \in Nat /\ pwx \in Nat
          /\ prx \in 0 .. PIPSIZE - 1 /\ pnc' = pnc + m /\ pnc + m <= PIPSIZE
      BY <1>2, <1>3
    <2>1. prx + pnc \in 0 .. PIPSIZE + PIPSIZE - 1
      BY <1>2
    <2>2. prx + pnc = pwx \/ prx + pnc = PIPSIZE + pwx
      <3>1. CASE prx + pnc < PIPSIZE
        BY <1>2, <2>1, <3>1, RingModulo
      <3>2. CASE prx + pnc >= PIPSIZE
        <4>1. prx + pnc - PIPSIZE \in 0 .. PIPSIZE - 1
          BY <1>2, <2>1, <3>2
        <4>2. prx + pnc = PIPSIZE + (prx + pnc - PIPSIZE)
          BY <1>2
        <4> QED
          BY <1>2, <4>1, <4>2, RingModulo
      <3> QED
        BY <1>2, <3>1, <3>2
    <2>3. CASE pwx + m < PIPSIZE
      <3>1. pwx + m \in 0 .. PIPSIZE - 1 /\ pwx' = pwx + m
        BY <1>2, <1>3, <2>3
      <3>2. prx + pnc' = pwx + m \/ prx + pnc' = PIPSIZE + (pwx + m)
        BY <2>0, <2>2
      <3> QED
        BY <1>1, <3>1, <3>2, RingModulo
    <2>4. CASE pwx + m = PIPSIZE
      <3>1. prx + pnc' = PIPSIZE
        BY <2>0, <2>2, <2>4
      <3>2. 0 \in 0 .. PIPSIZE - 1 /\ PIPSIZE = PIPSIZE + 0
        BY <1>2
      <3> QED
        BY <1>1, <1>3, <2>4, <3>1, <3>2, RingModulo
    <2> QED
      BY <1>2, <1>3, <2>3, <2>4
  <1>6. GateInv' /\ PlaceInv' /\ QueueInv' /\ RefcInv' /\ EofInv'
    BY <1>1, <1>3 DEF GateInv, PlaceInv, QueueInv, RefcInv, Ends, EofInv
  <1>7. ReaderInv'
    <2>1. OnPrx' # {} => UNCHANGED iflag /\ OnPrx # {} /\ pnc + m = 0
      BY <1>1, <1>3 DEF OnPrx, ReaderInv
    <2> QED
      BY <1>1, <1>3, <2>1 DEF ReaderInv, OneEndLeft
  <1>8. WriterInv'
    <2>1. pnc < PIPSIZE
      BY <1>2 DEF put, Room, Least, TypeOK
    <2>2. ~ \E r \in Readers : pc[r] \in {"take", "eof"}
      BY <1>0 DEF Holding, Procs
    <2>3. OnPwx \ passed = {}
      BY <1>0, <1>2, <2>1, <2>2 DEF WriterInv
    <2>4. OnPwx' \subseteq OnPwx /\ OnPwx' \ passed' = {}
      BY <1>1, <1>3, <2>3 DEF OnPwx
    <2>5. OnPwx' # {} => "IFWFR" \in iflag' /\ ~ OneEndLeft'
      BY <1>1, <1>3, <2>4 DEF WriterInv, OneEndLeft
    <2> QED
      BY <2>4, <2>5 DEF WriterInv
  <1>9. EofMeansClosed'
    BY <1>0, <1>1 DEF EofMeansClosed, Holding, Procs
  <1> QED
    BY <1>4, <1>5, <1>6, <1>7, <1>8, <1>9

(***************************************************************************)
(* Every step preserves the inductive invariant.                           *)
(***************************************************************************)
LEMMA NextIInv == IInv /\ [Next]_vars => IInv'
  <1> SUFFICES ASSUME IInv, [Next]_vars PROVE IInv'
    OBVIOUS
  <1>1. CASE UNCHANGED vars
    BY <1>1 DEF vars, IInv, RingOK, TypeOK, GateInv, PlaceInv, QueueInv, RefcInv,
       Ends, EofInv, ReaderInv, WriterInv, EofMeansClosed, OnPrx, OnPwx, OneEndLeft
  <1>2. ASSUME Next PROVE IInv'
    <2>0. CASE Kept /\ Others
      <3>1. ASSUME NEW p \in Procs, Step(p) PROVE IInv'
        BY <2>0, <3>1, preadIInv, takeIInv, preadEndIInv, pwriteEndIInv,
           pwriteSleepIInv, putIInv DEF Step
      <3>2. ASSUME NEW p \in Procs, Resume(p) \/ Signal(p) \/ uopen(p) \/ pclose(p)
            PROVE  IInv'
        BY <2>0, <3>2, ResumeIInv, SignalIInv, uopenIInv, pcloseIInv
      <3>3. ASSUME NEW c \in 1 .. MaxCount, NEW p \in Readers, Call(p, "pread", c)
            PROVE  IInv'
        BY <2>0, <3>3, CallIInv DEF Procs
      <3>4. ASSUME NEW c \in 1 .. MaxCount, NEW p \in Writers, Call(p, "pwrite", c)
            PROVE  IInv'
        BY <2>0, <3>4, CallIInv DEF Procs
      <3>5. CASE uunlink
        BY <2>0, <3>5, uunlinkIInv
      <3> QED
        BY <2>0, <3>1, <3>2, <3>3, <3>4, <3>5 DEF Others
    <2>1. ASSUME NEW p \in Writers, named' = named, ucreat(p), passed' = OnPwx'
          PROVE  IInv'
      BY <2>1, ucreatIInv DEF Procs
    <2> QED
      BY <1>2, <2>0, <2>1 DEF Next, Kept
  <1> QED
    BY <1>1, <1>2

LEMMA SpecIInv == Spec => []IInv
  BY InitIInv, NextIInv, PTL DEF Spec

(***************************************************************************)
(* pread and pwrite keep i_pnc, i_prx and i_pwx in step, through wraps,    *)
(* short copies, signals and closes, for a ring of any size.               *)
(***************************************************************************)
THEOREM PipeRingOK == Spec => []RingOK
  <1>1. IInv => RingOK
    BY DEF IInv
  <1> QED
    BY SpecIInv, <1>1, PTL

(***************************************************************************)
(* No reader and no writer sleeps on a condition that already holds, but   *)
(* for writers that a creat has passed over, and the flag that makes the   *)
(* other side wake it is set.                                              *)
(***************************************************************************)
THEOREM PipeSleepsRightly == Spec => []SleepsRightly
  <1>1. IInv => SleepsRightly
    BY PipeAssumption DEF IInv, ReaderInv, WriterInv, SleepsRightly, GateInv,
       Holding, Procs
  <1> QED
    BY SpecIInv, <1>1, PTL

(***************************************************************************)
(* read returns the end of an unnamed pipe only when the ring is empty and *)
(* no process has the writing end.                                         *)
(***************************************************************************)
THEOREM PipeEofMeansClosed == Spec => []EofMeansClosed
  <1>1. IInv => EofMeansClosed
    BY DEF IInv
  <1> QED
    BY SpecIInv, <1>1, PTL

-----------------------------------------------------------------------------
(* The refinement of Fifo.                                                 *)

\* Where the i-th of the bytes that begin at x is.
Place(x, i) == (x + i - 1) % PIPSIZE

\* The n bytes of the ring r that begin at x.
Bytes(r, x, n) == [i \in 1 .. n |-> r[Place(x, i)]]

\* The bytes in the ring, oldest first.
queue == Bytes(ring, prx, pnc)

(***************************************************************************)
(* The places of the queue follow prx and wrap at most once.               *)
(***************************************************************************)
LEMMA Places ==
  ASSUME NEW x \in 0 .. PIPSIZE - 1, NEW i \in 1 .. PIPSIZE
  PROVE  /\ Place(x, i) \in 0 .. PIPSIZE - 1
         /\ Place(x, i) = IF x + i - 1 < PIPSIZE THEN x + i - 1
                          ELSE x + i - 1 - PIPSIZE
  <1>1. PIPSIZE \in Nat \ {0}
    BY PipeAssumption
  <1>2. CASE x + i - 1 < PIPSIZE
    <2>1. x + i - 1 \in 0 .. PIPSIZE - 1
      BY <1>1, <1>2
    <2> QED
      BY <1>1, <1>2, <2>1, RingModulo DEF Place
  <1>3. CASE ~ (x + i - 1 < PIPSIZE)
    <2>1. /\ x + i - 1 - PIPSIZE \in 0 .. PIPSIZE - 1
          /\ x + i - 1 = PIPSIZE + (x + i - 1 - PIPSIZE)
      BY <1>1, <1>3
    <2> QED
      BY <1>3, <2>1, RingModulo DEF Place
  <1> QED
    BY <1>2, <1>3

(***************************************************************************)
(* The bytes from x on are a sequence of bytes of the ring.                *)
(***************************************************************************)
LEMMA BytesType ==
  ASSUME NEW r \in [0 .. PIPSIZE - 1 -> Values], NEW x \in 0 .. PIPSIZE - 1,
         NEW n \in 0 .. PIPSIZE
  PROVE  /\ Bytes(r, x, n) \in Seq(Values) /\ Len(Bytes(r, x, n)) = n
         /\ \A i \in 1 .. n : Bytes(r, x, n)[i] = r[Place(x, i)]
  <1>1. PIPSIZE \in Nat \ {0}
    BY PipeAssumption
  <1>2. \A i \in 1 .. n : r[Place(x, i)] \in Values
    BY <1>1, Places
  <1>3. n \in Nat /\ Bytes(r, x, n) \in [1 .. n -> Values]
    BY <1>1, <1>2 DEF Bytes
  <1>4. \A i \in 1 .. n : Bytes(r, x, n)[i] = r[Place(x, i)]
    BY DEF Bytes
  <1> QED
    BY <1>3, <1>4, SequenceOf

(***************************************************************************)
(* A round of pread's second loop takes bytes from the head of the queue.  *)
(***************************************************************************)
LEMMA takeGets ==
  ASSUME IInv, IInv', NEW p \in Procs, take(p)
  PROVE  \E n \in 0 .. PIPSIZE : F!Get(n)
  <1>1. /\ PIPSIZE \in Nat \ {0} /\ pnc \in 0 .. PIPSIZE /\ prx \in 0 .. PIPSIZE - 1
        /\ ring \in [0 .. PIPSIZE - 1 -> Values] /\ ring' = ring
        /\ pnc' \in 0 .. PIPSIZE /\ prx' \in 0 .. PIPSIZE - 1 /\ fd' = fd
    BY PipeAssumption DEF IInv, RingOK, TypeOK, take, inodevars
  <1>2. PICK m \in 0 .. pnc :
           /\ m <= ioc[p] /\ prx + m <= PIPSIZE
           /\ out' = [i \in 1 .. m |-> ring[prx + i - 1]]
           /\ prx' = IF prx + m = PIPSIZE THEN 0 ELSE prx + m
           /\ pnc' = pnc - m
           /\ ioc' \in [Procs -> 0 .. MaxCount]
    BY takeMoves
  <1>3. /\ queue \in Seq(Values) /\ Len(queue) = pnc
        /\ \A i \in 1 .. pnc : queue[i] = ring[Place(prx, i)]
    BY <1>1, BytesType DEF queue
  <1>4. /\ queue' \in Seq(Values) /\ Len(queue') = pnc'
        /\ \A i \in 1 .. pnc' : queue'[i] = ring[Place(prx', i)]
    <2>1. queue' = Bytes(ring, prx', pnc')
      BY <1>1 DEF queue, Bytes, Place
    <2> QED
      BY <1>1, <2>1, BytesType
  <1>5. out' = SubSeq(queue, 1, m)
    <2>1. out' \in Seq(Values) /\ Len(out') = m
      <3>1. out' \in [1 .. m -> Values]
        BY <1>1, <1>2
      <3> QED
        BY <3>1, <1>1, SequenceOf
    <2>2. \A i \in 1 .. m : out'[i] = queue[i]
      <3> SUFFICES ASSUME NEW i \in 1 .. m PROVE out'[i] = queue[i]
        OBVIOUS
      <3>1. i \in 1 .. pnc /\ i \in 1 .. PIPSIZE /\ prx + i - 1 < PIPSIZE
        BY <1>1, <1>2
      <3>2. Place(prx, i) = prx + i - 1
        BY <1>1, <3>1, Places
      <3> QED
        BY <1>2, <1>3, <3>1, <3>2
    <2>3. /\ SubSeq(queue, 1, m) \in Seq(Values) /\ Len(SubSeq(queue, 1, m)) = m
          /\ \A i \in 1 .. m : SubSeq(queue, 1, m)[i] = queue[i]
      BY <1>1, <1>3
    <2> QED
      BY <2>1, <2>2, <2>3, SeqEqual
  <1>6. queue' = SubSeq(queue, m + 1, pnc)
    <2>1. \A i \in 1 .. pnc - m : queue'[i] = queue[i + m]
      <3> SUFFICES ASSUME NEW i \in 1 .. pnc - m PROVE queue'[i] = queue[i + m]
        OBVIOUS
      <3>1. /\ i \in 1 .. pnc' /\ i + m \in 1 .. pnc
            /\ i \in 1 .. PIPSIZE /\ i + m \in 1 .. PIPSIZE
        BY <1>1, <1>2
      <3>2. Place(prx', i) = Place(prx, i + m)
        <4>1. Place(prx', i) = IF prx' + i - 1 < PIPSIZE THEN prx' + i - 1
                               ELSE prx' + i - 1 - PIPSIZE
          BY <1>1, <3>1, Places
        <4>2. Place(prx, i + m) = IF prx + (i + m) - 1 < PIPSIZE
                                  THEN prx + (i + m) - 1
                                  ELSE prx + (i + m) - 1 - PIPSIZE
          BY <1>1, <3>1, Places
        <4> QED
          BY <1>1, <1>2, <3>1, <4>1, <4>2
      <3> QED
        BY <1>3, <1>4, <3>1, <3>2
    <2>2. /\ SubSeq(queue, m + 1, pnc) \in Seq(Values)
          /\ Len(SubSeq(queue, m + 1, pnc)) = pnc - m
          /\ \A i \in 1 .. pnc - m : SubSeq(queue, m + 1, pnc)[i] = queue[i + m]
      BY <1>1, <1>3
    <2> QED
      BY <1>2, <1>4, <2>1, <2>2, SeqEqual
  <1>7. F!Get(m)
    <2>1. /\ m <= Len(queue) /\ out' = SubSeq(queue, 1, m)
          /\ queue' = SubSeq(queue, m + 1, Len(queue))
      BY <1>1, <1>3, <1>5, <1>6
    <2> QED
      BY <1>1, <2>1 DEF F!Get, queue, Bytes, Place
  <1> QED
    BY <1>1, <1>7

(***************************************************************************)
(* A round of pwrite adds bytes at the tail of the queue.                  *)
(***************************************************************************)
LEMMA putPuts ==
  ASSUME IInv, IInv', NEW p \in Procs, put(p)
  PROVE  \E n \in 0 .. PIPSIZE : \E s \in [1 .. n -> Values] : F!Put(s)
  <1>1. /\ PIPSIZE \in Nat \ {0} /\ pnc \in 0 .. PIPSIZE /\ prx \in 0 .. PIPSIZE - 1
        /\ pwx \in 0 .. PIPSIZE - 1 /\ prx' = prx /\ out' = out
        /\ ring \in [0 .. PIPSIZE - 1 -> Values] /\ fd' = fd
    BY PipeAssumption DEF IInv, RingOK, TypeOK, put, inodevars
  <1>2. PICK m \in 0 .. PIPSIZE - pnc : \E s \in [1 .. m -> Values] : Moved(m, s)
    BY putMoves
  <1>3. PICK s \in [1 .. m -> Values] : Moved(m, s)
    BY <1>2
  <1>4. /\ m \in Nat /\ pnc + m <= PIPSIZE /\ pwx + m <= PIPSIZE /\ pnc' = pnc + m
        /\ ring' = [i \in 0 .. PIPSIZE - 1 |->
             IF i \in pwx .. pwx + m - 1 THEN s[i - pwx + 1] ELSE ring[i]]
    BY <1>1, <1>3 DEF Moved
  <1>5. s \in Seq(Values) /\ Len(s) = m
    BY <1>4, SequenceOf
  <1>6. /\ queue \in Seq(Values) /\ Len(queue) = pnc
        /\ \A i \in 1 .. pnc : queue[i] = ring[Place(prx, i)]
    BY <1>1, BytesType DEF queue
  <1>7. /\ queue' \in Seq(Values) /\ Len(queue') = pnc'
        /\ \A i \in 1 .. pnc' : queue'[i] = ring'[Place(prx, i)]
    <2>1. queue' = Bytes(ring', prx, pnc')
      BY <1>1 DEF queue, Bytes, Place
    <2>2. ring' \in [0 .. PIPSIZE - 1 -> Values] /\ pnc' \in 0 .. PIPSIZE
      BY DEF IInv, RingOK, TypeOK
    <2>3. /\ Bytes(ring', prx, pnc') \in Seq(Values)
          /\ Len(Bytes(ring', prx, pnc')) = pnc'
          /\ \A i \in 1 .. pnc' : Bytes(ring', prx, pnc')[i] = ring'[Place(prx, i)]
      BY <1>1, <2>2, BytesType
    <2> QED
      BY <2>1, <2>3
  \* pwx is the place after the last byte.
  <1>9. pwx = IF prx + pnc < PIPSIZE THEN prx + pnc ELSE prx + pnc - PIPSIZE
    <2>1. pwx = (prx + pnc) % PIPSIZE
      BY DEF IInv, RingOK
    <2>2. CASE prx + pnc < PIPSIZE
      BY <1>1, <2>1, <2>2, RingModulo
    <2>3. CASE ~ (prx + pnc < PIPSIZE)
      <3>1. /\ prx + pnc - PIPSIZE \in 0 .. PIPSIZE - 1
            /\ prx + pnc = PIPSIZE + (prx + pnc - PIPSIZE)
        BY <1>1, <2>3
      <3> QED
        BY <2>1, <2>3, <3>1, RingModulo
    <2> QED
      BY <2>2, <2>3
  <1>10. \A i \in 1 .. pnc : queue'[i] = queue[i]
    <2> SUFFICES ASSUME NEW i \in 1 .. pnc PROVE queue'[i] = queue[i]
      OBVIOUS
    <2>1. i \in 1 .. pnc' /\ i \in 1 .. PIPSIZE
      BY <1>1, <1>4
    <2>2. /\ Place(prx, i) \in 0 .. PIPSIZE - 1
          /\ Place(prx, i) = IF prx + i - 1 < PIPSIZE THEN prx + i - 1
                             ELSE prx + i - 1 - PIPSIZE
      BY <1>1, <2>1, Places
    <2>3. Place(prx, i) < pwx \/ Place(prx, i) > pwx + m - 1
      BY <1>1, <1>4, <1>9, <2>1, <2>2
    <2>4. ring'[Place(prx, i)] = ring[Place(prx, i)]
      BY <1>1, <1>4, <2>2, <2>3
    <2> QED
      BY <1>6, <1>7, <2>1, <2>4
  <1>11. \A i \in 1 .. m : queue'[pnc + i] = s[i]
    <2> SUFFICES ASSUME NEW i \in 1 .. m PROVE queue'[pnc + i] = s[i]
      OBVIOUS
    <2>1. pnc + i \in 1 .. pnc' /\ pnc + i \in 1 .. PIPSIZE
      BY <1>1, <1>4
    <2>2. Place(prx, pnc + i) = IF prx + (pnc + i) - 1 < PIPSIZE
                                THEN prx + (pnc + i) - 1
                                ELSE prx + (pnc + i) - 1 - PIPSIZE
      BY <1>1, <2>1, Places
    <2>3. Place(prx, pnc + i) = pwx + i - 1
      BY <1>1, <1>4, <1>9, <2>1, <2>2
    <2>4. ring'[pwx + i - 1] = s[i]
      BY <1>1, <1>4
    <2> QED
      BY <1>7, <2>1, <2>3, <2>4
  <1>12. queue' = queue \o s
    <2>1. /\ queue \o s \in Seq(Values) /\ Len(queue \o s) = pnc + m
          /\ \A i \in 1 .. pnc + m :
               (queue \o s)[i] = IF i <= pnc THEN queue[i] ELSE s[i - pnc]
      BY <1>5, <1>6, ConcatProperties
    <2>2. \A i \in 1 .. pnc + m : queue'[i] = (queue \o s)[i]
      <3> SUFFICES ASSUME NEW i \in 1 .. pnc + m
                   PROVE  queue'[i] = (queue \o s)[i]
        OBVIOUS
      <3>1. CASE i <= pnc
        <4>1. i \in 1 .. pnc
          BY <1>1, <3>1
        <4> QED
          BY <1>10, <2>1, <3>1, <4>1
      <3>2. CASE i > pnc
        <4>1. i - pnc \in 1 .. m /\ pnc + (i - pnc) = i /\ ~ (i <= pnc)
          BY <1>1, <1>4, <3>2
        <4> QED
          BY <1>11, <2>1, <4>1
      <3>3. i <= pnc \/ i > pnc
        BY <1>1, <1>4
      <3> QED
        BY <3>1, <3>2, <3>3
    <2> QED
      BY <1>4, <1>7, <2>1, <2>2, SeqEqual
  <1>13. F!Put(s)
    BY <1>1, <1>4, <1>5, <1>6, <1>12 DEF F!Put, queue, Bytes, Place
  <1> QED
    BY <1>1, <1>4, <1>13

(***************************************************************************)
(* An open enters with the queue as it is, a creat with an empty one.      *)
(***************************************************************************)
LEMMA openEnters ==
  ASSUME NEW p \in Procs, uopen(p) \/ ucreat(p)
  PROVE  F!Enter(p)
  <1>1. p \notin fd /\ fd' = fd \union {p} /\ UNCHANGED out
    BY DEF uopen, ucreat, fdopen, ringvars
  <1>2. CASE uopen(p)
    <2>1. queue' = queue
      BY <1>2 DEF uopen, ringvars, queue, Bytes, Place
    <2> QED
      BY <1>1, <2>1 DEF F!Enter, queue, Bytes, Place
  <1>3. CASE ucreat(p)
    <2>1. pnc' = 0
      BY <1>3 DEF ucreat, iclear
    <2>2. queue' = <<>>
      BY <2>1 DEF queue, Bytes
    <2> QED
      BY <1>1, <2>2 DEF F!Enter, queue, Bytes, Place
  <1> QED
    BY <1>2, <1>3

(***************************************************************************)
(* A pipe is a bounded queue: every byte written is delivered once and in  *)
(* order, however reads and writes wrap, fall short, sleep or are          *)
(* interrupted, unless a creat throws away all that is in it.              *)
(***************************************************************************)
THEOREM PipeImplementsFifo == Spec => ImplementsFifo
  <1>1. Init => F!Init
    <2>1. Init => queue = <<>> /\ out = <<>> /\ fd \subseteq Procs
      BY PipeAssumption DEF Init, queue, Bytes, Place
    <2> QED
      BY <2>1 DEF F!Init, queue, Bytes, Place
  <1>2. IInv /\ IInv' /\ [Next]_vars => [F!Next]_<<queue, out, fd>>
    <2> SUFFICES ASSUME IInv, IInv', [Next]_vars
                 PROVE  [F!Next]_<<queue, out, fd>>
      OBVIOUS
    <2>1. CASE UNCHANGED <<ringvars, fd>>
      BY <2>1 DEF ringvars, queue, Bytes, Place
    <2>2. ASSUME NEW p \in Procs, take(p) PROVE F!Next
      BY <2>2, takeGets DEF F!Next
    <2>3. ASSUME NEW p \in Procs, put(p) PROVE F!Next
      BY <2>3, putPuts DEF F!Next
    <2>4. ASSUME NEW p \in Procs, Step(p)
          PROVE  take(p) \/ put(p) \/ UNCHANGED <<ringvars, fd>>
      BY <2>4 DEF Step, pread, preadEnd, pwriteEnd, pwriteSleep, Sleep, inodevars
    <2>5. ASSUME NEW p \in Procs, Resume(p) \/ Signal(p)
          PROVE  UNCHANGED <<ringvars, fd>>
      BY <2>5 DEF Resume, Woken, Signal, inodevars
    <2>6. ASSUME NEW c \in 1 .. MaxCount, NEW p \in Procs,
                 Call(p, "pread", c) \/ Call(p, "pwrite", c)
          PROVE  UNCHANGED <<ringvars, fd>>
      BY <2>6 DEF Call, inodevars
    <2>7. uunlink \/ UNCHANGED vars => UNCHANGED <<ringvars, fd>>
      BY DEF uunlink, vars, ringvars
    <2>8. ASSUME NEW p \in Procs, uopen(p) \/ ucreat(p) PROVE F!Enter(p)
      BY <2>8, openEnters
    <2>9. ASSUME NEW p \in Procs, pclose(p) PROVE F!Leave(p)
      <3>1. UNCHANGED <<queue, out>>
        BY <2>9 DEF pclose, ringvars, queue, Bytes, Place
      <3> QED
        BY <2>9, <3>1 DEF pclose, F!Leave, queue, Bytes, Place
    <2>10. ASSUME NEW p \in Procs, F!Enter(p) \/ F!Leave(p) PROVE F!Next
      BY <2>10 DEF F!Next
    <2> QED
      BY <2>1, <2>2, <2>3, <2>4, <2>5, <2>6, <2>7, <2>8, <2>9, <2>10
         DEF Next, Others, Procs
  <1>3. ImplementsFifo <=> F!Init /\ [][F!Next]_<<queue, out, fd>>
    BY DEF ImplementsFifo, F!Spec, queue, Bytes, Place
  <1> QED
    BY <1>1, <1>2, <1>3, SpecIInv, PTL DEF Spec

=============================================================================
