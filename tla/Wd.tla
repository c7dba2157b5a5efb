--------------------------------- MODULE Wd ---------------------------------
(***************************************************************************)
(* The disk driver of the Commodore 900 (kernel/z8001/drv/wd.c): requests  *)
(* are sorted into a queue per drive, the drives with work take turns at   *)
(* the one controller, and an interrupt answers the request at the head.   *)
(*                                                                         *)
(* wdblock runs with interrupts off from disksort on, and wdintr is an     *)
(* interrupt, so each is one step.  A request is a record of what the      *)
(* driver reads of a BUF; counts are in blocks, and what a raw request has *)
(* beyond whole blocks is left out.  Data is abstracted to which blocks    *)
(* were moved to or from the buffer itself.  The controller and its drives *)
(* are external: a command succeeds or fails.                              *)
(***************************************************************************)
EXTENDS Naturals, Sequences, FiniteSets, SequencesExt

CONSTANTS
  Bufs,
  Requests,      \* the requests there may be: see RequestType
  NDRIVES, NHDISKS,
  NFBLK,         \* the blocks of a floppy disk
  wdbtab,        \* the partitions: bstart and bcount of each
  MAXBLKCNT,
  MaxRequests,   \* how many requests are made
  NoRequest

Drives == 0 .. NDRIVES - 1
RequestType == [d : Nat, pd : Nat, bno : Nat, count : Nat, raw : BOOLEAN,
                aligned : BOOLEAN, req : {"BREAD", "BWRITE", "FMTCMD"}]

ASSUME WdAssumption ==
  /\ IsFiniteSet(Bufs) /\ Requests \subseteq RequestType
  /\ NDRIVES \in Nat /\ NHDISKS \in 0 .. NDRIVES
  /\ MAXBLKCNT \in Nat \ {0} /\ NFBLK \in Nat /\ MaxRequests \in Nat
  /\ DOMAIN wdbtab \subseteq Nat /\ 0 \in DOMAIN wdbtab /\ wdbtab[0].bstart = 0
  /\ \A pd \in DOMAIN wdbtab : wdbtab[pd] \in [bstart : Nat, bcount : Nat]
  /\ \A r \in Requests : r.req = "FMTCMD" => ~r.raw
  /\ NoRequest \notin Requests

VARIABLES
  asked,      \* the request each buffer is under
  answer,     \* BFERR, what was moved and b_resid, once the request is done
  clip,       \* b_count, as wdblock leaves it
  wd,         \* wdtab and wdutab, and the command the controller works on
  made        \* how many requests have been made

vars == <<asked, answer, clip, wd, made>>

(***************************************************************************)
(* wd.actf is the queue of each drive, wd.active the drives in the chain   *)
(* of the controller, wd.forw that chain, wd.busy wdtab.wdu_active,        *)
(* wd.bounce the buffer whose data is in the aligned block after cmdblk,   *)
(* wd.cmd the command block, and wd.failed the requests wdstart refused.   *)
(***************************************************************************)
NoCmd == [d |-> 0, addr |-> 0, n |-> 0, bounce |-> FALSE]
Idle == [actf |-> [d \in Drives |-> <<>>], active |-> {}, forw |-> <<>>,
         busy |-> FALSE, bounce |-> {}, cmd |-> NoCmd, failed |-> {}]

Failure == [err |-> TRUE, moved |-> {}, resid |-> 0]

\* No request has been made.
Init ==
  /\ asked = [b \in Bufs |-> NoRequest]
  /\ answer = [b \in Bufs |-> Failure]
  /\ clip = [b \in Bufs |-> 0]
  /\ wd = Idle
  /\ made = 0

-----------------------------------------------------------------------------
\* wdbno: the block on the drive of a request.
wdbno(r) == IF r.d >= NHDISKS THEN r.bno ELSE r.bno + wdbtab[r.pd].bstart

Between(x, y, z) == (x <= y /\ y <= z) \/ (x >= y /\ y >= z)

\* Mutant: the request may be put in front of the one that is being served.
disksortHead(q, b, req) ==
  LET fits == {k \in 0 .. Len(q) - 1 :
                 IF k = 0 THEN wdbno(req[b]) <= wdbno(req[q[1]])
                 ELSE Between(wdbno(req[q[k]]), wdbno(req[b]), wdbno(req[q[k + 1]]))}
  IN  IF fits = {} THEN Append(q, b)
      ELSE InsertAt(q, (CHOOSE k \in fits : \A j \in fits : k <= j) + 1, b)

(***************************************************************************)
(* disksort: b goes between the first two neighbours it fits between, or   *)
(* to the end; never before the head, which the controller works on.       *)
(***************************************************************************)
disksort(q, b, req) ==
  LET fits == {k \in 1 .. Len(q) - 1 :
                 Between(wdbno(req[q[k]]), wdbno(req[b]), wdbno(req[q[k + 1]]))}
  IN  IF fits = {} THEN Append(q, b)
      ELSE InsertAt(q, (CHOOSE k \in fits : \A j \in fits : k <= j) + 1, b)

\* wdustart: a drive with work joins the chain of the controller.
wdustart(w, d) ==
  IF d \in w.active \/ w.actf[d] = <<>> THEN w
  ELSE [w EXCEPT !.active = @ \union {d}, !.forw = Append(@, d)]

\* The drive at the head of the chain leaves it, and its first request too.
Drop(w) ==
  LET d == Head(w.forw)
  IN  [w EXCEPT !.actf[d] = Tail(@), !.active = @ \ {d}, !.forw = Tail(@),
                !.busy = FALSE]

\* A transfer the DMA chip cannot do: not aligned, and raw or of many blocks.
BadDma(r, n) == ~r.aligned /\ (r.raw \/ n > 1)

(***************************************************************************)
(* wdstart: unless the controller is busy, the first request of the first  *)
(* drive is given to it, or refused if the DMA chip cannot do it.          *)
(***************************************************************************)
wdstart(w, req, n) ==
  IF w.busy \/ w.forw = <<>> THEN w
  ELSE LET d == Head(w.forw)
           b == Head(w.actf[d])
           r == req[b]
       IN  IF BadDma(r, n[b])
           THEN wdustart([Drop(w) EXCEPT !.failed = @ \union {b}], d)
           ELSE [w EXCEPT
                  !.busy = TRUE,
                  !.bounce = IF ~r.aligned /\ r.req = "BWRITE" THEN {b} ELSE @,
                  !.cmd = IF r.req = "FMTCMD" THEN [NoCmd EXCEPT !.d = d]
                          ELSE [d |-> d, addr |-> r.bno + wdbtab[r.pd].bstart,
                                n |-> n[b], bounce |-> ~r.aligned]]

\* "while (!wdstart());": every call but the last one refuses a request, and
\* after the last another one changes nothing.
Started(w0, req, n) ==
  LET from[k \in 0 .. Cardinality(Bufs)] ==
        IF k = 0 THEN w0 ELSE wdstart(from[k - 1], req, n)
  IN  from[Cardinality(Bufs)]

\* The requests in done are answered: those the driver refused by an error.
Answer(w0, req, done, a) ==
  \E w \in {w0} :
    /\ wd' = [w EXCEPT !.failed = {}]
    /\ asked' = [b \in Bufs |-> IF b \in done \union w.failed THEN NoRequest
                                ELSE req[b]]
    /\ answer' = [b \in Bufs |-> IF b \in done THEN a
                                 ELSE IF b \in w.failed \/ req[b] # NoRequest
                                 THEN Failure ELSE answer[b]]

\* The minor device names no drive or no partition.
NoDevice(r) ==
  \/ r.d >= NDRIVES
  \/ r.d < NHDISKS /\ r.pd \notin DOMAIN wdbtab
  \/ r.d >= NHDISKS /\ r.pd # 0

\* The size of the medium.
Size(r) == IF r.d < NHDISKS THEN wdbtab[r.pd].bcount ELSE NFBLK

Least(x, y) == IF x <= y THEN x ELSE y

\* How many of the blocks one command can move: nblk of wdblock.
Clipped(r) ==
  IF r.bno >= Size(r) THEN 0
  ELSE Least(Least(r.count, MAXBLKCNT), Size(r) - r.bno)

(***************************************************************************)
(* wdblock: a request is refused, or is raw and outside the partition and  *)
(* done at once, or is queued.                                             *)
(***************************************************************************)
wdblock(b, r) ==
  LET req == [asked EXCEPT ![b] = r]
      nblk == IF NoDevice(r) THEN 0 ELSE Clipped(r)
      n == [clip EXCEPT ![b] = nblk]
      queued == [wd EXCEPT !.actf[r.d] = disksort(@, b, req)]
  IN  /\ asked[b] = NoRequest /\ made < MaxRequests
      /\ made' = made + 1
      /\ \/ /\ NoDevice(r) \/ (~r.raw /\ nblk # r.count)
            /\ Answer(wd, req, {b}, Failure)
            /\ UNCHANGED clip
         \/ /\ ~NoDevice(r) /\ r.raw /\ nblk = 0
            /\ Answer(wd, req, {b}, [err |-> FALSE, moved |-> {}, resid |-> r.count])
            /\ UNCHANGED clip
         \/ /\ ~NoDevice(r) /\ nblk # 0 /\ (r.raw \/ nblk = r.count)
            /\ Answer(Started(wdustart(queued, r.d), req, n), req, {}, Failure)
            /\ clip' = n

\* The blocks the controller moves between the drive and the buffer b: none
\* if the aligned block is used and has another buffer's data.
Moved(b) ==
  LET r == asked[b]
  IN  IF wd.cmd.bounce /\ r.req = "BWRITE" /\ wd.bounce # {b} THEN {}
      ELSE {<<wd.cmd.d, wd.cmd.addr + k>> : k \in 0 .. wd.cmd.n - 1}

\* Mutant: the drive does not join the chain again.
wdintrLost(ok) ==
  LET b == Head(wd.actf[Head(wd.forw)])
  IN  /\ wd.busy
      /\ UNCHANGED <<clip, made>>
      /\ Answer(Started(Drop(wd), asked, clip), asked, {b},
                IF ok THEN [err |-> FALSE, moved |-> Moved(b),
                            resid |-> asked[b].count - clip[b]]
                ELSE Failure)

\* Mutant: a request that failed is left in its queue, to be tried again.
wdintrRetry(ok) ==
  LET d == Head(wd.forw)
      b == Head(wd.actf[d])
      w == IF ok THEN Drop(wd) ELSE [Drop(wd) EXCEPT !.actf = wd.actf]
  IN  /\ wd.busy
      /\ UNCHANGED <<clip, made>>
      /\ Answer(Started(wdustart(w, d), asked, clip), asked, IF ok THEN {b} ELSE {},
                [err |-> FALSE, moved |-> Moved(b), resid |-> asked[b].count - clip[b]])

(***************************************************************************)
(* wdintr: the first request of the first drive is done, or wdharderr      *)
(* answers it with an error; the drive goes to the end of the chain.       *)
(***************************************************************************)
wdintr(ok) ==
  LET d == Head(wd.forw)
      b == Head(wd.actf[d])
  IN  /\ wd.busy
      /\ UNCHANGED <<clip, made>>
      /\ Answer(Started(wdustart(Drop(wd), d), asked, clip), asked, {b},
                IF ok THEN [err |-> FALSE, moved |-> Moved(b),
                            resid |-> asked[b].count - clip[b]]
                ELSE Failure)

\* Nothing is asked of the driver.
rest == (\A b \in Bufs : asked[b] = NoRequest) /\ UNCHANGED vars

Next ==
  \/ \E b \in Bufs, r \in Requests : wdblock(b, r)
  \/ wdintr(TRUE)
  \/ wdintr(FALSE)
  \/ rest

\* The controller answers every command with an interrupt.
Fairness == WF_vars(wdintr(TRUE) \/ wdintr(FALSE))

Spec == Init /\ [][Next]_vars /\ Fairness

-----------------------------------------------------------------------------
(* Properties.                                                             *)

(***************************************************************************)
(* The tables agree with each other after every request and interrupt: a   *)
(* request is in the queue of its drive, once; a drive is in the chain of  *)
(* the controller, once, exactly when it has work; and the controller      *)
(* works on the head of the chain whenever there is one.                   *)
(***************************************************************************)
QueuesAgree ==
  /\ \A d \in Drives : Range(wd.actf[d]) =
       {b \in Bufs : asked[b] # NoRequest /\ asked[b].d = d}
  /\ \A d \in Drives : IsInjective(wd.actf[d])
  /\ Range(wd.forw) = wd.active /\ IsInjective(wd.forw)
  /\ wd.active = {d \in Drives : wd.actf[d] # <<>>}
  /\ wd.busy <=> wd.forw # <<>>

\* What a request reaches: its blocks that are in the partition, as many as a
\* command can count.  A format moves no block.
Reach(r) ==
  IF NoDevice(r) \/ r.req = "FMTCMD" THEN {}
  ELSE {<<r.d, wdbtab[r.pd].bstart + r.bno + k>> :
          k \in {j \in 0 .. r.count - 1 : j < MAXBLKCNT /\ r.bno + j < Size(r)}}

CountOf(r) == IF r.req = "FMTCMD" THEN 0 ELSE r.count
WholeOf(r) == ~r.raw

D == INSTANCE Disk WITH Reach <- Reach, Count <- CountOf, Whole <- WholeOf

(***************************************************************************)
(* The driver does what the buffer cache expects of it: a request is       *)
(* answered once, by an error or by the transfer of exactly the blocks it  *)
(* asks for that are in its partition, with the right b_resid, whatever    *)
(* other requests are sorted into the queue while the controller works.    *)
(***************************************************************************)
ImplementsDisk == D!Spec

(***************************************************************************)
(* No request is stranded: between wdustart, wdstart and wdintr the driver *)
(* always finds the next one.  (For a bounded number of requests: disksort *)
(* may put new ones before an old one again and again.)                    *)
(***************************************************************************)
RequestsAnswered ==
  \A b \in Bufs : asked[b] # NoRequest ~> asked[b] = NoRequest
=============================================================================
