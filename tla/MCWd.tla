-------------------------------- MODULE MCWd --------------------------------
(***************************************************************************)
(* An instance of Wd: a hard disk with two partitions and a floppy disk.   *)
(***************************************************************************)
EXTENDS Wd, TLC

MCwdbtab == [p \in 0 .. 1 |-> IF p = 0 THEN [bstart |-> 0, bcount |-> 2]
                              ELSE [bstart |-> 2, bcount |-> 3]]

Request(d, pd, bno, count, raw, aligned, req) ==
  [d |-> d, pd |-> pd, bno |-> bno, count |-> count, raw |-> raw,
   aligned |-> aligned, req |-> req]

\* Blocks through the cache, inside and outside their partition, aligned or
\* not; raw requests that run off the partition, that start beyond it and that
\* are not aligned; a drive without partitions; a format.
MCRequests ==
  {Request(0, 1, bno, 1, FALSE, FALSE, "BREAD") : bno \in {1, 3}}
  \union {Request(0, 0, 1, 1, FALSE, FALSE, "BWRITE"),
          Request(0, 1, 0, 3, TRUE, TRUE, "BREAD"),
          Request(0, 1, 2, 2, TRUE, TRUE, "BWRITE"),
          Request(0, 1, 3, 1, TRUE, TRUE, "BREAD"),
          Request(0, 0, 0, 2, TRUE, FALSE, "BREAD"),
          Request(1, 0, 0, 1, FALSE, FALSE, "BWRITE"),
          Request(1, 0, 0, 1, FALSE, TRUE, "FMTCMD"),
          Request(1, 1, 0, 1, FALSE, TRUE, "BREAD")}
=============================================================================
