---------------------------- MODULE MCDiskCache ----------------------------
(***************************************************************************)
(* Two threads of one worker and one of another, on one directory whose    *)
(* capacity is the size of the large object.                               *)
(***************************************************************************)
EXTENDS DiskCache

CONSTANTS t3, w1, w2, large

MCWorker == [t \in Threads |-> IF t = t3 THEN w2 ELSE w1]
MCSize   == [k \in Keys |-> IF k = large THEN 2 ELSE 1]
=============================================================================
