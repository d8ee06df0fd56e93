---------------------------- MODULE MCFrameStack ----------------------------
(***************************************************************************)
(* Two threads of one process and one of another, on one video.            *)
(***************************************************************************)
EXTENDS FrameStack

CONSTANTS t1, t2, t3, n1, n2, n3, w1, w2

MCWorker == [t \in Threads |-> IF t \in {t3, n3} THEN w2 ELSE w1]
MCInner  == [t \in Threads \cap {t1, t2, t3} |->
                CASE t = t1 -> n1 [] t = t2 -> n2 [] t = t3 -> n3]
MCRuns   == [w \in {Worker[t] : t \in Threads} |->
                IF w = w1 THEN {"frames", "dump", "read", "free"} ELSE {"frames", "free"}]
MCSize   == [k \in Keys |-> IF k = Stack THEN 2 ELSE 1]
=============================================================================
