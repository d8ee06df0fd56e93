--------------------------- MODULE MCBatchStream ---------------------------
(***************************************************************************)
(* Two directories below the root, which holds two files of one stem.      *)
(***************************************************************************)
EXTENDS BatchStream

MCFiles == 1 .. 7
\*                 a.mov    a.mp4    b.json  d1/u.mp4 d1/v.mp4 d1/w.json d2/x.mp4
MCDir   == <<          0,       0,       0,       1,       1,      1,       2 >>
MCStem  == <<        "a",     "a",     "b",     "u",     "v",    "w",     "x" >>
MCExt   == <<    "video", "video",  "json", "video", "video", "json", "video" >>
MCBasename == [d \in 0 .. 2 |-> <<"root", "d1", "d2">>[d + 1]]

\* At most MaxFiles files, no size above 2; one file whose size is not given.
MaxFiles == 4

MCTrees ==
    {t \in UNION {[F -> {NoSize, 0, 1, 2}] :
                     F \in {F \in SUBSET MCFiles : Cardinality(F) <= MaxFiles}} :
        \A f \in DOMAIN t : /\ Ext[f] = "json" => t[f] = 1
                            /\ f = 7 => t[f] \in {NoSize, 1}
                            /\ f # 7 => t[f] # NoSize}

MCParams ==
    {p \in [loader : {"flat", "egoverse"}, recursive : BOOLEAN, order : {"name", "size"},
            max_samples : {NoMax, 2, -1}, batch_size : {0, 1, 2}] :
        /\ p.loader = "egoverse" => ~p.recursive
        /\ p.max_samples # NoMax => p.batch_size = 2
        /\ p.batch_size = 0 => p.order = "name"}
=============================================================================
