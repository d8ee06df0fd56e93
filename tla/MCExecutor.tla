----------------------------- MODULE MCExecutor -----------------------------
(***************************************************************************)
(* Pipelines and batches to run the executor on.                           *)
(***************************************************************************)
EXTENDS ExecutorRefinement, TLC

\* A graph over a few nodes of each kind; nodes without an entry match nothing
\* and write nothing.
KindOf(samples, archivers, frees) ==
    "load" :> "source" @@ [n \in samples |-> "sample"]
    @@ [n \in archivers |-> "archive"] @@ [n \in frees |-> "free"]

Per(nodes, f, default) == f @@ [n \in nodes |-> default]

\* The globs "{node}/*" for the given nodes.
Under(nodes) == nodes \X SampleIds

-----------------------------------------------------------------------------
(* load feeds two branches.  What dur makes is freed on one side (drop) and  *)
(* carried by a sibling leaf on the other (qc).  The branches join at sum,   *)
(* and dump archives what imu and sum made and writes the documents.         *)
MutOrder   == <<"load", "dur", "imu", "drop", "qc", "sum", "dump">>
MutInputs  == "load" :> <<>> @@ "dur" :> <<"load">> @@ "imu" :> <<"load">>
              @@ "drop" :> <<"dur">> @@ "qc" :> <<"dur">>
              @@ "sum" :> <<"drop", "imu">> @@ "dump" :> <<"sum">>
MutKind    == KindOf({"dur", "imu", "qc", "sum"}, {"dump"}, {"drop"})
MutMatches == Per(Nodes, "drop" :> Under({"dur"}) @@ "dump" :> Under({"imu", "sum"}), {})
MutDocs    == Per(Nodes, "dump" :> <<"report", "pipeline">>, <<>>)

(* dur's artifacts are archived on one branch (dump) and still held raw by   *)
(* the sibling branch (qc), beside a slow branch imu; sum joins the first    *)
(* two.  The validator accepts it: only one node replaces dur's keys.        *)
ClashOrder   == <<"load", "dur", "imu", "dump", "qc", "sum">>
ClashInputs  == "load" :> <<>> @@ "dur" :> <<"load">> @@ "imu" :> <<"load">>
                @@ "dump" :> <<"dur">> @@ "qc" :> <<"dur">> @@ "sum" :> <<"dump", "qc">>
ClashKind    == KindOf({"dur", "imu", "qc", "sum"}, {"dump"}, {})
ClashMatches == Per(Nodes, "dump" :> Under({"dur"}), {})
ClashDocs    == Per(Nodes, "dump" :> <<"report", "pipeline", "config">>, <<>>)

(* A straight line: check, free everything ("*"), check again.               *)
LineOrder   == <<"load", "dur", "drop", "imu">>
LineInputs  == "load" :> <<>> @@ "dur" :> <<"load">> @@ "drop" :> <<"dur">>
               @@ "imu" :> <<"drop">>
LineKind    == KindOf({"dur", "imu"}, {}, {"drop"})
LineMatches == Per(Nodes, "drop" :> Keys, {})
LineDocs    == Per(Nodes, EmptyMap, <<>>)

-----------------------------------------------------------------------------
Yields(samples) == [samples |-> samples, findings |-> EmptyMap]

\* A sample, then another beside one that could not be enumerated.
TwoBatches == <<Yields({"s1"}), [samples |-> {"s2"}, findings |-> "s3" :> "error"]>>

OneBatch == <<Yields({"s1", "s2"})>>

\* One id in two batches: a.mp4 and a.mov are both sample "a".
SameIdTwice == <<Yields({"s1"}), Yields({"s1"})>>
=============================================================================
