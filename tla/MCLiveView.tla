---------------------------- MODULE MCLiveView ----------------------------
(***************************************************************************)
(* A source with two parallel checks, two batches, one page.               *)
(***************************************************************************)
EXTENDS LiveView, TLC

PairOrder   == <<"load", "dur", "imu">>
PairInputs  == "load" :> <<>> @@ "dur" :> <<"load">> @@ "imu" :> <<"load">>
PairKind    == "load" :> "source" @@ "dur" :> "sample" @@ "imu" :> "sample"
NoMatches   == [n \in Nodes |-> {}]
NoDocuments == [n \in Nodes |-> <<>>]

\* A sample, then a batch that holds a finding and nothing else.
TwoBatches == <<[samples |-> {"s1"}, findings |-> EmptyMap],
                [samples |-> {}, findings |-> "s3" :> "error"]>>
=============================================================================
