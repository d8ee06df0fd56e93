----------------------------- MODULE MCDumpTree -----------------------------
(***************************************************************************)
(* Three definitions: one with a target that archives two artifacts, one   *)
(* with a target that dumps two videos, and one without a target.          *)
(***************************************************************************)
EXTENDS DumpTree, TLC

CONSTANTS d1, d2, d3

MCObjects  == d1 :> << <<"archive", "imu/s1">>, <<"archive", "imu/s2">> >>
           @@ d2 :> << <<"video", "s1">>, <<"video", "s2">> >>
           @@ d3 :> << <<"archive", "imu/s1">> >>
MCFlatName == "imu/s1" :> "imu__s1" @@ "imu/s2" :> "imu__s2" @@ "s1" :> "s1" @@ "s2" :> "s2"
MCDocuments == <<"report.json", "pipeline.yaml">>
=============================================================================
