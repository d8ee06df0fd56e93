------------------------------ MODULE MCJoins ------------------------------
(***************************************************************************)
(* Up to three inputs.  Either their unions vary, over two keys whose      *)
(* values are plain data or a handle, or their reports do, over two checks *)
(* of one sample or one check each of two samples.                         *)
(***************************************************************************)
EXTENDS Joins

SeqsUpTo(S, n) == UNION {[1 .. m -> S] : m \in 0 .. n}

Values == {[kind |-> "raw"], [kind |-> "lazy"]}

UnionResults == {[art |-> u, rep |-> EmptyReport] : u \in Unions({"dur/v", "imu/v"}, Values)}

\* The reports Apply builds from the given checks.
ReportResults(keys) ==
    {[art |-> EmptyUnion,
      rep |-> [check   |-> c,
               status  |-> [s \in {k[1] : k \in DOMAIN c} |-> Worst(ChecksOf(c, s))],
               summary |-> {<<n, "digest">> : n \in {k[2] : k \in DOMAIN c}}]] :
        c \in MapsOver(keys, {"pass", "fail", "error"})}

MCInputSeqs ==
    SeqsUpTo(UnionResults, 3)
    \cup SeqsUpTo(ReportResults({"s1"} \X {"dur", "imu"} \X {"check"}), 3)
    \cup SeqsUpTo(ReportResults({"s1", "s2"} \X {"dur"} \X {"check"}), 3)
=============================================================================
