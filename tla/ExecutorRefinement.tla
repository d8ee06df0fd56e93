------------------------- MODULE ExecutorRefinement -------------------------
(***************************************************************************)
(* The executor implements QcJob.  A batch counts as judged when the       *)
(* driver has merged it; what nodes, workers and joins do before that is   *)
(* stuttering.                                                             *)
(***************************************************************************)
EXTENDS ExecutorProperties

\* A batch is in flight from the moment the source's union is made until the
\* merge clears the unions: its verdicts are not on record yet.
Merged == IF arts = EmptyMap THEN batch ELSE batch - 1

Stage == IF phase \in {"source", "dag", "unwind"} THEN "judging"
         ELSE IF phase \in {"reduce", "commit"} THEN "publishing"
         ELSE phase

\* What a document on disk says: the report it was written from and the job
\* block stamped before.
Reads(d) == [verdicts |-> docs[d].report.check, summaries |-> docs[d].report.summary,
             batches |-> docs[d].stamp.n_batches, counts |-> docs[d].stamp.counts]

Job == INSTANCE QcJob WITH
    Loader       <- Source,
    Checkers     <- {n \in Nodes : Kind[n] = "sample"},
    Upstream     <- Ancestors,
    Stream       <- Batches,
    Reducers     <- Reduces,
    Publications <- UNION {{n} \X Range(Documents[n]) : n \in Nodes},
    state        <- Stage,
    judged       <- Merged,
    verdicts     <- report.check,
    summaries    <- report.summary,
    published    <- [d \in DOMAIN docs |-> Reads(d)]

\* executor.py 10-24 ("the fixed flow", determinism, failure): whatever the
\* pool's schedule and whichever nodes fail, the job seen from outside is one
\* that judges batch after batch, each checker exactly the samples nothing
\* upstream of it failed, keeps what it has found, and writes documents that
\* hold all of it, counted.
ImplementsQcJob == Job!JobSpec
-----------------------------------------------------------------------------
(* The jobs of which it is proved for every pipeline, see ExecutorProofs   *)

\* The samples the report may speak about because of batch b.
Ids(b) == Batches[b].samples \cup DOMAIN Batches[b].findings

\* report.py 118-119: per-sample keys are disjoint across batches.
DistinctIds == \A b, c \in DOMAIN Batches : b # c => Ids(b) \cap Ids(c) = {}

\* No archiver's globs cover the Batch: a node after it could not tell whom
\* it should have handled.
BatchIsKept == \A n \in Nodes : Kind[n] \in {"archive", "free"} => BatchKey \notin Matches[n]
=============================================================================
