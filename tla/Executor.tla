------------------------------ MODULE Executor ------------------------------
(***************************************************************************)
(* Executor.run of executor.py: one driver thread streams the source's     *)
(* batches through the DAG on a thread pool, merges each batch into the    *)
(* job, then reduces (digest), stamps and commits.                         *)
(*                                                                         *)
(* The driver and the pool's workers interleave: the driver submits every  *)
(* ready node, waits for the first completed one and folds what completed; *)
(* a worker takes the oldest submission, runs the kernel on the inputs     *)
(* captured when it was submitted, and leaves its result in the future.    *)
(*                                                                         *)
(* Union keys are pairs <<node, name>>, name being a sample id for a       *)
(* per-sample artifact.  A value is a record [kind, by, batch]: the node   *)
(* that produced it and the batch it came from; a handle carries batch 0,  *)
(* because the archived URI depends on the key and not on the batch.       *)
(***************************************************************************)
EXTENDS ArtifactUnion, Report

CONSTANTS
    Order,       \* Pipeline.topo_order(): a sequence of all the nodes
    Inputs,      \* Inputs[n]: the sequence of the nodes n takes as input
    Kind,        \* Kind[n]: "source", "sample", "archive" or "free"
    Matches,     \* Matches[n]: the union keys the globs of mutating node n cover
    Documents,   \* Documents[n]: the job documents n writes in its commit, in order
    Reduces,     \* the nodes whose digest reduces the artifacts they produced
    Faulty,      \* the nodes whose own code may raise outside the per-sample failsafe
    SampleIds,   \* the ids of the job's samples
    Verdicts,    \* the verdicts a sample kernel may reach
    Batches,     \* what the source yields: [samples, findings], findings a map
    MaxWorkers   \* the size of the pool

Nodes == {Order[i] : i \in DOMAIN Order}

InputsOf(n) == {Inputs[n][i] : i \in DOMAIN Inputs[n]}

Source == CHOOSE n \in Nodes : Kind[n] = "source"

WithTheSource == Nodes    \* bug: the source is left among the nodes to run

Downstream == Nodes \ {Source}

\* The documents of DataArchiver.commit.
DocumentNames == {"report", "pipeline", "config"}

Keys == Nodes \X (SampleIds \cup {"batch"} \cup DocumentNames)

\* What Pipeline.validated() accepts: one source, which is the one node
\* without inputs, and topo_order() placed every node after its inputs.
ASSUME PipelineAssumption ==
    /\ Order \in Seq(Nodes)
    /\ \A i, j \in DOMAIN Order : Order[i] = Order[j] => i = j
    /\ Kind \in [Nodes -> {"source", "sample", "archive", "free"}]
    /\ \E n \in Nodes : Kind[n] = "source"
    /\ Inputs \in [Nodes -> Seq(Nodes)]
    /\ \A n \in Nodes : Kind[n] = "source" <=> Inputs[n] = <<>>
    /\ \A n, m \in Nodes : Kind[n] = "source" /\ Kind[m] = "source" => n = m
    /\ \A i \in DOMAIN Order : \A d \in InputsOf(Order[i]) :
          \E j \in 1 .. i - 1 : Order[j] = d

ASSUME WorkerAssumption == MaxWorkers \in Nat \ {0}

\* Of the kernels only a DataArchiver writes documents, and only in archive
\* mode: commit() returns at once when it frees.
ASSUME JobAssumption ==
    /\ Batches \in Seq([samples : SUBSET SampleIds, findings : MapsOver(SampleIds, Statuses)])
    /\ Matches \in [Nodes -> SUBSET Keys]
    /\ Documents \in [Nodes -> Seq(DocumentNames)]
    /\ \A n \in Nodes : Documents[n] # <<>> => Kind[n] = "archive"
    /\ Verdicts \subseteq Statuses
    /\ Reduces \subseteq Nodes /\ Faulty \subseteq Nodes
    /\ IsFiniteSet(SampleIds)

VARIABLES
    phase,     \* where run() is: see Phases
    batch,     \* n_batches
    arts,      \* _run_dag: the union of every node folded so far
    reps,      \* _run_dag: the report of every node folded so far
    pending,   \* _run_dag: the nodes not submitted yet
    task,      \* the futures in flight: node -> [state, art, rep]
    queue,     \* the pool's work queue, oldest first
    job,       \* self.artifacts
    report,    \* the job report
    cursor,    \* the position in Order of the digest or commit loop
    stamp,     \* the part of the job block computed last
    docs       \* the documents on disk: <<node, document>> -> what was written

vars == <<phase, batch, arts, reps, pending, task, queue, job, report,
          cursor, stamp, docs>>

dagVars == <<arts, reps, pending, task, queue>>

\* "unwind": an exception is leaving the `with pool` block, which still waits
\* for every future; "raised": it has left run().
Phases == {"source", "dag", "unwind", "reduce", "commit", "done", "raised"}

NotStamped == [n_batches |-> 0, n_samples |-> 0, counts |-> Counts(EmptyReport)]

Init ==
    /\ phase = "source"
    /\ batch = 0
    /\ arts = EmptyMap
    /\ reps = EmptyMap
    /\ pending = {}
    /\ task = EmptyMap
    /\ queue = <<>>
    /\ job = EmptyUnion
    /\ report = EmptyReport
    /\ cursor = 1
    /\ stamp = NotStamped
    /\ docs = EmptyMap

-----------------------------------------------------------------------------
(* The batch loop: the source *)

BatchKey == <<Source, "batch">>

BatchObject(b) == [kind |-> "batch", by |-> Source, batch |-> b]
Raw(n, b)      == [kind |-> "raw", by |-> n, batch |-> b]
Handle(n)      == [kind |-> "lazy", by |-> n, batch |-> 0]

\* The source yields a batch; the driver enters _run_dag on it.
NextBatch ==
    /\ phase = "source"
    /\ batch < Len(Batches)
    /\ LET b        == batch + 1
           findings == Batches[b].findings
           checks   == [k \in (DOMAIN findings) \X {"enumerate"} |-> findings[k[1]]]
       IN  /\ batch' = b
           /\ arts' = [n \in {Source} |->
                         Extended(EmptyUnion, [k \in {BatchKey} |-> BatchObject(b)])]
           /\ reps' = [n \in {Source} |->
                         Apply(EmptyReport, Source, [checks |-> checks, summary |-> {}])]
    /\ pending' = Downstream
    /\ task' = EmptyMap
    /\ queue' = <<>>
    /\ phase' = "dag"
    /\ UNCHANGED <<job, report, cursor, stamp, docs>>

EnterReduce == /\ phase' = "reduce"
               /\ cursor' = 1

\* StopIteration.
SourceExhausted ==
    /\ phase = "source"
    /\ batch = Len(Batches)
    /\ EnterReduce
    /\ UNCHANGED <<batch, dagVars, job, report, stamp, docs>>

SourceRaisesUncaught ==    \* bug: no failsafe around the source
    /\ phase = "source"
    /\ Source \in Faulty
    /\ phase' = "raised"
    /\ UNCHANGED <<batch, dagVars, job, report, cursor, stamp, docs>>

\* Enumeration blows up: recorded in the summary, and the job goes on.
SourceRaises ==
    /\ phase = "source"
    /\ Source \in Faulty
    /\ report' = [report EXCEPT !.summary = @ \cup {<<Source, "source_error">>}]
    /\ EnterReduce
    /\ UNCHANGED <<batch, dagVars, job, stamp, docs>>

-----------------------------------------------------------------------------
(* _run_dag: the driver *)

WaitsForTheSource ==    \* bug: the source's own result does not count
    {n \in pending : InputsOf(n) \subseteq DOMAIN arts \ {Source}}

Ready == {n \in pending : InputsOf(n) \subseteq DOMAIN arts}

Position(n) == CHOOSE i \in DOMAIN Order : Order[i] = n

GlobalReport(n) ==    \* bug: whatever finished first
    [i \in {i \in DOMAIN Order : Order[i] \in DOMAIN reps} |-> reps[Order[i]]]

\* The unions and the reports of n's inputs, in the order n lists them.
InputUnions(n)  == [i \in DOMAIN Inputs[n] |-> arts[Inputs[n][i]]]
InputReports(n) == [i \in DOMAIN Inputs[n] |-> reps[Inputs[n][i]]]

\* Submit the first ready node; its inputs are joined now, on the driver.
Submit(n) ==
    /\ phase = "dag"
    /\ n \in Ready
    /\ \A m \in Ready : Position(n) <= Position(m)
    /\ pending' = pending \ {n}
    /\ IF JoinConflict(InputUnions(n))
       THEN phase' = "unwind" /\ UNCHANGED <<task, queue>>
       ELSE /\ task' = Override(task, [m \in {n} |->
                          [state |-> "queued",
                           art   |-> JoinAll(InputUnions(n)),
                           rep   |-> MergeAll(InputReports(n))]])
            /\ queue' = Append(queue, n)
            /\ UNCHANGED phase
    /\ UNCHANGED <<batch, arts, reps, job, report, cursor, stamp, docs>>

InState(s) == {n \in DOMAIN task : task[n].state = s}

\* wait(FIRST_COMPLETED) returned the futures of D; fold them all.
Fold(D) ==
    /\ phase = "dag"
    /\ Ready = {}
    /\ D # {} /\ D \subseteq InState("finished")
    /\ arts' = Override(arts, [n \in D |-> task[n].art])
    /\ reps' = Override(reps, [n \in D |-> task[n].rep])
    /\ task' = Without(task, D)
    /\ UNCHANGED <<phase, batch, pending, queue, job, report, cursor, stamp, docs>>

LastNodeOnly == {Len(Order)}    \* bug: the last node taken for the only leaf

\* The nodes nothing consumes, as positions in Order.
Leaves == {i \in DOMAIN Order : \A n \in Nodes : Order[i] \notin InputsOf(n)}

LeafUnions  == [i \in Leaves |-> arts[Order[i]]]
LeafReports == [i \in Leaves |-> reps[Order[i]]]

KeepsTheBatch == JoinAll(LeafUnions)    \* bug: the Batch outlives its run

FoldsStale ==    \* bug: the inner nodes are folded in after the leaves
    WithoutTransients(Union(JoinAll(LeafUnions),
                            JoinAll([i \in DOMAIN Order \ Leaves |-> arts[Order[i]]])))

BatchUnion == WithoutTransients(JoinAll(LeafUnions))

MergeConflict == JoinConflict(LeafUnions) \/ UnionConflict(job, BatchUnion)

\* Every node of the batch is folded: fold the leaves into the job.
MergeBatch ==
    /\ phase = "dag"
    /\ pending = {} /\ task = EmptyMap
    /\ IF MergeConflict
       THEN phase' = "unwind" /\ UNCHANGED <<job, report, arts, reps>>
       ELSE /\ phase' = "source"
            /\ job' = Union(job, BatchUnion)
            /\ report' = Merge(report, MergeAll(LeafReports))
            /\ arts' = EmptyMap /\ reps' = EmptyMap
    /\ UNCHANGED <<batch, pending, task, queue, cursor, stamp, docs>>

RaisesAtOnce ==    \* bug: no wait for the pool
    /\ phase = "unwind"
    /\ phase' = "raised"
    /\ UNCHANGED <<batch, dagVars, job, report, cursor, stamp, docs>>

WaitsForFolds ==    \* bug: waits for futures that nobody folds any more
    /\ phase = "unwind"
    /\ task = EmptyMap
    /\ phase' = "raised"
    /\ UNCHANGED <<batch, dagVars, job, report, cursor, stamp, docs>>

\* An ExecutorError leaves the `with pool` block once every future, those
\* still queued included, has run.
Unwound ==
    /\ phase = "unwind"
    /\ DOMAIN task = InState("finished")
    /\ phase' = "raised"
    /\ UNCHANGED <<batch, dagVars, job, report, cursor, stamp, docs>>

-----------------------------------------------------------------------------
(* The pool's workers: _run_node *)

\* A free worker takes the oldest submission.
Start ==
    /\ queue # <<>>
    /\ Cardinality(InState("running")) < MaxWorkers
    /\ task' = [task EXCEPT ![Head(queue)].state = "running"]
    /\ queue' = Tail(queue)
    /\ UNCHANGED <<phase, batch, arts, reps, pending, job, report, cursor, stamp, docs>>

\* The node's result: its union, and its view of the report plus what it adds.
Completes(n, art, ext) ==
    /\ task' = [task EXCEPT ![n] = [state |-> "finished", art |-> art,
                                    rep |-> Apply(task[n].rep, n, ext)]]
    /\ UNCHANGED <<phase, batch, arts, reps, pending, queue, job, report,
                   cursor, stamp, docs>>

AllIds(n) ==    \* bug: the failed samples are not left out
    IF ~HasBatch(task[n].art) THEN {} ELSE Batches[FindBatch(task[n].art).batch].samples

\* _live_ids: the samples of the Batch in n's union that no ancestor failed.
LiveIds(n) ==
    IF ~HasBatch(task[n].art) THEN {}
    ELSE {s \in Batches[FindBatch(task[n].art).batch].samples : IsAlive(task[n].rep, s)}

\* SampleKernel.run: one verdict per live sample, and an artifact unless the
\* sample is in error.
JudgeSamples(n) ==
    /\ n \in InState("running") /\ Kind[n] = "sample"
    /\ HasBatch(task[n].art)
    /\ \E v \in [LiveIds(n) -> Verdicts] :
         LET made == {<<n, s>> : s \in {s \in LiveIds(n) : v[s] # "error"}}
         IN  Completes(n,
                Extended(task[n].art, [k \in made |-> Raw(n, batch)]),
                [checks  |-> [k \in LiveIds(n) \X {"check"} |-> v[k[1]]],
                 summary |-> {}])

Matched(n) == Matches[n] \cap DOMAIN task[n].art.data

\* DataArchiver, archive mode: every matched key now holds a handle.
Archive(n) ==
    /\ n \in InState("running") /\ Kind[n] = "archive"
    /\ Completes(n, WithMutations(task[n].art, [k \in Matched(n) |-> Handle(n)], {}),
                 EmptyExt)

\* DataArchiver, free mode: every matched key goes.
Free(n) ==
    /\ n \in InState("running") /\ Kind[n] = "free"
    /\ Completes(n, WithMutations(task[n].art, EmptyMap, Matched(n)), EmptyExt)

\* Why run() of node n may raise outright: there is no Batch for it to read,
\* or its own code or a write fails.
MayRaise(n) == \/ Kind[n] = "sample" /\ (n \in Faulty \/ ~HasBatch(task[n].art))
               \/ Kind[n] = "archive" /\ n \in Faulty /\ Matched(n) # {}

FailsSilently(n) ==    \* bug: whole-node failure marks nobody
    /\ n \in InState("running") /\ MayRaise(n)
    /\ Completes(n, task[n].art, EmptyExt)

\* Whole-node failure: every live sample is an error at this node, and the
\* union is what came in.
RunRaises(n) ==
    /\ n \in InState("running") /\ MayRaise(n)
    /\ Completes(n, task[n].art,
                 [checks |-> [k \in LiveIds(n) \X {"error"} |-> "error"], summary |-> {}])

Run(n) == JudgeSamples(n) \/ Archive(n) \/ Free(n) \/ RunRaises(n)

-----------------------------------------------------------------------------
(* digest, stamp, commit *)

NodeAt == Order[cursor]

\* A handle among the artifacts node n reduces: the archiver got there first.
Archived(n) == \E k \in DOMAIN job.data : k[1] = n /\ job.data[k].kind = "lazy"

\* digest() of the node at the cursor; base kernels return None.
Digest ==
    /\ phase = "reduce"
    /\ cursor \in DOMAIN Order
    /\ NodeAt \in Reduces => ~Archived(NodeAt)
    /\ report' = IF NodeAt \in Reduces
                 THEN Apply(report, NodeAt, [EmptyExt EXCEPT !.summary = {"digest"}])
                 ELSE report
    /\ cursor' = cursor + 1
    /\ UNCHANGED <<phase, batch, dagVars, job, stamp, docs>>

\* digest() raises: run() has no failsafe there.
DigestRaises ==
    /\ phase = "reduce"
    /\ cursor \in DOMAIN Order
    /\ NodeAt \in Reduces /\ (Archived(NodeAt) \/ NodeAt \in Faulty)
    /\ phase' = "raised"
    /\ UNCHANGED <<batch, dagVars, job, report, cursor, stamp, docs>>

\* The job block is completed; the commit pass begins.
Stamp ==
    /\ phase = "reduce"
    /\ cursor \notin DOMAIN Order
    /\ stamp' = [n_batches |-> batch,
                 n_samples |-> Cardinality(DOMAIN report.status),
                 counts    |-> Counts(report)]
    /\ phase' = "commit"
    /\ cursor' = 1
    /\ UNCHANGED <<batch, dagVars, job, report, docs>>

\* The first m documents of node n, as they are written now.
Written(n, m) ==
    [k \in {<<n, Documents[n][i]>> : i \in 1 .. m} |-> [report |-> report, stamp |-> stamp]]

\* commit() of the node at the cursor: archivers write their documents, and
\* the union points at them.
Commit ==
    /\ phase = "commit"
    /\ cursor \in DOMAIN Order
    /\ LET uris == Written(NodeAt, Len(Documents[NodeAt]))
       IN  /\ docs' = Override(docs, uris)
           /\ job' = Extended(job, [k \in DOMAIN uris |-> Handle(NodeAt)])
    /\ cursor' = cursor + 1
    /\ UNCHANGED <<phase, batch, dagVars, report, stamp>>

\* A write of the commit pass fails: the documents before it are on disk.
CommitRaises ==
    /\ phase = "commit"
    /\ cursor \in DOMAIN Order
    /\ NodeAt \in Faulty
    /\ \E m \in 0 .. Len(Documents[NodeAt]) - 1 : docs' = Override(docs, Written(NodeAt, m))
    /\ phase' = "raised"
    /\ UNCHANGED <<batch, dagVars, job, report, cursor, stamp>>

JobFinished ==
    /\ phase = "commit"
    /\ cursor \notin DOMAIN Order
    /\ phase' = "done"
    /\ UNCHANGED <<batch, dagVars, job, report, cursor, stamp, docs>>

-----------------------------------------------------------------------------
Driver == \/ NextBatch \/ SourceExhausted \/ SourceRaises
          \/ \E n \in Downstream : Submit(n)
          \/ \E D \in SUBSET Downstream : Fold(D)
          \/ MergeBatch \/ Unwound
          \/ Digest \/ DigestRaises \/ Stamp
          \/ Commit \/ CommitRaises \/ JobFinished

\* run() has returned, or an exception has left it.
Ended == phase \in {"done", "raised"} /\ UNCHANGED vars

Next == Driver \/ Start \/ (\E n \in Downstream : Run(n)) \/ Ended

\* The driver never waits but for a future; a free worker takes work; a
\* kernel that was started returns or raises.
Fairness == /\ WF_vars(Driver)
            /\ WF_vars(Start)
            /\ \A n \in Downstream : WF_vars(Run(n))

Spec == Init /\ [][Next]_vars /\ Fairness
=============================================================================
