------------------------- MODULE ExecutorProperties -------------------------
(***************************************************************************)
(* What executor.py promises of Executor: each property quotes or names    *)
(* the code or the documentation it comes from.                            *)
(***************************************************************************)
EXTENDS Executor, Dag

\* A handle, and nothing else, belongs to no batch.
Values == {v \in [kind : {"batch", "raw", "lazy"}, by : Nodes, batch : 0 .. Len(Batches)] :
              v.kind = "lazy" <=> v.batch = 0}

IsUnion(u) == /\ u = [data |-> u.data, deleted |-> u.deleted]
              /\ IsMap(u.data, Keys, Values)
              /\ u.deleted \subseteq Keys

CheckKeys == SampleIds \X Nodes \X {"enumerate", "check", "error"}

IsReport(r) == /\ r = [check |-> r.check, status |-> r.status, summary |-> r.summary]
               /\ IsMap(r.check, CheckKeys, Statuses)
               /\ IsMap(r.status, SampleIds, Statuses)
               /\ r.summary \subseteq Nodes \X {"source_error", "digest"}

IsTask(t) == /\ t = [state |-> t.state, art |-> t.art, rep |-> t.rep]
             /\ t.state \in {"queued", "running", "finished"}
             /\ IsUnion(t.art)
             /\ IsReport(t.rep)

\* The values every variable of the executor takes.
TypeOK ==
    /\ phase \in Phases
    /\ batch \in 0 .. Len(Batches)
    /\ DOMAIN arts \subseteq Nodes /\ \A n \in DOMAIN arts : IsUnion(arts[n])
    /\ DOMAIN reps \subseteq Nodes /\ \A n \in DOMAIN reps : IsReport(reps[n])
    /\ pending \subseteq Downstream
    /\ DOMAIN task \subseteq Downstream /\ \A n \in DOMAIN task : IsTask(task[n])
    /\ queue \in Seq(Downstream)
    /\ phase = "dag" \/ DOMAIN task # {} => batch > 0
    /\ IsUnion(job) /\ BatchKeys(job) = {}
    /\ IsReport(report)
    /\ cursor \in 1 .. Len(Order) + 1
    /\ stamp.n_batches \in 0 .. Len(Batches) /\ stamp.n_samples \in Nat
    /\ DOMAIN docs \subseteq Keys

InputSets == [n \in Nodes |-> InputsOf(n)]

Ancestors == [n \in Nodes |-> AncestorsOf(InputSets, n)]

-----------------------------------------------------------------------------
(* Scheduling *)

\* While a batch runs, every node is folded, in flight or pending.
Places ==
    phase = "dag" =>
        /\ DOMAIN reps = DOMAIN arts
        /\ pending \cap DOMAIN task = {}
        /\ pending \cap DOMAIN arts = {}
        /\ DOMAIN task \cap DOMAIN arts = {}
        /\ pending \cup DOMAIN task \cup DOMAIN arts = Nodes

\* The pool's queue holds the submissions no worker has taken, each once.
QueueIsPool ==
    /\ {queue[i] : i \in DOMAIN queue} = InState("queued")
    /\ \A i, j \in DOMAIN queue : queue[i] = queue[j] => i = j

\* executor.py 192-214: while a batch runs, every node is in exactly one
\* place, and at any time, also when the driver has stopped looking, the
\* pool's queue and its futures agree.
Partition == Places /\ QueueIsPool

\* executor.py 207-208, "nodes are unreachable (validation should have caught
\* this)": on a validated pipeline the driver never has pending nodes, none
\* of them ready, and nothing in flight to wait for.
NeverUnreachable ==
    phase = "dag" /\ pending # {} => Ready # {} \/ DOMAIN task # {}

-----------------------------------------------------------------------------
(* Determinism *)

ChecksBy(r, n) == Restrict(r.check, {k \in DOMAIN r.check : k[2] = n})

\* executor.py 17-19, "a node's inputs are the union of its ancestors' unions
\* and reports, never the global whatever-finished-first state": a folded
\* node's report holds exactly what each ancestor found and what it found
\* itself, and its union holds no artifact of any other node.
ViewIsAncestors ==
    \A n \in DOMAIN reps :
        /\ \A k \in DOMAIN reps[n].check : k[2] \in Ancestors[n] \cup {n}
        /\ \A a \in Ancestors[n] :
              a \in DOMAIN reps /\ ChecksBy(reps[n], a) = ChecksBy(reps[a], a)
        /\ \A k \in DOMAIN arts[n].data : k[1] \in Ancestors[n] \cup {n}

\* Sample s was given an error by node m of this batch.
FailedAt(m, s) == \E k \in DOMAIN reps[m].check :
                      k[1] = s /\ k[2] = m /\ reps[m].check[k] = "error"

JudgedBy(n, s) == \E k \in DOMAIN reps[n].check : k[1] = s /\ k[2] = n

-----------------------------------------------------------------------------
(* The merge of a batch into the job *)

Merges == phase = "dag" /\ phase' = "source"

\* executor.py 242-250, "a leaf already contains every ancestor's artifacts":
\* merging the leaves alone loses no verdict and no artifact of any node.
CarriesEverything ==
    Merges => \A n \in Nodes :
        /\ \A k \in DOMAIN reps[n].check :
              k \in DOMAIN report'.check /\ report'.check[k] = reps[n].check[k]
        /\ \A k \in DOMAIN arts[n].data \ BatchKeys(arts[n]) :
              k \in DOMAIN job'.data \cup job'.deleted

LeavesCarryEverything == [][CarriesEverything]_vars

\* executor.py 247-249, against "the mutation losing to a stale copy of
\* itself": a key an archiver replaced reaches the job as a handle written by
\* that archiver or by one downstream of it, unless it was freed.
CarriesHandles ==
    Merges => \A n \in Nodes : \A k \in DOMAIN arts[n].data :
        arts[n].data[k].kind = "lazy" =>
            \/ k \in job'.deleted
            \/ /\ k \in DOMAIN job'.data
               /\ job'.data[k].kind = "lazy"
               /\ LET w == arts[n].data[k].by
                  IN  job'.data[k].by = w \/ w \in Ancestors[job'.data[k].by]

MutationWins == [][CarriesHandles]_vars

\* data.py 82-84, "a delete is not resurrected": a key freed in any branch of
\* any batch is never in the job's artifacts again.
KeepsFreed == /\ Merges => \A n \in Nodes : arts[n].deleted \subseteq job'.deleted
              /\ job.deleted \subseteq job'.deleted
              /\ DOMAIN job'.data \cap job'.deleted = {}

FreedStaysFreed == [][KeepsFreed]_vars

\* report.py 118-119, "per-sample keys are disjoint across batches": later
\* batches never change what an earlier one recorded, in the report or in the
\* union.
EarlierBatchesStand ==
    [][/\ \A k \in DOMAIN report.check :
             k \in DOMAIN report'.check /\ report'.check[k] = report.check[k]
       /\ \A k \in DOMAIN job.data : k \in DOMAIN job'.data /\ job'.data[k] = job.data[k]]_vars

-----------------------------------------------------------------------------
(* The end of the job *)

\* executor.py 101: when an exception leaves run(), no kernel is running and
\* none is left in the queue to run after it.
RaisedIsQuiet ==
    phase = "raised" => queue = <<>> /\ InState("running") = {}

\* The job ends: run() returns or raises.
JobEnds == <>(phase \in {"done", "raised"})

\* executor.py 21-24, "The job always completes. [...] Nothing propagates out
\* of run()".
JobCompletes == <>(phase = "done")

-----------------------------------------------------------------------------
(* What the documentation says and the code does not do *)

\* design.md 314-315: "Nothing propagates out of Executor.run() - except an
\* exception from digest()".
OnlyDigestPropagates == [][phase' = "raised" /\ phase # "raised" => phase = "reduce"]_vars

\* executor.py 22-23, "a kernel that raises outright marks every live sample
\* in the batch error at that node": when a check node is folded, each of the
\* batch's samples was judged by it or failed by one of its ancestors.
EverySampleAnswered ==
    \A n \in DOMAIN reps : Kind[n] = "sample" =>
        \A s \in Batches[batch].samples :
            JudgedBy(n, s) \/ \E a \in Ancestors[n] : FailedAt(a, s)
=============================================================================
