--------------------------- MODULE ExecutorProofs ---------------------------
(***************************************************************************)
(* The executor and the job it makes, for every validated pipeline, every  *)
(* sequence of batches and every number of workers.                        *)
(*                                                                         *)
(* First, type correctness, and that the scheduler neither loses a node    *)
(* nor gets stuck.  TypeOK and Partition are inductive together: that what *)
(* the driver joins is a union and a report rests on the inputs of a ready *)
(* node, and every leaf of a finished batch, being folded.  Quiescent is   *)
(* what the end of the `with pool` block adds.                             *)
(*                                                                         *)
(* Then what flows along the graph: the report and the union a node was    *)
(* given are those of its ancestors and of nobody else, complete, and the  *)
(* leaves bring all of it to the job.  The invariant says, of every folded *)
(* node and of every future, how its union and its report relate to those  *)
(* of its ancestors, which are folded and never change again.  It speaks   *)
(* about the joins of a batch through DataLemmas and about the graph       *)
(* through the least-set definition of the ancestors.                      *)
(*                                                                         *)
(* Then the job as its user sees it: the executor implements QcJob, step   *)
(* by step.  A batch is judged when the driver merges it, so what the      *)
(* proof needs of the steps before is that each node, when it is folded,   *)
(* has answered for exactly the samples none of its ancestors condemned    *)
(* (Judging); and of the steps after, that the record the documents are    *)
(* written from is complete (JobRecord).                                   *)
(*                                                                         *)
(* Last, the counters of the live page, for every moment a browser looks:  *)
(* what LiveJob has added up batch by batch is what counting the job's     *)
(* report would give.  Watching changes nothing: every step of the watched *)
(* job is one of the job, so the executor's invariants hold here as well.  *)
(* A batch's counts may be added because its verdicts are new to the       *)
(* report, and they are new because the report speaks about the samples of *)
(* the merged batches only (JobRecord), the batch about its own (Timely),  *)
(* and no sample is of two batches (DistinctIds).                          *)
(***************************************************************************)
EXTENDS LiveView, ExecutorRefinement, DataLemmas, FiniteSetTheorems

-----------------------------------------------------------------------------
(* Unions *)

LEMMA EmptyUnionType == IsUnion(EmptyUnion)
<1>1. IsMap(EmptyMap, Keys, Values)
  BY EmptyIsMap
<1> QED BY <1>1 DEF IsUnion, EmptyUnion

\* extended: new entries of the union's type.
LEMMA ExtendedType ==
    ASSUME NEW u, IsUnion(u), NEW ext, IsMap(ext, Keys, Values)
    PROVE  IsUnion(Extended(u, ext))
<1>1. IsMap(Override(u.data, ext), Keys, Values)
  BY OverrideIsMap DEF IsUnion
<1>2. Extended(u, ext) = [data |-> Override(u.data, ext), deleted |-> u.deleted]
  BY DEF IsUnion, Extended
<1> QED BY <1>1, <1>2 DEF IsUnion

\* with_mutations.
LEMMA WithMutationsType ==
    ASSUME NEW u, IsUnion(u),
           NEW replace, IsMap(replace, Keys, Values), NEW delete, delete \subseteq Keys
    PROVE  IsUnion(WithMutations(u, replace, delete))
<1>1. IsMap(Without(Override(u.data, replace), delete), Keys, Values)
  BY OverrideIsMap, WithoutIsMap DEF IsUnion
<1> QED BY <1>1 DEF IsUnion, WithMutations

\* without_transients: and no Batch is left.
LEMMA WithoutTransientsType ==
    ASSUME NEW u, IsUnion(u)
    PROVE  IsUnion(WithoutTransients(u)) /\ BatchKeys(WithoutTransients(u)) = {}
<1> DEFINE d == Without(u.data, BatchKeys(u))
<1>1. IsMap(d, Keys, Values)
  BY WithoutIsMap DEF IsUnion
<1>2. WithoutTransients(u) = [data |-> d, deleted |-> u.deleted]
  BY DEF IsUnion, WithoutTransients
<1>3. \A k \in DOMAIN d : k \in DOMAIN u.data \ BatchKeys(u) /\ d[k] = u.data[k]
  BY DEF Without, Restrict
<1>4. \A k \in DOMAIN d : d[k].kind # "batch"
  BY <1>3 DEF BatchKeys
<1> HIDE DEF d
<1>5. BatchKeys(WithoutTransients(u)) = {}
  BY <1>2, <1>4 DEF BatchKeys
<1> QED BY <1>1, <1>2, <1>5 DEF IsUnion

\* union: and a Batch in it was in one of the two.
LEMMA UnionType ==
    ASSUME NEW u, IsUnion(u), NEW v, IsUnion(v)
    PROVE  /\ IsUnion(Union(u, v))
           /\ BatchKeys(u) = {} /\ BatchKeys(v) = {} => BatchKeys(Union(u, v)) = {}
<1> DEFINE freed == u.deleted \cup v.deleted
           d == Without(Override(u.data, v.data), freed)
<1>1. IsMap(d, Keys, Values)
  BY OverrideIsMap, WithoutIsMap DEF IsUnion
<1>2. Union(u, v) = [data |-> d, deleted |-> freed]
  BY DEF Union
<1>3. ASSUME NEW k \in DOMAIN d
      PROVE  \/ k \in DOMAIN u.data /\ d[k] = u.data[k]
             \/ k \in DOMAIN v.data /\ d[k] = v.data[k]
  BY <1>3 DEF Without, Restrict, Override
<1>4. freed \subseteq Keys
  BY DEF IsUnion
<1> HIDE DEF d, freed
<1>5. BatchKeys(u) = {} /\ BatchKeys(v) = {} => BatchKeys(Union(u, v)) = {}
  BY <1>2, <1>3 DEF BatchKeys
<1> QED BY <1>1, <1>2, <1>4, <1>5 DEF IsUnion

\* The join of a family of unions.
LEMMA JoinAllType ==
    ASSUME NEW us, \A i \in DOMAIN us : IsUnion(us[i])
    PROVE  IsUnion(JoinAll(us))
<1> DEFINE freed == FreedAt(us, DOMAIN us)
           keys == (UNION {DOMAIN us[i].data : i \in DOMAIN us}) \ freed
           at(k) == CHOOSE i \in DOMAIN us : k \in DOMAIN us[i].data
           d == [k \in keys |-> us[at(k)].data[k]]
<1>1. \A k \in keys : at(k) \in DOMAIN us /\ k \in DOMAIN us[at(k)].data
  OBVIOUS
<1>2. \A i \in DOMAIN us : \A k \in DOMAIN us[i].data :
         k \in Keys /\ us[i].data[k] \in Values
  BY DEF IsUnion, IsMap
<1>3. \A k \in keys : k \in Keys /\ us[at(k)].data[k] \in Values
  BY <1>1, <1>2
<1>4. IsMap(d, Keys, Values)
  BY <1>3 DEF IsMap
<1>5. freed \subseteq Keys
  BY DEF FreedAt, IsUnion
<1>6. JoinAll(us) = [data |-> d, deleted |-> freed]
  BY DEF JoinAll
<1> HIDE DEF d, freed
<1> QED BY <1>4, <1>5, <1>6 DEF IsUnion

-----------------------------------------------------------------------------
(* Reports *)

\* The statuses of one sample's checks.
LEMMA ChecksOfType ==
    ASSUME NEW check, IsMap(check, CheckKeys, Statuses), NEW s
    PROVE  ChecksOf(check, s) \in SUBSET Statuses
BY DEF ChecksOf, IsMap

LEMMA EmptyReportType == IsReport(EmptyReport)
<1>1. IsMap(EmptyMap, CheckKeys, Statuses) /\ IsMap(EmptyMap, SampleIds, Statuses)
  BY EmptyIsMap
<1> QED BY <1>1 DEF IsReport, EmptyReport

\* What a node of this model may contribute.
IsExt(ext) == /\ IsMap(ext.checks, SampleIds \X {"enumerate", "check", "error"}, Statuses)
              /\ ext.summary \subseteq {"source_error", "digest"}

LEMMA EmptyExtType == IsExt(EmptyExt)
BY EmptyIsMap DEF IsExt, EmptyExt

\* A node's checks, under its name.
LEMMA NamespacedType ==
    ASSUME NEW n \in Nodes, NEW ext, IsExt(ext)
    PROVE  IsMap(Namespaced(n, ext), CheckKeys, Statuses)
<1> DEFINE names == {"enumerate", "check", "error"}
           keys == {<<k[1], n, k[2]>> : k \in DOMAIN ext.checks}
<1>1. \A k \in DOMAIN ext.checks :
         k \in SampleIds \X names /\ k = <<k[1], k[2]>> /\ ext.checks[k] \in Statuses
  BY DEF IsExt, IsMap
<1>2. \A k \in keys : k \in CheckKeys /\ <<k[1], k[3]>> \in DOMAIN ext.checks
  BY <1>1 DEF CheckKeys
<1>3. \A k \in keys : ext.checks[<<k[1], k[3]>>] \in Statuses
  BY <1>1, <1>2
<1>4. Namespaced(n, ext) = [k \in keys |-> ext.checks[<<k[1], k[3]>>]]
  BY DEF Namespaced
<1> HIDE DEF keys
<1> QED BY <1>2, <1>3, <1>4 DEF IsMap

\* apply.
LEMMA ApplyType ==
    ASSUME NEW r, IsReport(r), NEW n \in Nodes, NEW ext, IsExt(ext)
    PROVE  IsReport(Apply(r, n, ext))
<1> DEFINE check == Override(r.check, Namespaced(n, ext))
           judged == [s \in Judged(ext) |-> Worst(ChecksOf(check, s))]
           status == Override(r.status, judged)
           summary == r.summary \cup {<<n, f>> : f \in ext.summary}
<1>1. IsMap(check, CheckKeys, Statuses)
  BY NamespacedType, OverrideIsMap DEF IsReport
<1> HIDE DEF check
<1>2. Judged(ext) \subseteq SampleIds
  BY DEF Judged, IsExt, IsMap
<1>3. \A s : Worst(ChecksOf(check, s)) \in Statuses
  BY <1>1, ChecksOfType, WorstFacts
<1>4. IsMap(judged, SampleIds, Statuses)
  BY <1>2, <1>3 DEF IsMap
<1> HIDE DEF judged
<1>5. IsMap(status, SampleIds, Statuses)
  BY <1>4, OverrideIsMap DEF IsReport
<1>6. summary \subseteq Nodes \X {"source_error", "digest"}
  BY DEF IsReport, IsExt
<1>7. Apply(r, n, ext) = [check |-> check, status |-> status, summary |-> summary]
  BY DEF Apply, check, judged
<1> HIDE DEF status, summary
<1> QED BY <1>1, <1>5, <1>6, <1>7 DEF IsReport

\* merge.
LEMMA MergeType ==
    ASSUME NEW r, IsReport(r), NEW o, IsReport(o)
    PROVE  IsReport(Merge(r, o))
<1> DEFINE check == Override(r.check, o.check)
           fresh == DOMAIN o.status \ DOMAIN r.status
           S == DOMAIN r.status \cup DOMAIN o.status
           merged(s) == IF s \in fresh THEN o.status[s]
                        ELSE IF s \in DOMAIN o.status THEN Worst(ChecksOf(check, s))
                        ELSE r.status[s]
           status == [s \in S |-> merged(s)]
<1>1. IsMap(check, CheckKeys, Statuses)
  BY OverrideIsMap DEF IsReport
<1> HIDE DEF check
<1>2. \A s : Worst(ChecksOf(check, s)) \in Statuses
  BY <1>1, ChecksOfType, WorstFacts
<1>3. /\ S \subseteq SampleIds
      /\ \A s \in DOMAIN r.status : r.status[s] \in Statuses
      /\ \A s \in DOMAIN o.status : o.status[s] \in Statuses
  BY DEF IsReport, IsMap
<1>4. \A s \in S : merged(s) \in Statuses
  BY <1>2, <1>3
<1>5. IsMap(status, SampleIds, Statuses)
  BY <1>3, <1>4 DEF IsMap
<1>6. Merge(r, o) = [check |-> check, status |-> status,
                     summary |-> r.summary \cup o.summary]
  BY DEF Merge, check
<1> HIDE DEF status
<1> QED BY <1>1, <1>5, <1>6 DEF IsReport

\* The join of a family of reports at positions up to N.
LEMMA MergeAllType ==
    ASSUME NEW N \in Nat, NEW rs, DOMAIN rs \subseteq 0 .. N,
           \A i \in DOMAIN rs : IsReport(rs[i])
    PROVE  IsReport(MergeAll(rs))
<1> DEFINE keys == UNION {DOMAIN rs[i].check : i \in DOMAIN rs}
           last(k) == LastWith(rs, LAMBDA r : k \in DOMAIN r.check)
           check == [k \in keys |-> rs[last(k)].check[k]]
           with(s) == {i \in DOMAIN rs : s \in DOMAIN rs[i].status}
           samples == UNION {DOMAIN rs[i].status : i \in DOMAIN rs}
           joined(s) == IF \E i \in with(s) : with(s) = {i}
                        THEN rs[CHOOSE i \in with(s) : TRUE].status[s]
                        ELSE Worst(ChecksOf(check, s))
           status == [s \in samples |-> joined(s)]
           summary == UNION {rs[i].summary : i \in DOMAIN rs}
<1>1. ASSUME NEW k \in keys
      PROVE  last(k) \in DOMAIN rs /\ k \in DOMAIN rs[last(k)].check
  <2> DEFINE holders == {i \in DOMAIN rs : k \in DOMAIN rs[i].check}
  <2>1. PICK i \in holders : \A j \in holders : j <= i
    <3>1. holders \subseteq 0 .. N /\ holders # {}
      OBVIOUS
    <3> HIDE DEF holders
    <3> QED BY <3>1, GreatestPosition
  <2> QED BY <2>1 DEF LastWith
<1>2. \A k \in keys : k \in CheckKeys /\ rs[last(k)].check[k] \in Statuses
  BY <1>1 DEF IsReport, IsMap
<1>3. IsMap(check, CheckKeys, Statuses)
  BY <1>2 DEF IsMap
<1> HIDE DEF check
<1>4. \A s : Worst(ChecksOf(check, s)) \in Statuses
  BY <1>3, ChecksOfType, WorstFacts
<1>5. \A i \in DOMAIN rs : \A s \in DOMAIN rs[i].status :
         s \in SampleIds /\ rs[i].status[s] \in Statuses
  BY DEF IsReport, IsMap
<1>6. \A s \in samples : s \in SampleIds /\ joined(s) \in Statuses
  BY <1>4, <1>5
<1>7. IsMap(status, SampleIds, Statuses)
  BY <1>6 DEF IsMap
<1>8. summary \subseteq Nodes \X {"source_error", "digest"}
  BY DEF IsReport
<1>9. MergeAll(rs) = [check |-> check, status |-> status, summary |-> summary]
  BY DEF MergeAll, MergedStatus, check
<1> HIDE DEF status, summary
<1> QED BY <1>3, <1>7, <1>8, <1>9 DEF IsReport

-----------------------------------------------------------------------------
(* The invariant *)

\* Outside the `with pool` block no kernel runs and none is to run.
Quiescent == phase \notin {"dag", "unwind"} => DOMAIN task = InState("finished")

IInv == TypeOK /\ Partition /\ Quiescent

\* PipelineAssumption, in terms of the definitions built on it.
LEMMA PipelineFacts ==
    /\ Source \in Nodes /\ Kind[Source] = "source"
    /\ Nodes = {Source} \cup Downstream /\ Source \notin Downstream
    /\ \A n \in Nodes : InputsOf(n) \subseteq Nodes
    /\ \A n \in Nodes : \A i \in DOMAIN Inputs[n] : Inputs[n][i] \in InputsOf(n)
    /\ \A n \in Nodes : DOMAIN Inputs[n] = 1 .. Len(Inputs[n]) /\ Len(Inputs[n]) \in Nat
    /\ DOMAIN Order = 1 .. Len(Order) /\ Len(Order) \in Nat
    /\ \A i \in DOMAIN Order : Order[i] \in Nodes
<1>1. Source \in Nodes /\ Kind[Source] = "source"
  BY PipelineAssumption DEF Source
<1>2. \A n \in Nodes : Inputs[n] \in Seq(Nodes)
  BY PipelineAssumption
<1>3. \A n \in Nodes : InputsOf(n) \subseteq Nodes
  BY <1>2 DEF InputsOf
<1>4. \A n \in Nodes : \A i \in DOMAIN Inputs[n] : Inputs[n][i] \in InputsOf(n)
  BY DEF InputsOf
<1>5. \A n \in Nodes : DOMAIN Inputs[n] = 1 .. Len(Inputs[n]) /\ Len(Inputs[n]) \in Nat
  BY <1>2
<1>6. DOMAIN Order = 1 .. Len(Order) /\ Len(Order) \in Nat
  BY PipelineAssumption
<1>7. \A i \in DOMAIN Order : Order[i] \in Nodes
  BY DEF Nodes
<1> QED BY <1>1, <1>3, <1>4, <1>5, <1>6, <1>7 DEF Downstream

\* What the source yields is of the model's types.
LEMMA BatchFacts ==
    /\ Len(Batches) \in Nat
    /\ \A b \in 1 .. Len(Batches) :
          /\ Batches[b].samples \subseteq SampleIds
          /\ IsMap(Batches[b].findings, SampleIds, Statuses)
<1> DEFINE B == [samples : SUBSET SampleIds, findings : MapsOver(SampleIds, Statuses)]
<1>1. Len(Batches) \in Nat /\ \A b \in 1 .. Len(Batches) : Batches[b] \in B
  <2>1. Batches \in Seq(B)
    BY JobAssumption
  <2> HIDE DEF B
  <2> QED BY <2>1
<1>2. \A d \in MapsOver(SampleIds, Statuses) : IsMap(d, SampleIds, Statuses)
  BY DEF MapsOver, IsMap
<1> QED BY <1>1, <1>2

-----------------------------------------------------------------------------
(* The joins and the results *)

\* The inputs of a ready node join to a union and a report.
LEMMA SubmitType ==
    ASSUME IInv, phase = "dag", NEW n \in Nodes, InputsOf(n) \subseteq DOMAIN arts
    PROVE  IsUnion(JoinAll(InputUnions(n))) /\ IsReport(MergeAll(InputReports(n)))
<1>1. \A i \in DOMAIN Inputs[n] : Inputs[n][i] \in DOMAIN arts /\ Inputs[n][i] \in DOMAIN reps
  BY PipelineFacts DEF IInv, Partition, Places
<1>2. \A i \in DOMAIN InputUnions(n) : IsUnion(InputUnions(n)[i])
  BY <1>1 DEF InputUnions, IInv, TypeOK
<1>3. \A i \in DOMAIN InputReports(n) : IsReport(InputReports(n)[i])
  BY <1>1 DEF InputReports, IInv, TypeOK
<1>4. DOMAIN InputReports(n) \subseteq 0 .. Len(Inputs[n]) /\ Len(Inputs[n]) \in Nat
  BY PipelineFacts DEF InputReports
<1>5. IsUnion(JoinAll(InputUnions(n)))
  BY <1>2, JoinAllType
<1>6. IsReport(MergeAll(InputReports(n)))
  BY <1>3, <1>4, MergeAllType
<1> QED BY <1>5, <1>6

\* So do the leaves of a finished batch.
LEMMA LeavesType ==
    ASSUME IInv, phase = "dag", pending = {}, task = EmptyMap
    PROVE  /\ IsUnion(BatchUnion) /\ BatchKeys(BatchUnion) = {}
           /\ IsReport(MergeAll(LeafReports))
<1>1. DOMAIN arts = Nodes /\ DOMAIN reps = Nodes
  BY EmptyDomain DEF IInv, Partition, Places
<1>2. Leaves \subseteq 0 .. Len(Order) /\ \A i \in Leaves : Order[i] \in Nodes
  BY PipelineFacts DEF Leaves
<1>3. \A i \in DOMAIN LeafUnions : IsUnion(LeafUnions[i])
  BY <1>1, <1>2 DEF LeafUnions, IInv, TypeOK
<1>4. \A i \in DOMAIN LeafReports : IsReport(LeafReports[i])
  BY <1>1, <1>2 DEF LeafReports, IInv, TypeOK
<1>5. DOMAIN LeafReports \subseteq 0 .. Len(Order) /\ Len(Order) \in Nat
  BY <1>2, PipelineFacts DEF LeafReports
<1>6. IsUnion(JoinAll(LeafUnions))
  BY <1>3, JoinAllType
<1>7. IsReport(MergeAll(LeafReports))
  BY <1>4, <1>5, MergeAllType
<1> QED BY <1>6, <1>7, WithoutTransientsType DEF BatchUnion

\* A kernel is given samples of the job.
LEMMA LiveIdsType ==
    ASSUME TypeOK, NEW n \in DOMAIN task
    PROVE  LiveIds(n) \subseteq SampleIds
<1>1. IsUnion(task[n].art)
  BY DEF TypeOK, IsTask
<1>2. CASE ~HasBatch(task[n].art)
  BY <1>2 DEF LiveIds
<1>3. CASE HasBatch(task[n].art)
  <2> DEFINE k == CHOOSE k \in BatchKeys(task[n].art) : TRUE
  <2>1. k \in BatchKeys(task[n].art)
    BY <1>3 DEF HasBatch
  <2>2. task[n].art.data[k] \in Values /\ task[n].art.data[k].kind = "batch"
    BY <1>1, <2>1 DEF BatchKeys, IsUnion, IsMap
  <2>3. FindBatch(task[n].art) = task[n].art.data[k]
    BY DEF FindBatch
  <2> HIDE DEF k
  <2>4. FindBatch(task[n].art).batch \in 1 .. Len(Batches)
    BY <2>2, <2>3, BatchFacts DEF Values
  <2> QED BY <2>4, BatchFacts DEF LiveIds
<1> QED BY <1>2, <1>3

\* A future.
LEMMA TaskType ==
    ASSUME NEW st \in {"queued", "running", "finished"},
           NEW a, IsUnion(a), NEW r, IsReport(r)
    PROVE  IsTask([state |-> st, art |-> a, rep |-> r])
BY DEF IsTask

\* A kernel that has run leaves a union and a report in its future.
LEMMA CompletesType ==
    ASSUME TypeOK, NEW n \in DOMAIN task, NEW art, IsUnion(art), NEW ext, IsExt(ext),
           Completes(n, art, ext)
    PROVE  TypeOK'
<1> DEFINE done == [state |-> "finished", art |-> art, rep |-> Apply(task[n].rep, n, ext)]
<1>1. n \in Nodes /\ IsReport(task[n].rep)
  BY DEF TypeOK, IsTask, Downstream
<1>2. IsTask(done)
  BY <1>1, ApplyType, TaskType
<1>3. task' = [task EXCEPT ![n] = done]
  BY DEF Completes
<1> HIDE DEF done
<1>4. DOMAIN task' = DOMAIN task /\ \A m \in DOMAIN task' : IsTask(task'[m])
  BY <1>2, <1>3 DEF TypeOK
<1> QED BY <1>4 DEF TypeOK, Completes

-----------------------------------------------------------------------------
(* Type correctness, one action of the pool or of the driver at a time *)

LEMMA InitType == Init => TypeOK
<1> SUFFICES ASSUME Init PROVE TypeOK
  OBVIOUS
<1>1. IsUnion(job) /\ IsReport(report)
  BY EmptyUnionType, EmptyReportType DEF Init
<1>2. BatchKeys(job) = {}
  BY EmptyDomain DEF Init, BatchKeys, EmptyUnion
<1>3. stamp.n_batches \in 0 .. Len(Batches) /\ stamp.n_samples \in Nat
  BY BatchFacts DEF Init, NotStamped
<1>4. batch \in 0 .. Len(Batches) /\ cursor \in 1 .. Len(Order) + 1
  BY BatchFacts, PipelineFacts DEF Init
<1>5. phase \in Phases /\ phase # "dag" /\ queue \in Seq(Downstream)
  BY DEF Init, Phases
<1>6. DOMAIN arts = {} /\ DOMAIN reps = {} /\ DOMAIN task = {} /\ DOMAIN docs = {}
  BY EmptyDomain DEF Init
<1> QED BY <1>1, <1>2, <1>3, <1>4, <1>5, <1>6 DEF Init, TypeOK

LEMMA NextBatchType == ASSUME TypeOK, NextBatch PROVE TypeOK'
<1> DEFINE b == batch + 1
           findings == Batches[b].findings
           checks == [k \in (DOMAIN findings) \X {"enumerate"} |-> findings[k[1]]]
           carrier == [k \in {BatchKey} |-> BatchObject(b)]
           ext == [checks |-> checks, summary |-> {}]
<1>1. b \in 1 .. Len(Batches) /\ batch' = b
  BY BatchFacts DEF NextBatch, TypeOK
<1>2. IsMap(findings, SampleIds, Statuses)
  BY <1>1, BatchFacts
<1>3. BatchKey \in Keys /\ BatchObject(b) \in Values
  BY <1>1, PipelineFacts DEF BatchKey, BatchObject, Keys, Values
<1>4. IsMap(carrier, Keys, Values)
  BY <1>3 DEF IsMap
<1>5. IsMap(checks, SampleIds \X {"enumerate", "check", "error"}, Statuses)
  BY <1>2 DEF IsMap
<1>6. IsExt(ext)
  BY <1>5 DEF IsExt
<1>7. arts' = [n \in {Source} |-> Extended(EmptyUnion, carrier)]
  BY DEF NextBatch
<1>8. reps' = [n \in {Source} |-> Apply(EmptyReport, Source, ext)]
  BY DEF NextBatch
<1> HIDE DEF b, findings, checks, carrier, ext
<1>9. IsUnion(Extended(EmptyUnion, carrier))
  BY <1>4, EmptyUnionType, ExtendedType
<1>10. IsReport(Apply(EmptyReport, Source, ext))
  BY <1>6, EmptyReportType, ApplyType, PipelineFacts
<1>11. DOMAIN arts' \subseteq Nodes /\ \A n \in DOMAIN arts' : IsUnion(arts'[n])
  BY <1>7, <1>9, PipelineFacts
<1>12. DOMAIN reps' \subseteq Nodes /\ \A n \in DOMAIN reps' : IsReport(reps'[n])
  BY <1>8, <1>10, PipelineFacts
<1>13. DOMAIN task' = {} /\ queue' \in Seq(Downstream) /\ pending' \subseteq Downstream
  BY EmptyDomain DEF NextBatch
<1>14. phase' \in Phases /\ batch' \in 0 .. Len(Batches) /\ batch' > 0
  BY <1>1 DEF NextBatch, Phases
<1> QED BY <1>11, <1>12, <1>13, <1>14 DEF NextBatch, TypeOK

LEMMA SubmitPreservesType ==
    ASSUME IInv, NEW n \in Downstream, Submit(n) PROVE TypeOK'
<1>1. n \in Nodes /\ phase = "dag" /\ InputsOf(n) \subseteq DOMAIN arts
  BY DEF Submit, Ready, Downstream
<1>2. CASE JoinConflict(InputUnions(n))
  BY <1>1, <1>2 DEF Submit, IInv, TypeOK, Phases
<1>3. CASE ~JoinConflict(InputUnions(n))
  <2> DEFINE new == [state |-> "queued", art |-> JoinAll(InputUnions(n)),
                     rep |-> MergeAll(InputReports(n))]
             one == [m \in {n} |-> new]
  <2>1. IsTask(new)
    BY <1>1, SubmitType, TaskType
  <2>2. task' = Override(task, one) /\ queue' = Append(queue, n) /\ phase' = phase
    BY <1>3 DEF Submit
  <2> HIDE DEF new
  <2>3. DOMAIN task' = DOMAIN task \cup {n}
    BY <2>2 DEF Override
  <2>4. \A m \in DOMAIN task' : IsTask(task'[m])
    BY <2>1, <2>2 DEF Override, IInv, TypeOK
  <2>5. queue' \in Seq(Downstream)
    BY <2>2 DEF IInv, TypeOK
  <2>6. pending' \subseteq Downstream
    BY DEF Submit, IInv, TypeOK
  <2> QED BY <1>1, <2>2, <2>3, <2>4, <2>5, <2>6 DEF Submit, IInv, TypeOK
<1> QED BY <1>2, <1>3

LEMMA FoldType == ASSUME TypeOK, NEW D \in SUBSET Downstream, Fold(D) PROVE TypeOK'
<1>1. D \subseteq DOMAIN task /\ \A n \in D : n \in Nodes /\ IsTask(task[n])
  BY DEF Fold, InState, TypeOK, Downstream
<1>2. DOMAIN arts' = DOMAIN arts \cup D /\ DOMAIN reps' = DOMAIN reps \cup D
  BY DEF Fold, Override
<1>3. \A n \in DOMAIN arts' : IsUnion(arts'[n])
  BY <1>1 DEF Fold, Override, IsTask, TypeOK
<1>4. \A n \in DOMAIN reps' : IsReport(reps'[n])
  BY <1>1 DEF Fold, Override, IsTask, TypeOK
<1>5. DOMAIN task' = DOMAIN task \ D /\ \A n \in DOMAIN task' : IsTask(task'[n])
  BY DEF Fold, Without, Restrict, TypeOK
<1> QED BY <1>1, <1>2, <1>3, <1>4, <1>5 DEF Fold, TypeOK

LEMMA MergeBatchType == ASSUME IInv, MergeBatch PROVE TypeOK'
<1>1. phase = "dag" /\ pending = {} /\ task = EmptyMap
  BY DEF MergeBatch
<1>2. /\ IsUnion(BatchUnion) /\ BatchKeys(BatchUnion) = {}
      /\ IsReport(MergeAll(LeafReports))
  BY <1>1, LeavesType
<1>3. IsUnion(job) /\ BatchKeys(job) = {} /\ IsReport(report)
  BY DEF IInv, TypeOK
<1>4. CASE MergeConflict
  BY <1>1, <1>4 DEF MergeBatch, IInv, TypeOK, Phases
<1>5. CASE ~MergeConflict
  <2>1. IsUnion(job') /\ BatchKeys(job') = {}
    BY <1>2, <1>3, <1>5, UnionType DEF MergeBatch
  <2>2. IsReport(report')
    BY <1>2, <1>3, <1>5, MergeType DEF MergeBatch
  <2>3. DOMAIN arts' = {} /\ DOMAIN reps' = {} /\ phase' = "source"
    BY <1>5, EmptyDomain DEF MergeBatch
  <2> QED BY <2>1, <2>2, <2>3 DEF MergeBatch, IInv, TypeOK, Phases
<1> QED BY <1>4, <1>5

LEMMA StartType == ASSUME TypeOK, Start PROVE TypeOK'
<1> DEFINE h == Head(queue)
<1>1. DOMAIN task' = DOMAIN task
  BY DEF Start
<1>2. \A m \in DOMAIN task : task'[m] = IF m = h THEN [task[m] EXCEPT !.state = "running"]
                                        ELSE task[m]
  BY DEF Start
<1>3. \A m \in DOMAIN task' : IsTask(task'[m])
  BY <1>1, <1>2 DEF TypeOK, IsTask
<1>4. queue' \in Seq(Downstream)
  BY DEF Start, TypeOK
<1> QED BY <1>1, <1>3, <1>4 DEF Start, TypeOK

LEMMA RunType == ASSUME TypeOK, NEW n \in Downstream, Run(n) PROVE TypeOK'
<1>1. n \in DOMAIN task
  BY DEF Run, JudgeSamples, Archive, Free, RunRaises, InState
<1>2. n \in Nodes /\ IsUnion(task[n].art) /\ batch \in 1 .. Len(Batches)
  BY <1>1, BatchFacts DEF TypeOK, IsTask, Downstream
<1>3. LiveIds(n) \subseteq SampleIds
  BY <1>1, LiveIdsType
<1>4. Matched(n) \subseteq Keys
  BY <1>2 DEF Matched, IsUnion, IsMap
<1>5. CASE JudgeSamples(n)
  <2>1. PICK v \in [LiveIds(n) -> Verdicts] :
          LET made == {<<n, s>> : s \in {s \in LiveIds(n) : v[s] # "error"}}
          IN  Completes(n,
                Extended(task[n].art, [k \in made |-> Raw(n, batch)]),
                [checks  |-> [k \in LiveIds(n) \X {"check"} |-> v[k[1]]],
                 summary |-> {}])
    BY <1>5 DEF JudgeSamples
  <2> DEFINE made == {<<n, s>> : s \in {s \in LiveIds(n) : v[s] # "error"}}
             new == [k \in made |-> Raw(n, batch)]
             checks == [k \in LiveIds(n) \X {"check"} |-> v[k[1]]]
             ext == [checks |-> checks, summary |-> {}]
  <2>2. Raw(n, batch) \in Values
    BY <1>2 DEF Raw, Values
  <2>3. made \subseteq Keys
    BY <1>2, <1>3 DEF Keys
  <2>4. IsMap(new, Keys, Values)
    BY <2>2, <2>3 DEF IsMap
  <2>5. \A s \in LiveIds(n) : v[s] \in Statuses
    BY JobAssumption
  <2>6. IsMap(checks, SampleIds \X {"enumerate", "check", "error"}, Statuses)
    BY <1>3, <2>5 DEF IsMap
  <2>7. IsExt(ext)
    BY <2>6 DEF IsExt
  <2>8. Completes(n, Extended(task[n].art, new), ext)
    BY <2>1
  <2> HIDE DEF new, ext
  <2> QED BY <1>1, <1>2, <2>4, <2>7, <2>8, ExtendedType, CompletesType
<1>6. CASE Archive(n)
  <2> DEFINE handles == [k \in Matched(n) |-> Handle(n)]
  <2>1. Handle(n) \in Values
    BY <1>2, BatchFacts DEF Handle, Values
  <2>2. IsMap(handles, Keys, Values)
    BY <1>4, <2>1 DEF IsMap
  <2>3. Completes(n, WithMutations(task[n].art, handles, {}), EmptyExt)
    BY <1>6 DEF Archive
  <2> HIDE DEF handles
  <2>4. IsUnion(WithMutations(task[n].art, handles, {}))
    BY <1>2, <2>2, WithMutationsType
  <2> QED BY <1>1, <2>3, <2>4, EmptyExtType, CompletesType
<1>7. CASE Free(n)
  <2>1. IsUnion(WithMutations(task[n].art, EmptyMap, Matched(n)))
    BY <1>2, <1>4, EmptyIsMap, WithMutationsType
  <2> QED BY <1>1, <1>7, <2>1, EmptyExtType, CompletesType DEF Free
<1>8. CASE RunRaises(n)
  <2> DEFINE checks == [k \in LiveIds(n) \X {"error"} |-> "error"]
             ext == [checks |-> checks, summary |-> {}]
  <2>1. IsMap(checks, SampleIds \X {"enumerate", "check", "error"}, Statuses)
    BY <1>3 DEF IsMap, Statuses
  <2>2. IsExt(ext)
    BY <2>1 DEF IsExt
  <2>3. Completes(n, task[n].art, ext)
    BY <1>8 DEF RunRaises
  <2> HIDE DEF ext
  <2> QED BY <1>1, <1>2, <2>2, <2>3, CompletesType
<1> QED BY <1>5, <1>6, <1>7, <1>8 DEF Run

LEMMA SourceRaisesType == ASSUME TypeOK, SourceRaises PROVE TypeOK'
<1>1. Source \in Nodes
  BY PipelineFacts
<1>2. report' = [report EXCEPT !.summary = @ \cup {<<Source, "source_error">>}]
  BY DEF SourceRaises
<1> DEFINE summary == report.summary \cup {<<Source, "source_error">>}
<1>3. IsReport(report')
  <2>1. report = [check |-> report.check, status |-> report.status,
                  summary |-> report.summary]
    BY DEF TypeOK, IsReport
  <2>2. report' = [check |-> report.check, status |-> report.status, summary |-> summary]
    BY <1>2, <2>1
  <2>3. summary \subseteq Nodes \X {"source_error", "digest"}
    BY <1>1 DEF TypeOK, IsReport
  <2> HIDE DEF summary
  <2> QED BY <2>2, <2>3 DEF TypeOK, IsReport
<1>4. cursor' \in 1 .. Len(Order) + 1
  BY PipelineFacts DEF SourceRaises, EnterReduce
<1> QED BY <1>3, <1>4 DEF SourceRaises, EnterReduce, TypeOK, dagVars, Phases

LEMMA DigestType == ASSUME TypeOK, Digest PROVE TypeOK'
<1>1. NodeAt \in Nodes /\ cursor' \in 1 .. Len(Order) + 1
  BY PipelineFacts DEF Digest, NodeAt
<1>2. IsExt([EmptyExt EXCEPT !.summary = {"digest"}])
  BY EmptyExtType DEF IsExt, EmptyExt
<1>3. IsReport(report')
  BY <1>1, <1>2, ApplyType DEF Digest, TypeOK
<1> QED BY <1>1, <1>3 DEF Digest, TypeOK, dagVars

LEMMA StampType == ASSUME TypeOK, Stamp PROVE TypeOK'
<1>1. IsFiniteSet(DOMAIN report.status)
  BY JobAssumption, FS_Subset DEF TypeOK, IsReport, IsMap
<1>2. Cardinality(DOMAIN report.status) \in Nat
  BY <1>1, FS_CardinalityType
<1>3. cursor' \in 1 .. Len(Order) + 1
  BY PipelineFacts DEF Stamp
<1>4. stamp'.n_batches = batch /\ stamp'.n_samples = Cardinality(DOMAIN report.status)
  BY DEF Stamp
<1> QED BY <1>2, <1>3, <1>4 DEF Stamp, TypeOK, dagVars, Phases

\* The documents a node writes are union keys.
LEMMA WrittenKeys ==
    ASSUME NEW n \in Nodes, NEW m \in Int, m <= Len(Documents[n])
    PROVE  DOMAIN Written(n, m) \subseteq Keys
<1>1. Documents[n] \in Seq(DocumentNames)
  BY JobAssumption
<1>2. \A i \in 1 .. m : Documents[n][i] \in DocumentNames
  BY <1>1
<1> QED BY <1>2 DEF Written, Keys

LEMMA CommitType == ASSUME TypeOK, Commit PROVE TypeOK'
<1> DEFINE uris == Written(NodeAt, Len(Documents[NodeAt]))
           links == [k \in DOMAIN uris |-> Handle(NodeAt)]
<1>1. NodeAt \in Nodes /\ cursor' \in 1 .. Len(Order) + 1
  BY PipelineFacts DEF Commit, NodeAt
<1>2. DOMAIN uris \subseteq Keys
  <2>1. Documents[NodeAt] \in Seq(DocumentNames)
    BY <1>1, JobAssumption
  <2> QED BY <1>1, <2>1, WrittenKeys
<1>3. Handle(NodeAt) \in Values
  BY <1>1, BatchFacts DEF Handle, Values
<1>4. IsMap(links, Keys, Values)
  BY <1>2, <1>3 DEF IsMap
<1>5. docs' = Override(docs, uris) /\ job' = Extended(job, links)
  BY DEF Commit
<1>6. \A k \in DOMAIN links : links[k].kind # "batch"
  BY DEF Handle
<1> HIDE DEF uris, links
<1>7. DOMAIN docs' \subseteq Keys
  BY <1>2, <1>5 DEF Override, TypeOK
<1>8. IsUnion(job')
  BY <1>4, <1>5, ExtendedType DEF TypeOK
<1>9. BatchKeys(job') = {}
  <2>1. job'.data = Override(job.data, links)
    BY <1>5 DEF Extended, TypeOK, IsUnion
  <2> QED BY <1>6, <2>1 DEF BatchKeys, Override, TypeOK
<1> QED BY <1>1, <1>7, <1>8, <1>9 DEF Commit, TypeOK, dagVars

LEMMA CommitRaisesType == ASSUME TypeOK, CommitRaises PROVE TypeOK'
<1>1. NodeAt \in Nodes
  BY PipelineFacts DEF CommitRaises, NodeAt
<1>2. Documents[NodeAt] \in Seq(DocumentNames)
  BY <1>1, JobAssumption
<1>3. PICK m \in 0 .. Len(Documents[NodeAt]) - 1 : docs' = Override(docs, Written(NodeAt, m))
  BY DEF CommitRaises
<1>4. DOMAIN Written(NodeAt, m) \subseteq Keys
  BY <1>1, <1>2, WrittenKeys
<1>5. DOMAIN docs' \subseteq Keys
  BY <1>3, <1>4 DEF Override, TypeOK
<1> QED BY <1>5 DEF CommitRaises, TypeOK, dagVars, Phases

\* Every step keeps every variable in its type.
LEMMA TypeStep == ASSUME IInv, [Next]_vars PROVE TypeOK'
<1> USE DEF IInv
<1>1. CASE NextBatch
  BY <1>1, NextBatchType
<1>2. CASE SourceExhausted
  BY <1>2, PipelineFacts DEF SourceExhausted, EnterReduce, TypeOK, dagVars, Phases
<1>3. CASE SourceRaises
  BY <1>3, SourceRaisesType
<1>4. ASSUME NEW n \in Downstream, Submit(n) PROVE TypeOK'
  BY <1>4, SubmitPreservesType
<1>5. ASSUME NEW D \in SUBSET Downstream, Fold(D) PROVE TypeOK'
  BY <1>5, FoldType
<1>6. CASE MergeBatch
  BY <1>6, MergeBatchType
<1>7. CASE Unwound
  BY <1>7 DEF Unwound, TypeOK, dagVars, Phases
<1>8. CASE Digest
  BY <1>8, DigestType
<1>9. CASE DigestRaises
  BY <1>9 DEF DigestRaises, TypeOK, dagVars, Phases
<1>10. CASE Stamp
  BY <1>10, StampType
<1>11. CASE Commit
  BY <1>11, CommitType
<1>12. CASE CommitRaises
  BY <1>12, CommitRaisesType
<1>13. CASE JobFinished
  BY <1>13 DEF JobFinished, TypeOK, dagVars, Phases
<1>14. CASE Start
  BY <1>14, StartType
<1>15. ASSUME NEW n \in Downstream, Run(n) PROVE TypeOK'
  BY <1>15, RunType
<1>16. CASE UNCHANGED vars
  BY <1>16 DEF vars, TypeOK
<1> QED BY <1>1, <1>2, <1>3, <1>4, <1>5, <1>6, <1>7, <1>8, <1>9, <1>10, <1>11,
           <1>12, <1>13, <1>14, <1>15, <1>16 DEF Next, Driver, Ended

-----------------------------------------------------------------------------
(* The scheduler *)

\* A submission: the node moves from pending to the queue and the futures.
LEMMA SubmitPartition ==
    ASSUME IInv, NEW n \in Downstream, Submit(n) PROVE Partition'
<1>1. phase = "dag" /\ n \in pending /\ pending' = pending \ {n}
  BY DEF Submit, Ready
<1>2. CASE JoinConflict(InputUnions(n))
  <2>1. phase' = "unwind" /\ task' = task /\ queue' = queue
    BY <1>2 DEF Submit
  <2> QED BY <2>1 DEF IInv, Partition, Places, QueueIsPool, InState
<1>3. CASE ~JoinConflict(InputUnions(n))
  <2> DEFINE new == [state |-> "queued", art |-> JoinAll(InputUnions(n)),
                     rep |-> MergeAll(InputReports(n))]
  <2>2. /\ task' = Override(task, [m \in {n} |-> new])
        /\ queue' = Append(queue, n) /\ arts' = arts /\ reps' = reps
    BY <1>3 DEF Submit
  <2>3. new.state = "queued"
    OBVIOUS
  <2> HIDE DEF new
  <2>4. /\ n \notin DOMAIN task
        /\ {queue[i] : i \in DOMAIN queue} = InState("queued")
        /\ \A i, j \in DOMAIN queue : queue[i] = queue[j] => i = j
    BY <1>1 DEF IInv, Partition, Places, QueueIsPool
  <2>5. DOMAIN task' = DOMAIN task \cup {n} /\ \A m \in DOMAIN task : task'[m] = task[m]
    BY <2>2, <2>4 DEF Override
  <2>6. task'[n].state = "queued"
    BY <2>2, <2>3 DEF Override
  <2>7. InState("queued")' = InState("queued") \cup {n}
    BY <2>4, <2>5, <2>6 DEF InState
  <2>8. \A i \in DOMAIN queue : queue[i] # n
    BY <2>4 DEF InState
  <2>9. /\ DOMAIN queue' = 1 .. Len(queue) + 1 /\ DOMAIN queue = 1 .. Len(queue)
        /\ Len(queue) \in Nat
        /\ \A i \in 1 .. Len(queue) : queue'[i] = queue[i]
        /\ queue'[Len(queue) + 1] = n
    BY <2>2 DEF IInv, TypeOK
  <2>10. {queue'[i] : i \in DOMAIN queue'} = InState("queued")'
    BY <2>4, <2>7, <2>9
  <2>11. \A i, j \in DOMAIN queue' : queue'[i] = queue'[j] => i = j
    BY <2>4, <2>8, <2>9
  <2>12. Places'
    BY <1>1, <2>2, <2>5 DEF IInv, Partition, Places
  <2> QED BY <2>10, <2>11, <2>12 DEF Partition, QueueIsPool
<1> QED BY <1>2, <1>3

\* Folding: the completed nodes move from the futures to the folded ones.
LEMMA FoldPartition ==
    ASSUME IInv, NEW D \in SUBSET Downstream, Fold(D) PROVE Partition'
<1>1. phase = "dag" /\ D \subseteq InState("finished")
  BY DEF Fold
<1>2. DOMAIN arts' = DOMAIN arts \cup D /\ DOMAIN reps' = DOMAIN reps \cup D
  BY DEF Fold, Override
<1>3. DOMAIN task' = DOMAIN task \ D /\ \A n \in DOMAIN task' : task'[n] = task[n]
  BY DEF Fold, Without, Restrict
<1>4. InState("queued")' = InState("queued")
  BY <1>1, <1>3 DEF InState
<1>5. pending' = pending /\ queue' = queue
  BY DEF Fold
<1> QED BY <1>1, <1>2, <1>3, <1>4, <1>5
        DEF IInv, Partition, Places, QueueIsPool, InState

\* A worker takes the head of the queue.
LEMMA StartPartition == ASSUME IInv, Start PROVE Partition' /\ Quiescent'
<1> DEFINE h == Head(queue)
<1>1. /\ Len(queue) \in Nat /\ Len(queue) > 0 /\ h = queue[1]
      /\ DOMAIN queue = 1 .. Len(queue) /\ DOMAIN queue' = 1 .. Len(queue) - 1
      /\ \A i \in 1 .. Len(queue) - 1 : queue'[i] = queue[i + 1]
  BY DEF Start, IInv, TypeOK
<1>2. /\ {queue[i] : i \in DOMAIN queue} = InState("queued")
      /\ \A i, j \in DOMAIN queue : queue[i] = queue[j] => i = j
  BY DEF IInv, Partition, QueueIsPool
<1>3. h \in DOMAIN task /\ h \in InState("queued")
  BY <1>1, <1>2 DEF InState
<1>4. /\ DOMAIN task' = DOMAIN task
      /\ \A m \in DOMAIN task : m # h => task'[m] = task[m]
      /\ task'[h] = [task[h] EXCEPT !.state = "running"]
  BY <1>3 DEF Start
<1>5. task'[h].state = "running"
  BY <1>3, <1>4 DEF IInv, TypeOK, IsTask
<1>6. InState("queued")' = InState("queued") \ {h}
  BY <1>3, <1>4, <1>5 DEF InState
<1>7. {queue'[i] : i \in DOMAIN queue'} = InState("queued") \ {h}
  <2>1. ASSUME NEW i \in DOMAIN queue' PROVE queue'[i] \in InState("queued") \ {h}
    BY <1>1, <1>2
  <2>2. ASSUME NEW m \in InState("queued") \ {h} PROVE \E i \in DOMAIN queue' : queue'[i] = m
    <3>1. PICK i \in DOMAIN queue : queue[i] = m
      BY <1>2
    <3>2. i # 1 /\ i - 1 \in DOMAIN queue'
      BY <3>1, <1>1
    <3> QED BY <3>1, <3>2, <1>1
  <2> QED BY <2>1, <2>2
<1>8. \A i, j \in DOMAIN queue' : queue'[i] = queue'[j] => i = j
  BY <1>1, <1>2
<1>9. pending' = pending /\ arts' = arts /\ reps' = reps /\ phase' = phase
  BY DEF Start
<1>10. Partition'
  BY <1>4, <1>6, <1>7, <1>8, <1>9 DEF IInv, Partition, Places, QueueIsPool
<1>11. phase \in {"dag", "unwind"}
  BY <1>3 DEF IInv, Quiescent, InState
<1> QED BY <1>9, <1>10, <1>11 DEF Quiescent

\* A kernel that completes stays among the futures.
LEMMA RunPartition ==
    ASSUME IInv, NEW n \in Downstream, Run(n) PROVE Partition' /\ Quiescent'
<1>1. n \in InState("running")
  BY DEF Run, JudgeSamples, Archive, Free, RunRaises
<1>2. \E art, ext : Completes(n, art, ext)
  BY DEF Run, JudgeSamples, Archive, Free, RunRaises
<1>3. /\ DOMAIN task' = DOMAIN task
      /\ \A m \in DOMAIN task : m # n => task'[m] = task[m]
      /\ task'[n].state = "finished"
  BY <1>1, <1>2 DEF Completes, InState
<1>4. InState("queued")' = InState("queued")
  BY <1>1, <1>3 DEF InState
<1>5. pending' = pending /\ queue' = queue /\ arts' = arts /\ reps' = reps /\ phase' = phase
  BY <1>2 DEF Completes
<1>6. phase \in {"dag", "unwind"}
  BY <1>1 DEF IInv, Quiescent, InState
<1> QED BY <1>3, <1>4, <1>5, <1>6 DEF IInv, Partition, Places, QueueIsPool, Quiescent

\* Every step keeps every node of the batch in one place, and the queue and
\* the futures in agreement.
LEMMA PartitionStep == ASSUME IInv, [Next]_vars PROVE Partition' /\ Quiescent'
<1>1. CASE NextBatch
  <2>1. DOMAIN arts' = {Source} /\ DOMAIN reps' = {Source} /\ pending' = Downstream
    BY <1>1 DEF NextBatch
  <2>2. DOMAIN task' = {} /\ queue' = <<>> /\ phase' = "dag"
    BY <1>1, EmptyDomain DEF NextBatch
  <2> QED BY <2>1, <2>2, PipelineFacts
          DEF Partition, Places, QueueIsPool, Quiescent, InState
<1>2. ASSUME NEW n \in Downstream, Submit(n) PROVE Partition' /\ Quiescent'
  <2>1. phase' \in {"dag", "unwind"}
    BY <1>2 DEF Submit
  <2> QED BY <1>2, <2>1, SubmitPartition DEF Quiescent
<1>3. ASSUME NEW D \in SUBSET Downstream, Fold(D) PROVE Partition' /\ Quiescent'
  <2>1. phase' = "dag"
    BY <1>3 DEF Fold
  <2> QED BY <1>3, <2>1, FoldPartition DEF Quiescent
<1>4. CASE Start
  BY <1>4, StartPartition
<1>5. ASSUME NEW n \in Downstream, Run(n) PROVE Partition' /\ Quiescent'
  BY <1>5, RunPartition
<1>6. CASE UNCHANGED vars
  BY <1>6 DEF vars, IInv, Partition, Places, QueueIsPool, Quiescent, InState
<1>7. CASE MergeBatch
  <2>1. task' = task /\ queue' = queue /\ DOMAIN task = {} /\ phase' # "dag"
    BY <1>7, EmptyDomain DEF MergeBatch
  <2> QED BY <2>1 DEF IInv, Partition, Places, QueueIsPool, Quiescent, InState
<1>8. CASE Unwound
  <2>1. task' = task /\ queue' = queue /\ phase' # "dag" /\ DOMAIN task = InState("finished")
    BY <1>8 DEF Unwound, dagVars
  <2> QED BY <2>1 DEF IInv, Partition, Places, QueueIsPool, Quiescent, InState
<1>9. CASE \/ SourceExhausted \/ SourceRaises \/ Digest \/ DigestRaises
           \/ Stamp \/ Commit \/ CommitRaises \/ JobFinished
  <2>1. /\ task' = task /\ queue' = queue
        /\ phase \notin {"dag", "unwind"} /\ phase' # "dag"
    BY <1>9 DEF SourceExhausted, SourceRaises, EnterReduce, Digest, DigestRaises,
            Stamp, Commit, CommitRaises, JobFinished, dagVars
  <2> QED BY <2>1 DEF IInv, Partition, Places, QueueIsPool, Quiescent, InState
<1> QED BY <1>1, <1>2, <1>3, <1>4, <1>5, <1>6, <1>7, <1>8, <1>9 DEF Next, Driver, Ended

\* While nodes are pending and none is in flight, one of them is ready: of the
\* pending nodes, the one topo_order placed first.
LEMMA ReadyWhenIdle ==
    ASSUME Partition, phase = "dag", pending # {}, DOMAIN task = {}
    PROVE  Ready # {}
<1> DEFINE at == {i \in DOMAIN Order : Order[i] \in pending}
<1>1. pending \subseteq Nodes /\ pending \cup DOMAIN arts = Nodes
  BY DEF Partition, Places
<1>2. at \subseteq Nat /\ at # {}
  <2>1. at \subseteq Nat
    BY PipelineFacts
  <2>2. PICK n \in pending : n \in Nodes
    BY <1>1
  <2>3. \E i \in DOMAIN Order : Order[i] = n
    BY <2>2 DEF Nodes
  <2> QED BY <2>1, <2>2, <2>3
<1>3. PICK i \in at : \A j \in at : i <= j
  <2> HIDE DEF at
  <2> QED BY <1>2, LeastPosition
<1>4. ASSUME NEW d \in InputsOf(Order[i]) PROVE d \in DOMAIN arts
  <2>1. PICK j \in 1 .. i - 1 : Order[j] = d
    BY PipelineAssumption
  <2>2. i \in 1 .. Len(Order) /\ Len(Order) \in Nat
    BY PipelineFacts
  <2>3. j \in DOMAIN Order /\ ~(i <= j)
    BY <2>2, PipelineFacts
  <2>4. d \notin pending
    BY <1>3, <2>1, <2>3
  <2>5. d \in Nodes
    BY <2>1, <2>3, PipelineFacts
  <2> QED BY <1>1, <2>4, <2>5
<1>5. Order[i] \in Ready
  BY <1>4 DEF Ready
<1> QED BY <1>5

-----------------------------------------------------------------------------
LEMMA InitInv == Init => IInv
<1>1. Init => Partition /\ Quiescent
  BY EmptyDomain DEF Init, Partition, Places, QueueIsPool, Quiescent, InState
<1> QED BY <1>1, InitType DEF IInv

LEMMA StepInv == ASSUME IInv, [Next]_vars PROVE IInv'
BY TypeStep, PartitionStep DEF IInv

LEMMA Inductive == Spec => []IInv
BY InitInv, StepInv, PTL DEF Spec

\* Type correctness: every union, report and future the executor ever holds is
\* one, and no Batch reaches the job's union.
THEOREM TypeCorrect == Spec => []TypeOK
<1>1. IInv => TypeOK
  BY DEF IInv
<1> QED BY <1>1, Inductive, PTL

\* executor.py 192-214: the driver's dictionaries, the futures and the pool's
\* queue always account for every node of the batch, each in one place.
THEOREM NodesAccountedFor == Spec => []Partition
<1>1. IInv => Partition
  BY DEF IInv
<1> QED BY <1>1, Inductive, PTL

\* executor.py 207-208: on a validated pipeline the "nodes are unreachable"
\* error cannot be raised.
THEOREM SchedulerNeverStuck == Spec => []NeverUnreachable
<1>1. IInv => NeverUnreachable
  BY ReadyWhenIdle DEF IInv, NeverUnreachable
<1> QED BY <1>1, Inductive, PTL

\* executor.py 101: an exception leaves run() only when the pool is idle, its
\* queue drained.
THEOREM RaisedMeansQuiet == Spec => []RaisedIsQuiet
<1>1. IInv => RaisedIsQuiet
  <2> SUFFICES ASSUME IInv, phase = "raised" PROVE queue = <<>> /\ InState("running") = {}
    BY DEF RaisedIsQuiet
  <2>1. DOMAIN task = InState("finished")
    BY DEF IInv, Quiescent
  <2>2. InState("running") = {} /\ InState("queued") = {}
    BY <2>1 DEF InState
  <2>3. queue \in Seq(Downstream) /\ \A i \in DOMAIN queue : FALSE
    <3>1. {queue[i] : i \in DOMAIN queue} = {}
      BY <2>2 DEF IInv, Partition, QueueIsPool
    <3> QED BY <3>1 DEF IInv, TypeOK
  <2>4. queue = <<>>
    BY <2>3
  <2> QED BY <2>2, <2>4
<1> QED BY <1>1, Inductive, PTL

-----------------------------------------------------------------------------
(* What flows along the graph *)


Above(n) == Ancestors[n] \cup {n}

\* Value y may stand where x stood upstream: it is x, or the handle of an
\* archiver, which downstream of x's archiver may be another one.
Succeeds(x, y) == \/ y = x
                  \/ y.kind = "lazy" /\ (x.kind = "lazy" => x.by \in Above(y.by))

\* Whatever is in u is in v or was freed, and what u freed v does not hold.
Kept(u, v) ==
    /\ u.deleted \subseteq v.deleted
    /\ \A k \in DOMAIN u.data :
          k \in v.deleted \/ (k \in DOMAIN v.data /\ Succeeds(u.data[k], v.data[k]))

\* The union u is the work of the nodes of S; archivers add no key to it.
MadeBy(S, u) ==
    /\ DOMAIN u.data \cap u.deleted = {}
    /\ \A k \in DOMAIN u.data \cup u.deleted : k[1] \in S /\ Kind[k[1]] # "archive"
    /\ \A k \in DOMAIN u.data : u.data[k].kind = "lazy" => u.data[k].by \in S

FoundBy(S, r) == \A k \in DOMAIN r.check : k[2] \in S

\* Reports q and r agree on what node a found.
Agree(a, q, r) == \A k \in DOMAIN q.check \cup DOMAIN r.check : k[2] = a =>
    k \in DOMAIN q.check /\ k \in DOMAIN r.check /\ q.check[k] = r.check[k]

\* Union u and report r are what node n may have, the nodes of S having worked
\* on them, when A and R are the results folded so far.
View(n, S, u, r, A, R) ==
    /\ MadeBy(S, u) /\ FoundBy(S, r) /\ Fresh(r)
    /\ \A a \in Ancestors[n] :
          a \in DOMAIN A /\ a \in DOMAIN R /\ Kept(A[a], u) /\ Agree(a, R[a], r)

WorkedOn(n) == IF task[n].state = "finished" THEN Above(n) ELSE Ancestors[n]

Flow ==
    /\ DOMAIN reps = DOMAIN arts
    /\ \A n \in DOMAIN arts : View(n, Above(n), arts[n], reps[n], arts, reps)
    /\ phase = "dag" => \A n \in DOMAIN task :
          View(n, WorkedOn(n), task[n].art, task[n].rep, arts, reps)

\* The job's union holds nothing that was freed, and what was freed is no
\* document.
JobUnion == /\ DOMAIN job.data \cap job.deleted = {}
            /\ \A k \in job.deleted : Kind[k[1]] # "archive"

-----------------------------------------------------------------------------
(* The graph *)

\* The ancestors of a node: its inputs, theirs, and nobody else.
LEMMA AncestorFacts ==
    /\ \A n \in Nodes : InputsOf(n) \subseteq Ancestors[n] /\ Ancestors[n] \subseteq Nodes
    /\ \A n \in Nodes : \A a \in Ancestors[n] : Ancestors[a] \subseteq Ancestors[n]
    /\ \A n \in Nodes : \A a \in Ancestors[n] :
          \E m \in InputsOf(n) : a = m \/ a \in Ancestors[m]
<1>1. /\ DOMAIN InputSets = Nodes
      /\ \A n \in Nodes : InputSets[n] = InputsOf(n) /\ InputsOf(n) \subseteq Nodes
  BY PipelineFacts DEF InputSets
<1> DEFINE Closed(n, S) == InputsOf(n) \subseteq S /\ \A x \in S : InputsOf(x) \subseteq S
<1>2. ASSUME NEW n \in Nodes
      PROVE  Ancestors[n] = {m \in Nodes : \A S \in SUBSET Nodes : Closed(n, S) => m \in S}
  <2>1. \A S \in SUBSET Nodes : InputClosed(InputSets, S) <=> \A x \in S : InputsOf(x) \subseteq S
    BY <1>1 DEF InputClosed
  <2>2. Ancestors[n] = AncestorsOf(InputSets, n)
    BY DEF Ancestors
  <2>3. AncestorsOf(InputSets, n)
          = {m \in Nodes : \A S \in SUBSET Nodes :
                InputsOf(n) \subseteq S /\ InputClosed(InputSets, S) => m \in S}
    BY <1>1 DEF AncestorsOf
  <2> QED BY <2>1, <2>2, <2>3
<1>3. \A n \in Nodes : InputsOf(n) \subseteq Ancestors[n] /\ Ancestors[n] \subseteq Nodes
  BY <1>1, <1>2
<1>4. ASSUME NEW n \in Nodes, NEW a \in Ancestors[n], NEW b \in Ancestors[a]
      PROVE  b \in Ancestors[n]
  <2>1. a \in Nodes /\ b \in Nodes
    BY <1>3
  <2>2. ASSUME NEW S \in SUBSET Nodes, Closed(n, S) PROVE b \in S
    <3>1. a \in S
      BY <1>2, <2>2
    <3>2. Closed(a, S)
      BY <2>2, <3>1
    <3> QED BY <1>2, <2>1, <3>2
  <2> QED BY <1>2, <2>1, <2>2
<1>5. ASSUME NEW n \in Nodes, NEW a \in Ancestors[n]
      PROVE  \E m \in InputsOf(n) : a = m \/ a \in Ancestors[m]
  <2> DEFINE S == {x \in Nodes : \E m \in InputsOf(n) : x = m \/ x \in Ancestors[m]}
  <2>1. InputsOf(n) \subseteq S
    BY <1>1
  <2>2. ASSUME NEW x \in S, NEW y \in InputsOf(x) PROVE y \in S
    <3>1. PICK m \in InputsOf(n) : x = m \/ x \in Ancestors[m]
      BY <2>2
    <3>2. m \in Nodes /\ x \in Nodes /\ y \in Nodes /\ y \in Ancestors[x]
      BY <1>1, <1>3, <2>2
    <3>3. y \in Ancestors[m]
      BY <1>4, <3>1, <3>2
    <3> QED BY <3>2, <3>3
  <2>3. S \in SUBSET Nodes /\ Closed(n, S)
    BY <2>1, <2>2
  <2> HIDE DEF S
  <2>4. a \in S
    BY <1>2, <2>3
  <2> QED BY <2>4 DEF S
<1> HIDE DEF Closed
<1> QED BY <1>3, <1>4, <1>5

\* The source is upstream of nothing but others.
LEMMA SourceHasNoAncestor == Ancestors[Source] = {}
<1>1. Source \in Nodes /\ Inputs[Source] = <<>>
  BY PipelineFacts, PipelineAssumption
<1>2. InputsOf(Source) = {}
  BY <1>1 DEF InputsOf
<1> QED BY <1>1, <1>2, AncestorFacts

\* Every node is a leaf or upstream of one: of the nodes it reaches, the last
\* in topological order.
LEMMA EveryNodeReachesALeaf ==
    ASSUME NEW n \in Nodes
    PROVE  \E l \in Leaves : n \in Above(Order[l])
<1> DEFINE at == {i \in DOMAIN Order : n \in Above(Order[i])}
<1>1. PICK i \in at : \A j \in at : j <= i
  <2>1. at \subseteq 0 .. Len(Order) /\ Len(Order) \in Nat
    BY PipelineFacts
  <2>2. at # {}
    BY DEF Nodes, Above
  <2> HIDE DEF at
  <2> QED BY <2>1, <2>2, GreatestPosition
<1>2. ASSUME NEW m \in Nodes, Order[i] \in InputsOf(m) PROVE FALSE
  <2>1. PICK j \in DOMAIN Order : Order[j] = m
    BY DEF Nodes
  <2>2. PICK k \in 1 .. j - 1 : Order[k] = Order[i]
    BY <1>2, <2>1, PipelineAssumption
  <2>3. k = i /\ i < j
    <3>1. j \in 1 .. Len(Order) /\ i \in 1 .. Len(Order) /\ Len(Order) \in Nat
      BY PipelineFacts
    <3>2. k \in DOMAIN Order /\ i \in DOMAIN Order /\ k < j
      BY <3>1, PipelineFacts
    <3> QED BY <2>2, <3>1, <3>2, PipelineAssumption
  <2>4. Order[i] \in Ancestors[m] /\ Order[i] \in Nodes
    BY <1>2, AncestorFacts, PipelineFacts
  <2>5. n \in Above(m)
    BY <2>4, AncestorFacts DEF Above
  <2>6. j \in at
    BY <2>1, <2>5
  <2>7. j \in Int /\ i \in Int
    BY PipelineFacts
  <2> HIDE DEF at
  <2> QED BY <1>1, <2>3, <2>6, <2>7
<1>3. i \in Leaves /\ n \in Above(Order[i])
  BY <1>2 DEF Leaves
<1> QED BY <1>3

-----------------------------------------------------------------------------
(* How unions follow one another *)

LEMMA SucceedsTransitive ==
    ASSUME NEW x, NEW y, NEW z, Succeeds(x, y), Succeeds(y, z),
           z.kind = "lazy" => z.by \in Nodes
    PROVE  Succeeds(x, z)
<1>1. CASE y = x \/ z = y
  BY <1>1
<1>2. CASE y # x /\ z # y
  <2>1. y.kind = "lazy" /\ z.kind = "lazy" /\ y.by \in Above(z.by) /\ z.by \in Nodes
    BY <1>2 DEF Succeeds
  <2>2. x.kind = "lazy" => x.by \in Above(y.by)
    BY <1>2 DEF Succeeds
  <2>3. x.kind = "lazy" => x.by \in Above(z.by)
    BY <2>1, <2>2, AncestorFacts DEF Above
  <2> QED BY <2>1, <2>3 DEF Succeeds
<1> QED BY <1>1, <1>2

LEMMA KeptTransitive ==
    ASSUME NEW u, NEW v, NEW w, Kept(u, v), Kept(v, w),
           \A k \in DOMAIN w.data : w.data[k].kind = "lazy" => w.data[k].by \in Nodes
    PROVE  Kept(u, w)
<1> SUFFICES ASSUME NEW k \in DOMAIN u.data, k \notin w.deleted
             PROVE  k \in DOMAIN w.data /\ Succeeds(u.data[k], w.data[k])
  BY DEF Kept
<1>1. k \in DOMAIN v.data /\ Succeeds(u.data[k], v.data[k])
  BY DEF Kept
<1>2. k \in DOMAIN w.data /\ Succeeds(v.data[k], w.data[k])
  BY <1>1 DEF Kept
<1> QED BY <1>1, <1>2, SucceedsTransitive

LEMMA KeptReflexive == ASSUME NEW u PROVE Kept(u, u)
BY DEF Kept, Succeeds

\* A join keeps each of its inputs.
LEMMA JoinKeeps ==
    ASSUME NEW us, DOMAIN us \subseteq Int, ~JoinConflict(us), NEW i \in DOMAIN us
    PROVE  Kept(us[i], JoinAll(us))
<1>1. us[i].deleted \subseteq JoinAll(us).deleted
  BY JoinAllDeleted
<1>2. ASSUME NEW k \in DOMAIN us[i].data, k \notin JoinAll(us).deleted
      PROVE  k \in DOMAIN JoinAll(us).data /\ JoinAll(us).data[k] = us[i].data[k]
  BY <1>2, JoinAllKeeps
<1> QED BY <1>1, <1>2 DEF Kept, Succeeds

\* A view stays one while the driver folds more nodes.
LEMMA ViewStands ==
    ASSUME NEW n, NEW S, NEW u, NEW r, NEW A, NEW R, View(n, S, u, r, A, R),
           NEW B, NEW Q,
           \A a \in DOMAIN A : a \in DOMAIN B /\ B[a] = A[a],
           \A a \in DOMAIN R : a \in DOMAIN Q /\ Q[a] = R[a]
    PROVE  View(n, S, u, r, B, Q)
BY DEF View

\* The unions us and the reports rs, at positions up to N, are the folded
\* results of the nodes at[i]; S holds these nodes and everything above them.
Gathers(N, at, S, us, rs, A, R) ==
    /\ N \in Nat /\ DOMAIN us \subseteq 0 .. N /\ DOMAIN rs = DOMAIN us
    /\ \A i \in DOMAIN us :
          /\ at[i] \in Nodes /\ at[i] \in DOMAIN A /\ at[i] \in DOMAIN R
          /\ us[i] = A[at[i]] /\ rs[i] = R[at[i]]
          /\ View(at[i], Above(at[i]), us[i], rs[i], A, R)
    /\ S \subseteq Nodes
    /\ \A i \in DOMAIN us : Above(at[i]) \subseteq S
    /\ \A a \in S : \E i \in DOMAIN us : a \in Above(at[i])

\* Their join is the work of the nodes of S, and keeps what each has done.
LEMMA JoinView ==
    ASSUME NEW N, NEW at, NEW S, NEW us, NEW rs, NEW A, NEW R,
           Gathers(N, at, S, us, rs, A, R), ~JoinConflict(us)
    PROVE  /\ MadeBy(S, JoinAll(us)) /\ FoundBy(S, MergeAll(rs)) /\ Fresh(MergeAll(rs))
           /\ \A a \in S : /\ a \in DOMAIN A /\ a \in DOMAIN R
                           /\ Kept(A[a], JoinAll(us)) /\ Agree(a, R[a], MergeAll(rs))
<1> USE DEF Gathers
<1>0. DOMAIN us \subseteq Int
  OBVIOUS
<1>1. \A i \in DOMAIN us : \A a \in Above(at[i]) : a \in S
  OBVIOUS
<1>2. MadeBy(S, JoinAll(us))
  <2>1. ASSUME NEW k \in DOMAIN JoinAll(us).data
        PROVE  /\ k \notin JoinAll(us).deleted
               /\ k[1] \in S /\ Kind[k[1]] # "archive"
               /\ JoinAll(us).data[k].kind = "lazy" => JoinAll(us).data[k].by \in S
    <3>1. PICK i \in DOMAIN us : k \in DOMAIN us[i].data /\ JoinAll(us).data[k] = us[i].data[k]
      BY JoinAllOrigin
    <3>2. MadeBy(Above(at[i]), us[i])
      BY DEF View
    <3>3. k \notin JoinAll(us).deleted
      BY JoinAllOrigin
    <3> QED BY <1>1, <3>1, <3>2, <3>3 DEF MadeBy
  <2>2. ASSUME NEW k \in JoinAll(us).deleted PROVE k[1] \in S /\ Kind[k[1]] # "archive"
    <3>1. PICK i \in DOMAIN us : k \in us[i].deleted
      BY JoinAllDeleted
    <3>2. MadeBy(Above(at[i]), us[i])
      BY DEF View
    <3> QED BY <1>1, <3>1, <3>2 DEF MadeBy
  <2> QED BY <2>1, <2>2 DEF MadeBy
<1>3. ASSUME NEW k \in DOMAIN MergeAll(rs).check
      PROVE  \E i \in DOMAIN us : /\ k[2] \in Above(at[i])
                                  /\ k \in DOMAIN rs[i].check
                                  /\ MergeAll(rs).check[k] = rs[i].check[k]
  <2>1. PICK i \in DOMAIN rs : k \in DOMAIN rs[i].check
                               /\ MergeAll(rs).check[k] = rs[i].check[k]
    BY MergeAllCheck
  <2>2. FoundBy(Above(at[i]), rs[i])
    BY DEF View
  <2> QED BY <2>1, <2>2 DEF FoundBy
<1>4. FoundBy(S, MergeAll(rs))
  BY <1>1, <1>3 DEF FoundBy
<1>5. Fresh(MergeAll(rs))
  <2>1. \A i \in DOMAIN rs : Fresh(rs[i])
    BY DEF View
  <2> QED BY <2>1, MergeAllIsFresh
<1>6. ASSUME NEW i \in DOMAIN us, NEW a \in Above(at[i])
      PROVE  /\ a \in DOMAIN A /\ a \in DOMAIN R
             /\ Kept(A[a], us[i]) /\ Agree(a, R[a], rs[i])
  <2>1. CASE a = at[i]
    BY <2>1, KeptReflexive DEF Agree
  <2>2. CASE a \in Ancestors[at[i]]
    BY <2>2 DEF View
  <2> QED BY <2>1, <2>2 DEF Above
<1>7. ASSUME NEW a \in S
      PROVE  /\ a \in DOMAIN A /\ a \in DOMAIN R
             /\ Kept(A[a], JoinAll(us)) /\ Agree(a, R[a], MergeAll(rs))
  <2>1. PICK i \in DOMAIN us : a \in Above(at[i])
    OBVIOUS
  <2>2. Kept(A[a], JoinAll(us))
    <3>1. Kept(A[a], us[i]) /\ Kept(us[i], JoinAll(us))
      BY <1>0, <1>6, <2>1, JoinKeeps
    <3>2. \A k \in DOMAIN JoinAll(us).data :
             JoinAll(us).data[k].kind = "lazy" => JoinAll(us).data[k].by \in Nodes
      BY <1>2 DEF MadeBy
    <3> QED BY <3>1, <3>2, KeptTransitive
  <2>3. ASSUME NEW k \in DOMAIN MergeAll(rs).check, k[2] = a
        PROVE  k \in DOMAIN R[a].check /\ MergeAll(rs).check[k] = R[a].check[k]
    <3>1. PICK j \in DOMAIN us : /\ k[2] \in Above(at[j])
                                 /\ k \in DOMAIN rs[j].check
                                 /\ MergeAll(rs).check[k] = rs[j].check[k]
      BY <1>3
    <3>2. Agree(a, R[a], rs[j])
      BY <1>6, <2>3, <3>1
    <3> QED BY <2>3, <3>1, <3>2 DEF Agree
  <2>4. ASSUME NEW k \in DOMAIN R[a].check, k[2] = a
        PROVE  k \in DOMAIN MergeAll(rs).check
    <3>1. k \in DOMAIN rs[i].check
      BY <1>6, <2>1, <2>4 DEF Agree
    <3> QED BY <3>1, MergeAllCheck
  <2>5. Agree(a, R[a], MergeAll(rs))
    BY <2>3, <2>4 DEF Agree
  <2> QED BY <1>6, <2>1, <2>2, <2>5
<1> QED BY <1>2, <1>4, <1>5, <1>7

\* A kernel that keeps what its union holds and adds under its own name, and
\* whose checks are namespaced, turns the view of its ancestors into its own.
LEMMA WorkView ==
    ASSUME NEW n \in Nodes, n \notin Ancestors[n],
           NEW u, NEW r, NEW A, NEW R, View(n, Ancestors[n], u, r, A, R),
           NEW v, Kept(u, v), MadeBy(Above(n), v), NEW ext
    PROVE  View(n, Above(n), v, Apply(r, n, ext), A, R)
<1> DEFINE q == Apply(r, n, ext)
           own == DOMAIN Namespaced(n, ext)
<1>1. /\ DOMAIN q.check = DOMAIN r.check \cup own
      /\ \A k \in DOMAIN q.check : k \notin own => q.check[k] = r.check[k]
      /\ \A k \in own : k[2] = n
  <2>1. q = Apply(r, n, ext)
    OBVIOUS
  <2> HIDE DEF q
  <2>2. /\ DOMAIN q.check = DOMAIN r.check \cup DOMAIN Namespaced(n, ext)
        /\ \A k \in DOMAIN q.check :
              q.check[k] = IF k \in DOMAIN Namespaced(n, ext)
                           THEN Namespaced(n, ext)[k] ELSE r.check[k]
    BY <2>1, ApplyCheck
  <2>3. \A k \in DOMAIN Namespaced(n, ext) : k[2] = n
    BY NamespacedDomain
  <2> QED BY <2>2, <2>3
<1>2. Fresh(q)
  BY ApplyIsFresh DEF View
<1> HIDE DEF q, own
<1>3. FoundBy(Above(n), q)
  BY <1>1 DEF FoundBy, View, Above
<1>4. \A a \in Ancestors[n] : Agree(a, R[a], q)
  <2> TAKE a \in Ancestors[n]
  <2>1. Agree(a, R[a], r) /\ a # n
    BY DEF View
  <2> QED BY <1>1, <2>1 DEF Agree
<1>5. \A a \in Ancestors[n] : Kept(A[a], v)
  <2>1. \A k \in DOMAIN v.data : v.data[k].kind = "lazy" => v.data[k].by \in Nodes
    BY AncestorFacts DEF MadeBy, Above
  <2> QED BY <2>1, KeptTransitive DEF View
<1> QED BY <1>2, <1>3, <1>4, <1>5 DEF View, q

-----------------------------------------------------------------------------
(* The invariant, one action at a time *)

LEMMA InitFlow == Init => Flow
BY EmptyDomain DEF Init, Flow

\* The source's results: the Batch under its own name, and its findings.
LEMMA NextBatchFlow == ASSUME IInv, NextBatch PROVE Flow'
<1> DEFINE b == batch + 1
           findings == Batches[b].findings
           checks == [k \in (DOMAIN findings) \X {"enumerate"} |-> findings[k[1]]]
           carrier == [k \in {BatchKey} |-> BatchObject(b)]
           ext == [checks |-> checks, summary |-> {}]
           u == Extended(EmptyUnion, carrier)
           r == Apply(EmptyReport, Source, ext)
<1>1. arts' = [n \in {Source} |-> u] /\ reps' = [n \in {Source} |-> r]
  BY DEF NextBatch
<1>2. DOMAIN task' = {}
  BY EmptyDomain DEF NextBatch
<1>3. MadeBy(Above(Source), u)
  <2>1. u.data = Override(EmptyMap, carrier) /\ u.deleted = {}
    BY DEF Extended, EmptyUnion
  <2>2. DOMAIN u.data = {BatchKey} /\ u.data[BatchKey] = BatchObject(b)
    BY <2>1, EmptyDomain DEF Override
  <2>3. BatchKey[1] = Source /\ Kind[Source] = "source" /\ BatchObject(b).kind = "batch"
    BY PipelineFacts DEF BatchKey, BatchObject
  <2> HIDE DEF u
  <2> QED BY <2>1, <2>2, <2>3 DEF MadeBy, Above
<1>4. FoundBy(Above(Source), r) /\ Fresh(r)
  <2> HIDE DEF ext
  <2>1. r = Apply(EmptyReport, Source, ext)
    OBVIOUS
  <2>2. Fresh(r)
    BY EmptyIsFresh, ApplyIsFresh
  <2> HIDE DEF r
  <2>3. DOMAIN r.check = DOMAIN EmptyReport.check \cup DOMAIN Namespaced(Source, ext)
    BY <2>1, ApplyCheck
  <2>4. \A k \in DOMAIN Namespaced(Source, ext) : k[2] = Source
    BY NamespacedDomain
  <2> QED BY <2>2, <2>3, <2>4, EmptyIsFresh DEF FoundBy, Above
<1> HIDE DEF u, r
<1>5. View(Source, Above(Source), u, r, arts', reps')
  BY <1>3, <1>4, SourceHasNoAncestor DEF View
<1>6. /\ DOMAIN arts' = {Source} /\ DOMAIN reps' = {Source}
      /\ arts'[Source] = u /\ reps'[Source] = r
  BY <1>1
<1> QED BY <1>2, <1>5, <1>6 DEF Flow

\* A submission is given the join of its inputs, which are folded.
LEMMA SubmitFlow == ASSUME IInv, Flow, NEW n \in Downstream, Submit(n) PROVE Flow'
<1>1. /\ n \in Nodes /\ phase = "dag" /\ InputsOf(n) \subseteq DOMAIN arts
      /\ arts' = arts /\ reps' = reps /\ DOMAIN reps = DOMAIN arts
  BY DEF Submit, Ready, Downstream, Flow
<1>2. CASE JoinConflict(InputUnions(n))
  BY <1>1, <1>2 DEF Submit, Flow
<1>3. CASE ~JoinConflict(InputUnions(n))
  <2> DEFINE u == JoinAll(InputUnions(n))
             r == MergeAll(InputReports(n))
             new == [state |-> "queued", art |-> u, rep |-> r]
  <2>1. \A i \in DOMAIN Inputs[n] :
           /\ Inputs[n][i] \in Nodes /\ Inputs[n][i] \in DOMAIN arts
           /\ InputUnions(n)[i] = arts[Inputs[n][i]]
           /\ InputReports(n)[i] = reps[Inputs[n][i]]
           /\ View(Inputs[n][i], Above(Inputs[n][i]), InputUnions(n)[i],
                   InputReports(n)[i], arts, reps)
    BY <1>1, PipelineFacts DEF InputUnions, InputReports, Flow
  <2>2. /\ DOMAIN InputUnions(n) = DOMAIN Inputs[n]
        /\ DOMAIN InputReports(n) = DOMAIN Inputs[n]
        /\ Len(Inputs[n]) \in Nat /\ DOMAIN Inputs[n] \subseteq 0 .. Len(Inputs[n])
    BY <1>1, PipelineFacts DEF InputUnions, InputReports
  <2>3. \A i \in DOMAIN InputUnions(n) : Above(Inputs[n][i]) \subseteq Ancestors[n]
    BY <1>1, <2>2, PipelineFacts, AncestorFacts DEF Above
  <2>4. ASSUME NEW a \in Ancestors[n]
        PROVE  \E i \in DOMAIN InputUnions(n) : a \in Above(Inputs[n][i])
    <3>1. PICK m \in InputsOf(n) : a \in Above(m)
      BY <1>1, AncestorFacts DEF Above
    <3>2. \E i \in DOMAIN Inputs[n] : m = Inputs[n][i]
      BY DEF InputsOf
    <3> QED BY <2>2, <3>1, <3>2
  <2>5. /\ MadeBy(Ancestors[n], u) /\ FoundBy(Ancestors[n], r) /\ Fresh(r)
        /\ \A a \in Ancestors[n] : /\ a \in DOMAIN arts /\ a \in DOMAIN reps
                                   /\ Kept(arts[a], u) /\ Agree(a, reps[a], r)
    <3>1. Gathers(Len(Inputs[n]), Inputs[n], Ancestors[n], InputUnions(n), InputReports(n),
                  arts, reps)
      BY <1>1, <2>1, <2>2, <2>3, <2>4, AncestorFacts DEF Gathers
    <3> QED BY <1>3, <3>1, JoinView
  <2>6. View(n, Ancestors[n], u, r, arts, reps)
    BY <2>5 DEF View
  <2>7. task' = Override(task, [m \in {n} |-> new]) /\ phase' = phase
    BY <1>3 DEF Submit
  <2>8. /\ DOMAIN task' = DOMAIN task \cup {n}
        /\ \A m \in DOMAIN task' : m # n => m \in DOMAIN task /\ task'[m] = task[m]
        /\ task'[n] = new
    BY <2>7 DEF Override
  <2>9. new.state = "queued" /\ new.art = u /\ new.rep = r
    OBVIOUS
  <2> HIDE DEF new, u, r
  <2>10. ASSUME NEW m \in DOMAIN task'
         PROVE  View(m, WorkedOn(m)', task'[m].art, task'[m].rep, arts, reps)
    <3>1. CASE m = n
      BY <2>6, <2>8, <2>9, <3>1 DEF WorkedOn
    <3>2. CASE m # n
      BY <1>1, <2>8, <3>2 DEF Flow, WorkedOn
    <3> QED BY <3>1, <3>2
  <2> QED BY <1>1, <2>10 DEF Flow
<1> QED BY <1>2, <1>3

\* Folding publishes what the futures hold.
LEMMA FoldFlow == ASSUME IInv, Flow, NEW D \in SUBSET Downstream, Fold(D) PROVE Flow'
<1>1. /\ phase = "dag" /\ phase' = phase /\ DOMAIN reps = DOMAIN arts
      /\ D \subseteq DOMAIN task /\ \A n \in D : task[n].state = "finished"
  BY DEF Fold, InState, Flow
<1>2. DOMAIN task \cap DOMAIN arts = {}
  BY <1>1 DEF IInv, Partition, Places
<1>3. /\ DOMAIN arts' = DOMAIN arts \cup D /\ DOMAIN reps' = DOMAIN reps \cup D
      /\ \A n \in D : arts'[n] = task[n].art /\ reps'[n] = task[n].rep
      /\ \A n \in DOMAIN arts : arts'[n] = arts[n] /\ reps'[n] = reps[n]
  BY <1>1, <1>2 DEF Fold, Override
<1>4. DOMAIN task' \subseteq DOMAIN task /\ \A n \in DOMAIN task' : task'[n] = task[n]
  BY DEF Fold, Without, Restrict
<1>5. ASSUME NEW n, NEW S, NEW u, NEW r, View(n, S, u, r, arts, reps)
      PROVE  View(n, S, u, r, arts', reps')
  BY <1>1, <1>3, <1>5, ViewStands
<1>6. ASSUME NEW n \in DOMAIN arts'
      PROVE  View(n, Above(n), arts'[n], reps'[n], arts', reps')
  <2>1. CASE n \in D
    <3>1. View(n, Above(n), task[n].art, task[n].rep, arts, reps)
      BY <1>1, <2>1 DEF Flow, WorkedOn
    <3> QED BY <1>3, <1>5, <2>1, <3>1
  <2>2. CASE n \in DOMAIN arts
    <3>1. View(n, Above(n), arts[n], reps[n], arts, reps)
      BY <2>2 DEF Flow
    <3> QED BY <1>3, <1>5, <2>2, <3>1
  <2> QED BY <1>3, <2>1, <2>2
<1>7. ASSUME NEW n \in DOMAIN task'
      PROVE  View(n, WorkedOn(n)', task'[n].art, task'[n].rep, arts', reps')
  <2>1. View(n, WorkedOn(n), task[n].art, task[n].rep, arts, reps)
    BY <1>1, <1>4 DEF Flow
  <2>2. WorkedOn(n)' = WorkedOn(n)
    BY <1>4 DEF WorkedOn
  <2> QED BY <1>4, <1>5, <2>1, <2>2
<1> QED BY <1>1, <1>3, <1>6, <1>7 DEF Flow

\* A worker that takes a submission changes nothing it was given.
LEMMA StartFlow == ASSUME IInv, Flow, Start PROVE Flow'
<1>1. /\ arts' = arts /\ reps' = reps /\ phase' = phase
      /\ task' = [task EXCEPT ![Head(queue)].state = "running"]
  BY DEF Start
<1>2. \A m \in DOMAIN task : IsTask(task[m])
  BY DEF IInv, TypeOK
<1>3. Head(queue) \in InState("queued")
  <2>1. Head(queue) = queue[1] /\ 1 \in DOMAIN queue
    BY DEF Start, IInv, TypeOK
  <2> QED BY <2>1 DEF IInv, Partition, QueueIsPool
<1>4. /\ DOMAIN task' = DOMAIN task
      /\ \A m \in DOMAIN task : /\ task'[m].art = task[m].art /\ task'[m].rep = task[m].rep
                                /\ task'[m].state = "finished" <=> task[m].state = "finished"
  BY <1>1, <1>2, <1>3 DEF IsTask, InState
<1>5. \A m \in DOMAIN task : WorkedOn(m)' = WorkedOn(m)
  BY <1>4 DEF WorkedOn
<1> QED BY <1>1, <1>4, <1>5 DEF Flow

\* What a kernel may leave of the union u it was given.
MayLeave(n, u, v) == Kept(u, v) /\ MadeBy(Above(n), v)

\* A check kernel adds artifacts of its own.
LEMMA ExtendedStands ==
    ASSUME NEW n, Kind[n] # "archive", n \notin Ancestors[n],
           NEW u, u = [data |-> u.data, deleted |-> u.deleted], MadeBy(Ancestors[n], u),
           NEW ext, \A k \in DOMAIN ext : k[1] = n /\ ext[k].kind # "lazy"
    PROVE  MayLeave(n, u, Extended(u, ext))
<1> DEFINE d == Override(u.data, ext)
           v == Extended(u, ext)
<1>1. v.data = d /\ v.deleted = u.deleted
  BY DEF Extended
<1>2. /\ DOMAIN d = DOMAIN u.data \cup DOMAIN ext
      /\ \A k \in DOMAIN d : d[k] = IF k \in DOMAIN ext THEN ext[k] ELSE u.data[k]
  BY DEF Override
<1>3. \A k \in DOMAIN ext : k \notin DOMAIN u.data \cup u.deleted
  BY DEF MadeBy
<1> HIDE DEF d, v
<1>4. Kept(u, v)
  BY <1>1, <1>2, <1>3 DEF Kept, Succeeds
<1>5. MadeBy(Above(n), v)
  BY <1>1, <1>2, <1>3 DEF MadeBy, Above
<1> QED BY <1>4, <1>5 DEF MayLeave, v

\* An archiver swaps matched artifacts for its handles.
LEMMA ArchivedStands ==
    ASSUME NEW n, NEW u, MadeBy(Ancestors[n], u), NEW M, M \subseteq DOMAIN u.data
    PROVE  MayLeave(n, u, WithMutations(u, [k \in M |-> Handle(n)], {}))
<1> DEFINE ext == [k \in M |-> Handle(n)]
           d == Without(Override(u.data, ext), {})
           v == WithMutations(u, ext, {})
<1>1. v.data = d /\ v.deleted = u.deleted
  BY DEF WithMutations
<1>2. /\ DOMAIN d = DOMAIN u.data
      /\ \A k \in DOMAIN d : d[k] = IF k \in M THEN Handle(n) ELSE u.data[k]
  BY DEF Without, Restrict, Override
<1>3. Handle(n).kind = "lazy" /\ Handle(n).by = n
  BY DEF Handle
<1> HIDE DEF d, v
<1>4. Kept(u, v)
  BY <1>1, <1>2, <1>3 DEF Kept, Succeeds, MadeBy, Above
<1>5. MadeBy(Above(n), v)
  BY <1>1, <1>2, <1>3 DEF MadeBy, Above
<1> QED BY <1>4, <1>5 DEF MayLeave, v

\* An archiver in free mode drops them.
LEMMA FreedStands ==
    ASSUME NEW n, NEW u, MadeBy(Ancestors[n], u), NEW M, M \subseteq DOMAIN u.data
    PROVE  MayLeave(n, u, WithMutations(u, EmptyMap, M))
<1> DEFINE d == Without(Override(u.data, EmptyMap), M)
           v == WithMutations(u, EmptyMap, M)
<1>1. v.data = d /\ v.deleted = u.deleted \cup M
  BY DEF WithMutations
<1>2. /\ DOMAIN d = DOMAIN u.data \ M
      /\ \A k \in DOMAIN d : d[k] = u.data[k]
  BY EmptyDomain DEF Without, Restrict, Override
<1> HIDE DEF d, v
<1>4. Kept(u, v)
  BY <1>1, <1>2 DEF Kept, Succeeds
<1>5. MadeBy(Above(n), v)
  BY <1>1, <1>2 DEF MadeBy, Above
<1> QED BY <1>4, <1>5 DEF MayLeave, v

\* A kernel that completes has the view of its ancestors and its own work.
LEMMA RunFlow == ASSUME IInv, Flow, NEW n \in Downstream, Run(n) PROVE Flow'
<1>1. n \in InState("running")
  BY DEF Run, JudgeSamples, Archive, Free, RunRaises
<1>2. n \in DOMAIN task /\ task[n].state = "running" /\ n \in Nodes
  BY <1>1 DEF InState, Downstream
<1> DEFINE u == task[n].art
<1>3. IsTask(task[n]) /\ IsUnion(u)
  BY <1>2 DEF IInv, TypeOK, IsTask
<1>4. CASE phase # "dag"
  <2>1. arts' = arts /\ reps' = reps /\ phase' = phase
    BY DEF Run, JudgeSamples, Archive, Free, RunRaises, Completes
  <2> QED BY <1>4, <2>1 DEF Flow
<1>5. CASE phase = "dag"
  <2>1. View(n, Ancestors[n], u, task[n].rep, arts, reps)
    BY <1>2, <1>5 DEF Flow, WorkedOn
  <2>2. n \notin Ancestors[n]
    BY <1>2, <1>5, <2>1 DEF View, IInv, Partition, Places
  <2>3. MadeBy(Ancestors[n], u)
    BY <2>1 DEF View
  <2>4. Matched(n) \subseteq DOMAIN u.data
    BY DEF Matched
  <2>5. Kept(u, u) /\ MadeBy(Above(n), u)
    BY <2>3, KeptReflexive DEF MadeBy, Above
  <2>6. \E v, ext : Completes(n, v, ext) /\ MayLeave(n, u, v)
    <3>1. CASE JudgeSamples(n)
      <4>1. PICK w \in [LiveIds(n) -> Verdicts] :
              LET made == {<<n, s>> : s \in {s \in LiveIds(n) : w[s] # "error"}}
              IN  Completes(n,
                    Extended(u, [k \in made |-> Raw(n, batch)]),
                    [checks  |-> [k \in LiveIds(n) \X {"check"} |-> w[k[1]]],
                     summary |-> {}])
        BY <3>1 DEF JudgeSamples
      <4> DEFINE made == {<<n, s>> : s \in {s \in LiveIds(n) : w[s] # "error"}}
                 new == [k \in made |-> Raw(n, batch)]
                 ext == [checks |-> [k \in LiveIds(n) \X {"check"} |-> w[k[1]]],
                         summary |-> {}]
      <4>2. Kind[n] # "archive"
        BY <3>1 DEF JudgeSamples
      <4>3. \A k \in DOMAIN new : k[1] = n /\ new[k].kind # "lazy"
        BY DEF Raw
      <4>4. Completes(n, Extended(u, new), ext)
        BY <4>1
      <4> HIDE DEF new, ext
      <4>5. MayLeave(n, u, Extended(u, new))
        BY <1>3, <2>2, <2>3, <4>2, <4>3, ExtendedStands DEF IsUnion
      <4> QED BY <4>4, <4>5
    <3>2. CASE Archive(n)
      BY <2>3, <2>4, <3>2, ArchivedStands DEF Archive
    <3>3. CASE Free(n)
      BY <2>3, <2>4, <3>3, FreedStands DEF Free
    <3>4. CASE RunRaises(n)
      BY <2>5, <3>4 DEF RunRaises, MayLeave
    <3> QED BY <3>1, <3>2, <3>3, <3>4 DEF Run
  <2>7. PICK v, ext : Completes(n, v, ext) /\ MayLeave(n, u, v)
    BY <2>6
  <2> DEFINE r == Apply(task[n].rep, n, ext)
  <2>8. View(n, Above(n), v, r, arts, reps)
    BY <1>2, <2>1, <2>2, <2>7, WorkView DEF MayLeave
  <2>9. /\ arts' = arts /\ reps' = reps /\ phase' = phase
        /\ task' = [task EXCEPT ![n] = [state |-> "finished", art |-> v, rep |-> r]]
    BY <2>7 DEF Completes
  <2> HIDE DEF r
  <2>10. /\ DOMAIN task' = DOMAIN task
         /\ \A m \in DOMAIN task : m # n => task'[m] = task[m]
         /\ task'[n] = [state |-> "finished", art |-> v, rep |-> r]
    BY <1>2, <2>9
  <2>11. ASSUME NEW m \in DOMAIN task'
         PROVE  View(m, WorkedOn(m)', task'[m].art, task'[m].rep, arts, reps)
    <3>1. CASE m = n
      BY <2>8, <2>10, <3>1 DEF WorkedOn
    <3>2. CASE m # n
      BY <1>5, <2>10, <3>2 DEF Flow, WorkedOn
    <3> QED BY <3>1, <3>2
  <2> QED BY <2>9, <2>11 DEF Flow
<1> QED BY <1>4, <1>5

\* The merge forgets the batch, or an exception keeps it as it is.
LEMMA MergeBatchFlow == ASSUME Flow, MergeBatch PROVE Flow'
<1>1. CASE MergeConflict
  BY <1>1 DEF MergeBatch, Flow
<1>2. CASE ~MergeConflict
  BY <1>2, EmptyDomain DEF MergeBatch, Flow
<1> QED BY <1>1, <1>2

LEMMA FlowStep == ASSUME IInv, Flow, [Next]_vars PROVE Flow'
<1>1. CASE NextBatch
  BY <1>1, NextBatchFlow
<1>2. ASSUME NEW n \in Downstream, Submit(n) PROVE Flow'
  BY <1>2, SubmitFlow
<1>3. ASSUME NEW D \in SUBSET Downstream, Fold(D) PROVE Flow'
  BY <1>3, FoldFlow
<1>4. CASE MergeBatch
  BY <1>4, MergeBatchFlow
<1>5. CASE Start
  BY <1>5, StartFlow
<1>6. ASSUME NEW n \in Downstream, Run(n) PROVE Flow'
  BY <1>6, RunFlow
<1>7. CASE UNCHANGED vars
  BY <1>7 DEF vars, Flow, WorkedOn
<1>8. CASE \/ SourceExhausted \/ SourceRaises \/ Unwound \/ Digest \/ DigestRaises
           \/ Stamp \/ Commit \/ CommitRaises \/ JobFinished
  <2>1. arts' = arts /\ reps' = reps /\ phase' # "dag"
    BY <1>8 DEF SourceExhausted, SourceRaises, EnterReduce, Unwound, Digest, DigestRaises,
            Stamp, Commit, CommitRaises, JobFinished, dagVars
  <2> QED BY <2>1 DEF Flow
<1> QED BY <1>1, <1>2, <1>3, <1>4, <1>5, <1>6, <1>7, <1>8 DEF Next, Driver, Ended

-----------------------------------------------------------------------------
(* The merge *)

\* The leaves of a finished batch carry what every node made and found.
LEMMA LeavesHold ==
    ASSUME IInv, Flow, phase = "dag", pending = {}, task = EmptyMap,
           ~JoinConflict(LeafUnions)
    PROVE  /\ DOMAIN arts = Nodes
           /\ MadeBy(Nodes, JoinAll(LeafUnions))
           /\ FoundBy(Nodes, MergeAll(LeafReports)) /\ Fresh(MergeAll(LeafReports))
           /\ \A n \in Nodes : /\ Kept(arts[n], JoinAll(LeafUnions))
                               /\ Agree(n, reps[n], MergeAll(LeafReports))
<1>1. DOMAIN arts = Nodes /\ DOMAIN reps = Nodes
  BY EmptyDomain DEF IInv, Partition, Places
<1>2. /\ Leaves \subseteq 0 .. Len(Order) /\ Len(Order) \in Nat
      /\ \A i \in Leaves : Order[i] \in Nodes
      /\ DOMAIN LeafUnions = Leaves /\ DOMAIN LeafReports = Leaves
  BY PipelineFacts DEF Leaves, LeafUnions, LeafReports
<1>3. \A i \in Leaves : LeafUnions[i] = arts[Order[i]] /\ LeafReports[i] = reps[Order[i]]
  BY DEF LeafUnions, LeafReports
<1>4. \A i \in Leaves : View(Order[i], Above(Order[i]), LeafUnions[i], LeafReports[i], arts, reps)
  BY <1>1, <1>2, <1>3 DEF Flow
<1>5. \A i \in Leaves : Above(Order[i]) \subseteq Nodes
  BY <1>2, AncestorFacts DEF Above
<1>6. \A n \in Nodes : \E i \in Leaves : n \in Above(Order[i])
  BY EveryNodeReachesALeaf
<1>7. Gathers(Len(Order), Order, Nodes, LeafUnions, LeafReports, arts, reps)
  BY <1>1, <1>2, <1>3, <1>4, <1>5, <1>6 DEF Gathers
<1> QED BY <1>1, <1>7, JoinView

\* The job after the merge of a batch: every node's artifacts follow into it,
\* the Batch apart, and every node's verdicts.
LEMMA MergeCarries ==
    ASSUME IInv, Flow, MergeBatch, phase' = "source", NEW n \in Nodes
    PROVE  /\ arts[n].deleted \subseteq job'.deleted
           /\ \A k \in DOMAIN arts[n].data \ BatchKeys(arts[n]) :
                 \/ k \in job'.deleted
                 \/ k \in DOMAIN job'.data /\ Succeeds(arts[n].data[k], job'.data[k])
           /\ \A k \in DOMAIN reps[n].check :
                 k \in DOMAIN report'.check /\ report'.check[k] = reps[n].check[k]
<1> DEFINE J == JoinAll(LeafUnions)
           M == MergeAll(LeafReports)
           U == WithoutTransients(J)
<1>1. /\ phase = "dag" /\ pending = {} /\ task = EmptyMap /\ ~JoinConflict(LeafUnions)
      /\ job' = Union(job, U) /\ report' = Merge(report, M)
  BY DEF MergeBatch, MergeConflict, BatchUnion
<1>2. /\ DOMAIN arts = Nodes
      /\ \A m \in Nodes : Kept(arts[m], J) /\ Agree(m, reps[m], M)
  BY <1>1, LeavesHold
<1>3. J = [data |-> J.data, deleted |-> J.deleted]
  BY DEF JoinAll
<1> HIDE DEF J, M, U
<1>4. /\ U.deleted = J.deleted
      /\ DOMAIN U.data = DOMAIN J.data \ BatchKeys(J)
      /\ \A k \in DOMAIN U.data : U.data[k] = J.data[k]
  BY <1>3, WithoutTransientsKeeps DEF U
<1>5. /\ job'.deleted = job.deleted \cup U.deleted
      /\ DOMAIN job'.data = (DOMAIN job.data \cup DOMAIN U.data) \ job'.deleted
      /\ \A k \in DOMAIN job'.data : k \in DOMAIN U.data => job'.data[k] = U.data[k]
  BY <1>1, UnionDomain
<1>6. arts[n].deleted \subseteq job'.deleted
  BY <1>2, <1>4, <1>5 DEF Kept
<1>7. ASSUME NEW k \in DOMAIN arts[n].data \ BatchKeys(arts[n]), k \notin job'.deleted
      PROVE  k \in DOMAIN job'.data /\ Succeeds(arts[n].data[k], job'.data[k])
  <2>1. k \in DOMAIN J.data /\ Succeeds(arts[n].data[k], J.data[k])
    BY <1>2, <1>4, <1>5, <1>7 DEF Kept
  <2>2. k \notin BatchKeys(J)
    BY <1>7, <2>1 DEF BatchKeys, Succeeds
  <2> QED BY <1>4, <1>5, <1>7, <2>1, <2>2
<1>8. ASSUME NEW k \in DOMAIN reps[n].check
      PROVE  k \in DOMAIN report'.check /\ report'.check[k] = reps[n].check[k]
  <2>1. View(n, Above(n), arts[n], reps[n], arts, reps)
    BY <1>2 DEF Flow
  <2>2. k[2] \in Above(n) /\ k[2] \in Nodes
    BY <2>1, AncestorFacts DEF View, FoundBy, Above
  <2>3. k \in DOMAIN reps[k[2]].check /\ reps[k[2]].check[k] = reps[n].check[k]
    <3>1. CASE k[2] = n
      BY <3>1
    <3>2. CASE k[2] \in Ancestors[n]
      BY <2>1, <3>2 DEF View, Agree
    <3> QED BY <2>2, <3>1, <3>2 DEF Above
  <2>4. k \in DOMAIN M.check /\ M.check[k] = reps[n].check[k]
    BY <1>2, <2>2, <2>3 DEF Agree
  <2>5. report'.check = Override(report.check, M.check)
    BY <1>1 DEF Merge
  <2> QED BY <2>4, <2>5 DEF Override
<1> QED BY <1>6, <1>7, <1>8

-----------------------------------------------------------------------------
(* The job's union *)

\* Two steps write it.
LEMMA JobChanges == [Next]_vars => MergeBatch \/ Commit \/ job' = job
BY DEF Next, Driver, NextBatch, SourceExhausted, SourceRaises, Submit, Fold, Unwound,
       Digest, DigestRaises, Stamp, CommitRaises, JobFinished, Start, Run, JudgeSamples,
       Archive, Free, RunRaises, Completes, Ended, vars

LEMMA JobUnionStep == ASSUME IInv, Flow, JobUnion, [Next]_vars PROVE JobUnion'
<1>1. CASE MergeBatch
  <2>1. CASE MergeConflict
    BY <1>1, <2>1 DEF MergeBatch, JobUnion
  <2>2. CASE ~MergeConflict
    <3> DEFINE J == JoinAll(LeafUnions)
    <3>1. /\ phase = "dag" /\ pending = {} /\ task = EmptyMap /\ ~JoinConflict(LeafUnions)
          /\ job' = Union(job, WithoutTransients(J))
      BY <1>1, <2>2 DEF MergeBatch, MergeConflict, BatchUnion
    <3>2. MadeBy(Nodes, J)
      BY <3>1, LeavesHold
    <3>3. J = [data |-> J.data, deleted |-> J.deleted]
      BY DEF JoinAll
    <3> HIDE DEF J
    <3>4. WithoutTransients(J).deleted = J.deleted
      BY <3>3, WithoutTransientsKeeps
    <3>5. /\ job'.deleted = job.deleted \cup J.deleted
          /\ DOMAIN job'.data \cap job'.deleted = {}
      BY <3>1, <3>4, UnionDomain
    <3> QED BY <3>2, <3>5 DEF MadeBy, JobUnion
  <2> QED BY <2>1, <2>2
<1>2. CASE Commit
  <2> DEFINE uris == Written(NodeAt, Len(Documents[NodeAt]))
             links == [k \in DOMAIN uris |-> Handle(NodeAt)]
  <2>1. job' = Extended(job, links)
    BY <1>2 DEF Commit
  <2>2. job = [data |-> job.data, deleted |-> job.deleted]
    BY DEF IInv, TypeOK, IsUnion
  <2>3. job'.deleted = job.deleted /\ DOMAIN job'.data = DOMAIN job.data \cup DOMAIN uris
    BY <2>1, <2>2 DEF Extended, Override
  <2>4. ASSUME NEW k \in DOMAIN uris PROVE Kind[k[1]] = "archive"
    <3>1. NodeAt \in Nodes
      BY <1>2, PipelineFacts DEF Commit, NodeAt
    <3>2. k[1] = NodeAt /\ 1 .. Len(Documents[NodeAt]) # {}
      BY DEF Written
    <3>3. Documents[NodeAt] # <<>>
      BY <3>2
    <3> QED BY <3>1, <3>2, <3>3, JobAssumption
  <2> HIDE DEF uris, links
  <2> QED BY <2>3, <2>4 DEF JobUnion
<1>3. CASE job' = job
  BY <1>3 DEF JobUnion
<1> QED BY <1>1, <1>2, <1>3, JobChanges

LEMMA FlowInvariant == Spec => [](IInv /\ Flow /\ JobUnion)
<1>1. Init => JobUnion
  BY EmptyDomain DEF Init, EmptyUnion, JobUnion
<1>2. IInv /\ Flow /\ JobUnion /\ [Next]_vars => IInv' /\ Flow' /\ JobUnion'
  BY StepInv, FlowStep, JobUnionStep
<1> QED BY <1>1, <1>2, InitInv, InitFlow, PTL DEF Spec

-----------------------------------------------------------------------------
\* executor.py 17-19, determinism: a folded node has seen exactly what its
\* ancestors found, and carries artifacts of its ancestors and its own alone,
\* whatever else had finished first.
THEOREM InputsAreAncestors == Spec => []ViewIsAncestors
<1>1. Flow => ViewIsAncestors
  <2> SUFFICES ASSUME Flow, NEW n \in DOMAIN reps
               PROVE  /\ \A k \in DOMAIN reps[n].check : k[2] \in Ancestors[n] \cup {n}
                      /\ \A a \in Ancestors[n] :
                            a \in DOMAIN reps /\ ChecksBy(reps[n], a) = ChecksBy(reps[a], a)
                      /\ \A k \in DOMAIN arts[n].data : k[1] \in Ancestors[n] \cup {n}
    BY DEF ViewIsAncestors
  <2>1. View(n, Above(n), arts[n], reps[n], arts, reps)
    BY DEF Flow
  <2>2. /\ \A k \in DOMAIN reps[n].check : k[2] \in Ancestors[n] \cup {n}
        /\ \A k \in DOMAIN arts[n].data : k[1] \in Ancestors[n] \cup {n}
    BY <2>1 DEF View, FoundBy, MadeBy, Above
  <2>3. ASSUME NEW a \in Ancestors[n]
        PROVE  a \in DOMAIN reps /\ ChecksBy(reps[n], a) = ChecksBy(reps[a], a)
    <3> DEFINE own == {k \in DOMAIN reps[n].check : k[2] = a}
               ofA == {k \in DOMAIN reps[a].check : k[2] = a}
    <3>1. a \in DOMAIN reps /\ Agree(a, reps[a], reps[n])
      BY <2>1 DEF View
    <3>2. own = ofA /\ \A k \in own : reps[n].check[k] = reps[a].check[k]
      BY <3>1 DEF Agree
    <3> HIDE DEF own, ofA
    <3>3. ChecksBy(reps[n], a) = [k \in own |-> reps[n].check[k]]
      BY DEF ChecksBy, Restrict, own
    <3>4. ChecksBy(reps[a], a) = [k \in ofA |-> reps[a].check[k]]
      BY DEF ChecksBy, Restrict, ofA
    <3> QED BY <3>1, <3>2, <3>3, <3>4
  <2> QED BY <2>2, <2>3
<1> QED BY <1>1, FlowInvariant, PTL

\* Only the merge of a batch brings the driver from a batch back to the source.
LEMMA MergesMeansMerge == ASSUME [Next]_vars, Merges PROVE MergeBatch
BY DEF Merges, Next, Driver, NextBatch, SourceExhausted, SourceRaises, EnterReduce, Submit,
       Fold, Unwound, Digest, DigestRaises, Stamp, Commit, CommitRaises, JobFinished, Start,
       Run, JudgeSamples, Archive, Free, RunRaises, Completes, Ended, vars

\* executor.py 242-250: no verdict and no artifact of any node is lost by
\* folding the leaves alone into the job.
THEOREM NothingLostInTheMerge == Spec => LeavesCarryEverything
<1>1. IInv /\ Flow /\ [Next]_vars => CarriesEverything
  BY MergesMeansMerge, MergeCarries DEF CarriesEverything, Merges
<1> QED BY <1>1, FlowInvariant, PTL DEF Spec, LeavesCarryEverything

\* executor.py 247-249: the raw copy of an archived artifact never wins over
\* its handle, on whichever branches the two travelled.
THEOREM HandleOutlivesRaw == Spec => MutationWins
<1>1. IInv /\ Flow /\ [Next]_vars => CarriesHandles
  <2> SUFFICES ASSUME IInv, Flow, [Next]_vars, Merges, NEW n \in Nodes,
                      NEW k \in DOMAIN arts[n].data, arts[n].data[k].kind = "lazy",
                      k \notin job'.deleted
               PROVE  /\ k \in DOMAIN job'.data
                      /\ job'.data[k].kind = "lazy"
                      /\ LET w == arts[n].data[k].by
                         IN  job'.data[k].by = w \/ w \in Ancestors[job'.data[k].by]
    BY DEF CarriesHandles
  <2>1. k \notin BatchKeys(arts[n])
    BY DEF BatchKeys
  <2>2. k \in DOMAIN job'.data /\ Succeeds(arts[n].data[k], job'.data[k])
    BY <2>1, MergesMeansMerge, MergeCarries DEF Merges
  <2> QED BY <2>2 DEF Succeeds, Above
<1> QED BY <1>1, FlowInvariant, PTL DEF Spec, MutationWins

\* data.py 82-84: what a branch of a batch freed, no other branch, batch or
\* document brings back.
THEOREM DeletesStand == Spec => FreedStaysFreed
<1>1. IInv /\ Flow /\ JobUnion /\ [Next]_vars => KeepsFreed
  <2> SUFFICES ASSUME IInv, Flow, JobUnion, [Next]_vars PROVE KeepsFreed
    OBVIOUS
  <2>1. Merges => \A n \in Nodes : arts[n].deleted \subseteq job'.deleted
    BY MergesMeansMerge, MergeCarries DEF Merges
  <2>2. DOMAIN job'.data \cap job'.deleted = {}
    BY JobUnionStep DEF JobUnion
  <2>3. job.deleted \subseteq job'.deleted
    <3>1. CASE MergeBatch
      BY <3>1, UnionDomain DEF MergeBatch
    <3>2. CASE Commit
      BY <3>2 DEF Commit, Extended, IInv, TypeOK, IsUnion
    <3> QED BY <3>1, <3>2, JobChanges
  <2> QED BY <2>1, <2>2, <2>3 DEF KeepsFreed
<1> QED BY <1>1, FlowInvariant, PTL DEF Spec, FreedStaysFreed
-----------------------------------------------------------------------------
(* QcJob reads reports with operators of its own, which are the executor's *)

LEMMA SameOperators ==
    /\ \A S : Job!Cardinality(S) = Cardinality(S)
    /\ \A S : Job!Worst(S) = Worst(S)
    /\ \A d, e : Job!Override(d, e) = Override(d, e)
    /\ \A v, s : Job!ChecksOf(v, s) = ChecksOf(v, s)
    /\ Job!EmptyMap = EmptyMap
    /\ Job!Statuses = Statuses
<1>1. \A S : Job!Cardinality(S) = Cardinality(S)
  BY DEF Job!Cardinality, Cardinality
<1>2. \A S : Job!Worst(S) = Worst(S)
  BY DEF Job!Worst, Worst, Job!Rank, Rank, Job!Statuses, Statuses
<1>3. \A d, e : Job!Override(d, e) = Override(d, e)
  BY DEF Job!Override, Override
<1>4. \A v, s : Job!ChecksOf(v, s) = ChecksOf(v, s)
  BY DEF Job!ChecksOf, ChecksOf
<1>5. Job!EmptyMap = EmptyMap
  BY DEF Job!EmptyMap, EmptyMap
<1>6. Job!Statuses = Statuses
  BY DEF Job!Statuses, Statuses
<1> QED BY <1>1, <1>2, <1>3, <1>4, <1>5, <1>6

\* The counts stamped into the job block are the tally of the verdicts.
LEMMA CountsAreTally ==
    ASSUME NEW r, Fresh(r)
    PROVE  Counts(r) = Job!Tally(r.check)
<1> DEFINE C(x) == {s \in SamplesOf(r.check) : Worst(ChecksOf(r.check, s)) = x}
<1>1. DOMAIN r.status = SamplesOf(r.check)
      /\ \A s \in SamplesOf(r.check) : r.status[s] = Worst(ChecksOf(r.check, s))
  BY DEF Fresh
<1>2. \A x : {s \in DOMAIN r.status : r.status[s] = x} = C(x)
  BY <1>1
<1>3. Counts(r) = [x \in Statuses |-> Cardinality(C(x))]
  BY <1>2 DEF Counts
<1>4. Job!Tally(r.check) = [x \in Job!Statuses |->
          Job!Cardinality({s \in SamplesOf(r.check) : Job!Worst(Job!ChecksOf(r.check, s)) = x})]
  BY DEF Job!Tally, SamplesOf
<1>5. \A x : {s \in SamplesOf(r.check) : Job!Worst(Job!ChecksOf(r.check, s)) = x} = C(x)
  BY SameOperators
<1>6. Job!Tally(r.check) = [x \in Statuses |-> Cardinality(C(x))]
  BY <1>4, <1>5, SameOperators
<1> QED BY <1>3, <1>6

-----------------------------------------------------------------------------
(* The verdicts of one node *)

\* The verdicts v of node n on batch b, given those of the nodes above it:
\* what QcJob asks of each node when a batch is judged.
Answers(b, n, v) ==
    IF n = Source
    THEN LET findings == Batches[b].findings
         IN  /\ Job!RecordedBy(v, n) = {<<s, n, "enumerate">> : s \in DOMAIN findings}
             /\ \A s \in DOMAIN findings : v[<<s, n, "enumerate">>] = findings[s]
    ELSE /\ \A k \in Job!RecordedBy(v, n) : k[1] \in Batches[b].samples
         /\ IF Kind[n] = "sample"
            THEN Job!Works(b, v, n) \/ Job!Breaks(b, v, n)
            ELSE Job!RecordedBy(v, n) = {} \/ Job!Breaks(b, v, n)

\* They are read off the checks of the node and of its ancestors alone.
LEMMA AnswersCarry ==
    ASSUME NEW b, NEW n \in Nodes, NEW q, NEW r, Answers(b, n, q.check),
           \A a \in Above(n) : Agree(a, q, r)
    PROVE  Answers(b, n, r.check)
<1> DEFINE v == q.check
           w == r.check
<1>1. \A a \in Above(n) : \A k \in DOMAIN v \cup DOMAIN w : k[2] = a =>
         k \in DOMAIN v /\ k \in DOMAIN w /\ v[k] = w[k]
  BY DEF Agree
<1> HIDE DEF v, w
<1>2. n \in Above(n) /\ Ancestors[n] \subseteq Above(n)
  BY DEF Above
<1>3. Job!RecordedBy(v, n) = Job!RecordedBy(w, n)
  BY <1>1, <1>2 DEF Job!RecordedBy
<1>4. \A k \in Job!RecordedBy(v, n) : v[k] = w[k]
  BY <1>1, <1>2 DEF Job!RecordedBy
<1>5. \A a \in Ancestors[n] : \A s : Job!Condemned(v, a, s) <=> Job!Condemned(w, a, s)
  BY <1>1, <1>2 DEF Job!Condemned
<1>6. Job!AsksTheLiving(b, v, n) <=> Job!AsksTheLiving(b, w, n)
  BY <1>3, <1>5 DEF Job!AsksTheLiving
<1>7. (Job!Works(b, v, n) <=> Job!Works(b, w, n))
      /\ (Job!Breaks(b, v, n) <=> Job!Breaks(b, w, n))
  BY <1>3, <1>4, <1>6 DEF Job!Works, Job!Breaks
<1>8. CASE n = Source
  BY <1>3, <1>4, <1>8 DEF Answers, v, w
<1>9. CASE n # Source
  BY <1>3, <1>7, <1>9 DEF Answers, v, w
<1> QED BY <1>8, <1>9

-----------------------------------------------------------------------------
(* The Batch *)

\* The union u carries batch b, and nothing else that is a Batch.
Loaded(b, u) == /\ BatchKeys(u) = {BatchKey}
                /\ u.data[BatchKey] = BatchObject(b)
                /\ BatchKey \notin u.deleted

LEMMA FindsTheBatch ==
    ASSUME NEW b, NEW u, Loaded(b, u)
    PROVE  HasBatch(u) /\ FindBatch(u).batch = b
<1>1. HasBatch(u)
  BY DEF Loaded, HasBatch
<1>2. (CHOOSE k \in BatchKeys(u) : TRUE) = BatchKey
  BY DEF Loaded
<1>3. FindBatch(u) = BatchObject(b)
  BY <1>2 DEF FindBatch, Loaded
<1> QED BY <1>1, <1>3 DEF BatchObject

\* A join of unions that carry it carries it.
LEMMA JoinLoaded ==
    ASSUME NEW b, NEW us, DOMAIN us # {}, DOMAIN us \subseteq Int, ~JoinConflict(us),
           \A i \in DOMAIN us : Loaded(b, us[i])
    PROVE  Loaded(b, JoinAll(us))
<1> DEFINE J == JoinAll(us)
<1>1. BatchKey \notin J.deleted
  BY JoinAllDeleted DEF Loaded
<1>2. PICK i \in DOMAIN us : TRUE
  OBVIOUS
<1>3. /\ BatchKey \in DOMAIN us[i].data /\ us[i].data[BatchKey] = BatchObject(b)
      /\ BatchObject(b).kind = "batch"
  BY DEF Loaded, BatchKeys, BatchObject
<1>4. BatchKey \in DOMAIN J.data /\ J.data[BatchKey] = BatchObject(b)
  BY <1>1, <1>3, JoinAllKeeps
<1>5. \A k \in DOMAIN J.data : \E j \in DOMAIN us :
         k \in DOMAIN us[j].data /\ J.data[k] = us[j].data[k]
  BY JoinAllOrigin
<1> HIDE DEF J
<1>6. ASSUME NEW k \in BatchKeys(J) PROVE k = BatchKey
  <2>1. PICK j \in DOMAIN us : k \in DOMAIN us[j].data /\ J.data[k] = us[j].data[k]
    BY <1>5 DEF BatchKeys
  <2>2. k \in BatchKeys(us[j])
    BY <2>1 DEF BatchKeys
  <2> QED BY <2>2 DEF Loaded
<1>7. BatchKey \in BatchKeys(J)
  BY <1>3, <1>4 DEF BatchKeys
<1>8. BatchKeys(J) = {BatchKey}
  BY <1>6, <1>7
<1> QED BY <1>1, <1>4, <1>8 DEF Loaded, J

\* Check kernels add no Batch, and unless their globs cover it archivers leave
\* it alone.
LEMMA ExtendedLoaded ==
    ASSUME NEW b, NEW u, Loaded(b, u), u = [data |-> u.data, deleted |-> u.deleted],
           NEW ext, \A k \in DOMAIN ext : ext[k].kind # "batch" /\ k # BatchKey
    PROVE  Loaded(b, Extended(u, ext))
<1> DEFINE d == Override(u.data, ext)
           v == Extended(u, ext)
<1>1. v.data = d /\ v.deleted = u.deleted
  BY DEF Extended
<1>2. /\ DOMAIN d = DOMAIN u.data \cup DOMAIN ext
      /\ \A k \in DOMAIN d : d[k] = IF k \in DOMAIN ext THEN ext[k] ELSE u.data[k]
  BY DEF Override
<1> HIDE DEF d, v
<1>3. BatchKeys(v) = BatchKeys(u)
  BY <1>1, <1>2 DEF BatchKeys, Loaded
<1> QED BY <1>1, <1>2, <1>3 DEF Loaded, BatchKeys, v

LEMMA MutatedLoaded ==
    ASSUME NEW b, NEW u, Loaded(b, u), NEW M, BatchKey \notin M, NEW D, BatchKey \notin D,
           NEW h, h.kind # "batch"
    PROVE  Loaded(b, WithMutations(u, [k \in M |-> h], D))
<1> DEFINE ext == [k \in M |-> h]
           d == Without(Override(u.data, ext), D)
           v == WithMutations(u, ext, D)
<1>1. v.data = d /\ v.deleted = u.deleted \cup D
  BY DEF WithMutations
<1>2. /\ DOMAIN d = (DOMAIN u.data \cup M) \ D
      /\ \A k \in DOMAIN d : d[k] = IF k \in M THEN h ELSE u.data[k]
  BY DEF Without, Restrict, Override
<1> HIDE DEF d, v
<1>3. \A k : k \in BatchKeys(v) <=> k = BatchKey
  BY <1>1, <1>2 DEF BatchKeys, Loaded
<1>4. BatchKeys(v) = {BatchKey}
  BY <1>3
<1> QED BY <1>1, <1>2, <1>4 DEF Loaded, BatchKeys, v

-----------------------------------------------------------------------------
(* A kernel's run *)

\* The samples of batch b that report r says are alive at node n.
Living(b, n, r) == {s \in Batches[b].samples :
                      \A a \in Ancestors[n] : ~Job!Condemned(r.check, a, s)}

\* _live_ids: the samples of the batch that no ancestor condemned.
LEMMA LiveIdsFacts ==
    ASSUME NEW n \in DOMAIN task, Loaded(batch, task[n].art), IsReport(task[n].rep),
           FoundBy(Ancestors[n], task[n].rep), Fresh(task[n].rep)
    PROVE  LiveIds(n) = Living(batch, n, task[n].rep)
<1> DEFINE r == task[n].rep
<1>1. LiveIds(n) = {s \in Batches[batch].samples : IsAlive(r, s)}
  BY FindsTheBatch DEF LiveIds
<1>2. \A k \in DOMAIN r.check : r.check[k] \in Statuses
  BY DEF IsReport, IsMap
<1>3. ASSUME NEW s
      PROVE  IsAlive(r, s) <=> \A a \in Ancestors[n] : ~Job!Condemned(r.check, a, s)
  <2>1. ~IsAlive(r, s) <=> \E k \in DOMAIN r.check : k[1] = s /\ r.check[k] = "error"
    BY <1>2, DeadIsCondemned
  <2> HIDE DEF r
  <2>2. \A k \in DOMAIN r.check : k[2] \in Ancestors[n]
    BY DEF FoundBy, r
  <2> QED BY <2>1, <2>2 DEF Job!Condemned
<1> QED BY <1>1, <1>3 DEF Living

\* Node n ran on report r and gave each sample of L one check.
Gave(n, r, L, name, ext, q) == /\ DOMAIN ext.checks = L \X {name}
                               /\ q = Apply(r, n, ext)

\* The checks of node n in report q are those, and as to the nodes above it
\* nothing has changed since r.
Recorded(n, r, L, name, ext, q) ==
    /\ \A k : k \in Job!RecordedBy(q.check, n) <=> \E s \in L : k = <<s, n, name>>
    /\ \A s \in L : q.check[<<s, n, name>>] = ext.checks[<<s, name>>]
    /\ \A a \in Ancestors[n] : \A s :
          Job!Condemned(q.check, a, s) <=> Job!Condemned(r.check, a, s)

LEMMA OwnChecks ==
    ASSUME NEW n \in Nodes, n \notin Ancestors[n], NEW r, FoundBy(Ancestors[n], r),
           NEW L, NEW name, NEW ext, NEW q, Gave(n, r, L, name, ext, q)
    PROVE  Recorded(n, r, L, name, ext, q)
<1> DEFINE own == DOMAIN Namespaced(n, ext)
<1>1. own = {<<s, n, name>> : s \in L}
  <2>1. own = {<<k[1], n, k[2]>> : k \in L \X {name}}
    <3>1. own = {<<k[1], n, k[2]>> : k \in DOMAIN ext.checks}
      BY DEF Namespaced
    <3> QED BY <3>1 DEF Gave
  <2> HIDE DEF own
  <2>2. \A x \in own : \E s \in L : x = <<s, n, name>>
    BY <2>1
  <2>3. \A s \in L : <<s, n, name>> \in own
    <3> TAKE s \in L
    <3>1. <<s, name>> \in L \X {name} /\ <<s, name>>[1] = s /\ <<s, name>>[2] = name
      OBVIOUS
    <3> QED BY <2>1, <3>1
  <2> QED BY <2>2, <2>3
<1>2. /\ DOMAIN q.check = DOMAIN r.check \cup own
      /\ \A k \in DOMAIN q.check :
            q.check[k] = IF k \in own THEN Namespaced(n, ext)[k] ELSE r.check[k]
  <2>1. q = Apply(r, n, ext)
    BY DEF Gave
  <2> QED BY <2>1, ApplyCheck
<1>3. \A k \in own : Namespaced(n, ext)[k] = ext.checks[<<k[1], k[3]>>]
  BY DEF Namespaced
<1> HIDE DEF own
<1>4. \A k \in own : k[2] = n
  BY <1>1
<1>5. \A k \in DOMAIN r.check : k[2] \in Ancestors[n] /\ k[2] # n
  BY DEF FoundBy
<1>6. Job!RecordedBy(q.check, n) = own
  BY <1>2, <1>4, <1>5 DEF Job!RecordedBy
<1>7. ASSUME NEW s \in L PROVE q.check[<<s, n, name>>] = ext.checks[<<s, name>>]
  <2>1. <<s, n, name>> \in own
    BY <1>1
  <2> QED BY <1>2, <1>3, <2>1
<1>8. ASSUME NEW a \in Ancestors[n], NEW s
      PROVE  Job!Condemned(q.check, a, s) <=> Job!Condemned(r.check, a, s)
  BY <1>2, <1>4, <1>5 DEF Job!Condemned
<1>9. \A k : k \in own <=> \E s \in L : k = <<s, n, name>>
  BY <1>1
<1> QED BY <1>6, <1>7, <1>8, <1>9 DEF Recorded

\* Node n has asked them, and them alone.
AskedThem(b, n, name, ext, q) ==
    /\ Job!AsksTheLiving(b, q.check, n)
    /\ \A k \in Job!RecordedBy(q.check, n) :
          /\ k[1] \in Batches[b].samples /\ k[3] = name
          /\ <<k[1], name>> \in DOMAIN ext.checks
          /\ q.check[k] = ext.checks[<<k[1], name>>]

LEMMA AsksLiving ==
    ASSUME NEW b, NEW n \in Nodes, n \notin Ancestors[n], NEW r, FoundBy(Ancestors[n], r),
           NEW name, NEW ext, NEW q, Gave(n, r, Living(b, n, r), name, ext, q)
    PROVE  AskedThem(b, n, name, ext, q)
<1> DEFINE L == Living(b, n, r)
<1> HIDE DEF L
<1>0. Recorded(n, r, L, name, ext, q) /\ DOMAIN ext.checks = L \X {name}
  BY OwnChecks DEF L, Gave
<1>1. /\ \A k : k \in Job!RecordedBy(q.check, n) <=> \E s \in L : k = <<s, n, name>>
      /\ \A s \in L : q.check[<<s, n, name>>] = ext.checks[<<s, name>>]
      /\ \A a \in Ancestors[n] : \A s :
            Job!Condemned(q.check, a, s) <=> Job!Condemned(r.check, a, s)
  BY <1>0 DEF Recorded
<1>2. ASSUME NEW s \in Batches[b].samples
      PROVE  (\E k \in Job!RecordedBy(q.check, n) : k[1] = s)
                <=> \A a \in Ancestors[n] : ~Job!Condemned(q.check, a, s)
  <2>1. (\E k \in Job!RecordedBy(q.check, n) : k[1] = s) <=> s \in L
    <3>1. ASSUME s \in L PROVE \E k \in Job!RecordedBy(q.check, n) : k[1] = s
      <4>1. <<s, n, name>> \in Job!RecordedBy(q.check, n) /\ <<s, n, name>>[1] = s
        BY <1>1, <3>1
      <4> QED BY <4>1
    <3>2. \A k \in Job!RecordedBy(q.check, n) : k[1] \in L
      BY <1>1
    <3> QED BY <3>1, <3>2
  <2>2. s \in L <=> \A a \in Ancestors[n] : ~Job!Condemned(r.check, a, s)
    BY DEF L, Living
  <2> QED BY <1>1, <2>1, <2>2
<1>3. Job!AsksTheLiving(b, q.check, n)
  BY <1>2 DEF Job!AsksTheLiving
<1>4. ASSUME NEW k \in Job!RecordedBy(q.check, n)
      PROVE  /\ k[1] \in Batches[b].samples /\ k[3] = name
             /\ <<k[1], name>> \in DOMAIN ext.checks
             /\ q.check[k] = ext.checks[<<k[1], name>>]
  <2>1. PICK s \in L : k = <<s, n, name>>
    BY <1>1
  <2>2. k[1] = s /\ k[3] = name
    BY <2>1
  <2>3. s \in Batches[b].samples
    BY DEF L, Living
  <2> QED BY <1>0, <1>1, <2>1, <2>2, <2>3
<1> QED BY <1>3, <1>4 DEF AskedThem

-----------------------------------------------------------------------------
(* Every node answers *)

\* While a batch runs, whoever is folded or in flight has the Batch, and whoever
\* has run has answered.
Judging ==
    phase = "dag" =>
        /\ \A n \in DOMAIN arts : Loaded(batch, arts[n]) /\ Answers(batch, n, reps[n].check)
        /\ \A n \in DOMAIN task :
              /\ Loaded(batch, task[n].art)
              /\ task[n].state = "finished" => Answers(batch, n, task[n].rep.check)

\* The source has found what the batch says it found.
LEMMA NextBatchJudging == ASSUME NextBatch PROVE Judging'
<1> DEFINE b == batch + 1
           findings == Batches[b].findings
           ext == [checks |-> [k \in (DOMAIN findings) \X {"enumerate"} |-> findings[k[1]]],
                   summary |-> {}]
           u == Extended(EmptyUnion, [k \in {BatchKey} |-> BatchObject(b)])
           r == Apply(EmptyReport, Source, ext)
<1>1. /\ arts' = [n \in {Source} |-> u] /\ reps' = [n \in {Source} |-> r]
      /\ batch' = b /\ task' = EmptyMap
  BY DEF NextBatch
<1>2. Loaded(b, u)
  <2>1. /\ DOMAIN u.data = {BatchKey} /\ u.data[BatchKey] = BatchObject(b)
        /\ u.deleted = {}
    BY EmptyDomain DEF Extended, EmptyUnion, Override
  <2> HIDE DEF u
  <2>2. BatchObject(b).kind = "batch"
    BY DEF BatchObject
  <2> QED BY <2>1, <2>2 DEF Loaded, BatchKeys
<1>3. Answers(b, Source, r.check)
  <2>1. /\ Gave(Source, EmptyReport, DOMAIN findings, "enumerate", ext, r)
        /\ \A s \in DOMAIN findings : ext.checks[<<s, "enumerate">>] = findings[s]
    BY DEF Gave
  <2>2. FoundBy(Ancestors[Source], EmptyReport)
    BY EmptyIsFresh DEF FoundBy
  <2>3. Source \in Nodes /\ Source \notin Ancestors[Source]
    BY PipelineFacts, SourceHasNoAncestor
  <2> DEFINE found == DOMAIN findings
  <2> HIDE DEF ext, r, found
  <2>4. Recorded(Source, EmptyReport, found, "enumerate", ext, r)
    BY <2>1, <2>2, <2>3, OwnChecks DEF found
  <2>5. /\ \A k : k \in Job!RecordedBy(r.check, Source)
                   <=> \E s \in found : k = <<s, Source, "enumerate">>
        /\ \A s \in found : r.check[<<s, Source, "enumerate">>] = ext.checks[<<s, "enumerate">>]
    BY <2>4 DEF Recorded
  <2>6. Job!RecordedBy(r.check, Source) = {<<s, Source, "enumerate">> : s \in DOMAIN findings}
    BY <2>5 DEF found
  <2> QED BY <2>1, <2>5, <2>6 DEF Answers, found
<1> HIDE DEF b, u, r
<1>4. /\ \A n \in DOMAIN arts' : n = Source /\ arts'[n] = u /\ reps'[n] = r
      /\ DOMAIN task' = {}
  BY <1>1, EmptyDomain
<1> QED BY <1>1, <1>2, <1>3, <1>4 DEF Judging

\* A node with inputs is given the Batch.
LEMMA SubmitJudging ==
    ASSUME IInv, Flow, Judging, NEW n \in Downstream, Submit(n)
    PROVE  Judging'
<1>1. /\ n \in Nodes /\ phase = "dag" /\ InputsOf(n) \subseteq DOMAIN arts
      /\ arts' = arts /\ reps' = reps /\ batch' = batch
  BY DEF Submit, Ready, Downstream
<1>2. CASE JoinConflict(InputUnions(n))
  BY <1>1, <1>2 DEF Submit, Judging
<1>3. CASE ~JoinConflict(InputUnions(n))
  <2> DEFINE us == InputUnions(n)
             new == [state |-> "queued", art |-> JoinAll(us),
                     rep |-> MergeAll(InputReports(n))]
  <2>1. /\ DOMAIN us = DOMAIN Inputs[n] /\ DOMAIN us \subseteq Int
        /\ \A i \in DOMAIN us : Inputs[n][i] \in DOMAIN arts /\ us[i] = arts[Inputs[n][i]]
    BY <1>1, PipelineFacts DEF InputUnions
  <2>2. DOMAIN us # {}
    <3>1. Inputs[n] \in Seq(Nodes) /\ Inputs[n] # <<>>
      BY <1>1, PipelineAssumption, PipelineFacts
    <3> QED BY <2>1, <3>1
  <2>3. \A i \in DOMAIN us : Loaded(batch, us[i])
    BY <1>1, <2>1 DEF Judging
  <2>4. task' = Override(task, [m \in {n} |-> new])
    BY <1>3 DEF Submit
  <2>5. new.state = "queued" /\ new.art = JoinAll(us)
    OBVIOUS
  <2> HIDE DEF new, us
  <2>6. Loaded(batch, new.art)
    BY <1>3, <2>1, <2>2, <2>3, <2>5, JoinLoaded DEF us
  <2>7. /\ DOMAIN task' = DOMAIN task \cup {n} /\ task'[n] = new
        /\ \A m \in DOMAIN task' : m # n => m \in DOMAIN task /\ task'[m] = task[m]
    BY <2>4 DEF Override
  <2> QED BY <1>1, <2>5, <2>6, <2>7 DEF Judging
<1> QED BY <1>2, <1>3

LEMMA FoldJudging ==
    ASSUME IInv, Flow, Judging, NEW D \in SUBSET Downstream, Fold(D)
    PROVE  Judging'
<1>1. /\ phase = "dag" /\ batch' = batch /\ DOMAIN reps = DOMAIN arts
      /\ D \subseteq DOMAIN task /\ \A n \in D : task[n].state = "finished"
  BY DEF Fold, InState, Flow
<1>2. DOMAIN task \cap DOMAIN arts = {}
  BY <1>1 DEF IInv, Partition, Places
<1>3. /\ DOMAIN arts' = DOMAIN arts \cup D
      /\ \A n \in D : arts'[n] = task[n].art /\ reps'[n] = task[n].rep
      /\ \A n \in DOMAIN arts : arts'[n] = arts[n] /\ reps'[n] = reps[n]
  BY <1>1, <1>2 DEF Fold, Override
<1>4. DOMAIN task' \subseteq DOMAIN task /\ \A n \in DOMAIN task' : task'[n] = task[n]
  BY DEF Fold, Without, Restrict
<1> QED BY <1>1, <1>3, <1>4 DEF Judging

LEMMA StartJudging == ASSUME IInv, Judging, Start PROVE Judging'
<1>1. /\ arts' = arts /\ reps' = reps /\ phase' = phase /\ batch' = batch
      /\ task' = [task EXCEPT ![Head(queue)].state = "running"]
  BY DEF Start
<1>2. \A m \in DOMAIN task : IsTask(task[m])
  BY DEF IInv, TypeOK
<1>3. /\ DOMAIN task' = DOMAIN task
      /\ \A m \in DOMAIN task : /\ task'[m].art = task[m].art /\ task'[m].rep = task[m].rep
                                /\ task'[m].state = "finished" => task[m].state = "finished"
  BY <1>1, <1>2 DEF IsTask
<1> QED BY <1>1, <1>3 DEF Judging

\* What a run leaves: the Batch, and the node's answer.
LEMMA RunAnswers ==
    ASSUME BatchIsKept, IInv, Flow, Judging, phase = "dag", NEW n \in Downstream, Run(n)
    PROVE  \E v, ext : /\ Completes(n, v, ext)
                       /\ Loaded(batch, v)
                       /\ Answers(batch, n, Apply(task[n].rep, n, ext).check)
<1> DEFINE u == task[n].art
           r == task[n].rep
           L == LiveIds(n)
<1>1. /\ n \in Nodes /\ n # Source /\ n \in DOMAIN task /\ task[n].state = "running"
  BY PipelineFacts DEF Run, JudgeSamples, Archive, Free, RunRaises, InState
<1>2. IsUnion(u) /\ IsReport(r)
  BY <1>1 DEF IInv, TypeOK, IsTask
<1>3. View(n, Ancestors[n], u, r, arts, reps) /\ Loaded(batch, u)
  BY <1>1 DEF Flow, WorkedOn, Judging
<1>4. FoundBy(Ancestors[n], r) /\ Fresh(r) /\ n \notin Ancestors[n]
  BY <1>1, <1>3 DEF View, IInv, Partition, Places
<1>5. L = Living(batch, n, r)
  BY <1>1, <1>2, <1>3, <1>4, LiveIdsFacts
<1> HIDE DEF L, u, r
<1>6. ASSUME NEW name, NEW ext, DOMAIN ext.checks = L \X {name}
      PROVE  AskedThem(batch, n, name, ext, Apply(r, n, ext))
  BY <1>1, <1>4, <1>5, <1>6, AsksLiving DEF Gave
<1>7. ASSUME NEW ext, DOMAIN ext.checks = {}, Kind[n] # "sample"
      PROVE  Answers(batch, n, Apply(r, n, ext).check)
  <2> DEFINE q == Apply(r, n, ext)
  <2>1. Gave(n, r, {}, "check", ext, q)
    BY <1>7 DEF Gave
  <2> HIDE DEF q
  <2>2. Recorded(n, r, {}, "check", ext, q)
    BY <1>1, <1>4, <2>1, OwnChecks
  <2>3. Job!RecordedBy(q.check, n) = {}
    BY <2>2 DEF Recorded
  <2> QED BY <1>1, <1>7, <2>3 DEF Answers, q
<1>8. CASE JudgeSamples(n)
  <2>1. PICK w \in [L -> Verdicts] :
          LET made == {<<n, s>> : s \in {s \in L : w[s] # "error"}}
          IN  Completes(n, Extended(u, [k \in made |-> Raw(n, batch)]),
                [checks  |-> [k \in L \X {"check"} |-> w[k[1]]],
                 summary |-> {}])
    BY <1>8 DEF JudgeSamples, L, u
  <2> DEFINE made == {<<n, s>> : s \in {s \in L : w[s] # "error"}}
             new == [k \in made |-> Raw(n, batch)]
             ext == [checks |-> [k \in L \X {"check"} |-> w[k[1]]], summary |-> {}]
             v == Extended(u, new)
             q == Apply(r, n, ext)
  <2>2. Completes(n, v, ext) /\ Kind[n] = "sample"
    BY <1>8, <2>1 DEF JudgeSamples
  <2>3. \A k \in DOMAIN new : new[k].kind # "batch" /\ k # BatchKey
    BY <1>1 DEF Raw, BatchKey
  <2>4. DOMAIN ext.checks = L \X {"check"}
    OBVIOUS
  <2> HIDE DEF new, ext
  <2>5. Loaded(batch, v)
    BY <1>2, <1>3, <2>3, ExtendedLoaded DEF IsUnion
  <2>6. AskedThem(batch, n, "check", ext, q)
    BY <1>6, <2>4
  <2> HIDE DEF v, q
  <2>7. /\ Job!Works(batch, q.check, n)
        /\ \A k \in Job!RecordedBy(q.check, n) : k[1] \in Batches[batch].samples
    BY <2>6 DEF AskedThem, Job!Works
  <2>8. Answers(batch, n, q.check)
    BY <1>1, <2>2, <2>7 DEF Answers
  <2> QED BY <2>2, <2>5, <2>8 DEF q, r
<1>9. CASE Archive(n)
  <2> DEFINE v == WithMutations(u, [k \in Matched(n) |-> Handle(n)], {})
  <2>1. Completes(n, v, EmptyExt) /\ Kind[n] = "archive"
    BY <1>9 DEF Archive, u
  <2>2. BatchKey \notin Matched(n) /\ Handle(n).kind # "batch"
    BY <1>1, <2>1 DEF BatchIsKept, Matched, Handle
  <2>3. Loaded(batch, v)
    BY <1>3, <2>2, MutatedLoaded
  <2>4. DOMAIN EmptyExt.checks = {}
    BY EmptyDomain DEF EmptyExt
  <2>5. Answers(batch, n, Apply(r, n, EmptyExt).check)
    BY <1>7, <2>1, <2>4
  <2> HIDE DEF v
  <2> QED BY <2>1, <2>3, <2>5 DEF r
<1>10. CASE Free(n)
  <2> DEFINE v == WithMutations(u, EmptyMap, Matched(n))
             nothing == [k \in {} |-> Handle(n)]
  <2>1. Completes(n, v, EmptyExt) /\ Kind[n] = "free"
    BY <1>10 DEF Free, u
  <2>2. BatchKey \notin Matched(n) /\ Handle(n).kind # "batch"
    BY <1>1, <2>1 DEF BatchIsKept, Matched, Handle
  <2>3. EmptyMap = nothing
    BY DEF EmptyMap
  <2>4. Loaded(batch, WithMutations(u, nothing, Matched(n)))
    BY <1>3, <2>2, MutatedLoaded
  <2> HIDE DEF nothing
  <2>5. Loaded(batch, v)
    BY <2>3, <2>4
  <2>6. DOMAIN EmptyExt.checks = {}
    BY EmptyDomain DEF EmptyExt
  <2>7. Answers(batch, n, Apply(r, n, EmptyExt).check)
    BY <1>7, <2>1, <2>6
  <2> HIDE DEF v
  <2> QED BY <2>1, <2>5, <2>7 DEF r
<1>11. CASE RunRaises(n)
  <2> DEFINE ext == [checks |-> [k \in L \X {"error"} |-> "error"], summary |-> {}]
             q == Apply(r, n, ext)
  <2>1. Completes(n, u, ext)
    BY <1>11 DEF RunRaises, u, L
  <2>2. DOMAIN ext.checks = L \X {"error"} /\ \A k \in DOMAIN ext.checks : ext.checks[k] = "error"
    OBVIOUS
  <2> HIDE DEF ext
  <2>3. AskedThem(batch, n, "error", ext, q)
    BY <1>6, <2>2
  <2> HIDE DEF q
  <2>4. /\ Job!Breaks(batch, q.check, n)
        /\ \A k \in Job!RecordedBy(q.check, n) : k[1] \in Batches[batch].samples
    BY <2>2, <2>3 DEF AskedThem, Job!Breaks
  <2>5. Answers(batch, n, q.check)
    BY <1>1, <2>4 DEF Answers
  <2> QED BY <1>3, <2>1, <2>5 DEF q, r
<1> QED BY <1>8, <1>9, <1>10, <1>11 DEF Run

LEMMA RunJudging ==
    ASSUME BatchIsKept, IInv, Flow, Judging, NEW n \in Downstream, Run(n)
    PROVE  Judging'
<1>1. /\ n \in InState("running") /\ n \in DOMAIN task
      /\ arts' = arts /\ reps' = reps /\ phase' = phase /\ batch' = batch
  BY DEF Run, JudgeSamples, Archive, Free, RunRaises, InState, Completes
<1>2. CASE phase # "dag"
  BY <1>1, <1>2 DEF Judging
<1>3. CASE phase = "dag"
  <2>1. PICK v, ext : /\ Completes(n, v, ext)
                      /\ Loaded(batch, v)
                      /\ Answers(batch, n, Apply(task[n].rep, n, ext).check)
    BY <1>3, RunAnswers
  <2> DEFINE r == Apply(task[n].rep, n, ext)
  <2>2. task' = [task EXCEPT ![n] = [state |-> "finished", art |-> v, rep |-> r]]
    BY <2>1 DEF Completes
  <2>3. Answers(batch, n, r.check)
    BY <2>1
  <2> HIDE DEF r
  <2>4. /\ DOMAIN task' = DOMAIN task
        /\ \A m \in DOMAIN task : m # n => task'[m] = task[m]
        /\ task'[n] = [state |-> "finished", art |-> v, rep |-> r]
    BY <1>1, <2>2
  <2> QED BY <1>1, <1>3, <2>1, <2>3, <2>4 DEF Judging
<1> QED BY <1>2, <1>3

LEMMA JudgingStep ==
    ASSUME BatchIsKept, IInv, Flow, Judging, [Next]_vars
    PROVE  Judging'
<1>1. CASE NextBatch
  BY <1>1, NextBatchJudging
<1>2. ASSUME NEW n \in Downstream, Submit(n) PROVE Judging'
  BY <1>2, SubmitJudging
<1>3. ASSUME NEW D \in SUBSET Downstream, Fold(D) PROVE Judging'
  BY <1>3, FoldJudging
<1>4. CASE MergeBatch
  <2>1. phase' # "dag"
    BY <1>4 DEF MergeBatch
  <2> QED BY <2>1 DEF Judging
<1>5. CASE Start
  BY <1>5, StartJudging
<1>6. ASSUME NEW n \in Downstream, Run(n) PROVE Judging'
  BY <1>6, RunJudging
<1>7. CASE UNCHANGED vars
  BY <1>7 DEF vars, Judging
<1>8. CASE \/ SourceExhausted \/ SourceRaises \/ Unwound \/ Digest \/ DigestRaises
           \/ Stamp \/ Commit \/ CommitRaises \/ JobFinished
  <2>1. phase' # "dag"
    BY <1>8 DEF SourceExhausted, SourceRaises, EnterReduce, Unwound, Digest, DigestRaises,
            Stamp, Commit, CommitRaises, JobFinished
  <2> QED BY <2>1 DEF Judging
<1> QED BY <1>1, <1>2, <1>3, <1>4, <1>5, <1>6, <1>7, <1>8 DEF Next, Driver, Ended

-----------------------------------------------------------------------------
(* The merge judges the batch *)

\* What the leaves of a finished batch found is a judgement of that batch.
LEMMA LeavesJudge ==
    ASSUME IInv, Flow, Judging, phase = "dag", pending = {}, task = EmptyMap,
           ~JoinConflict(LeafUnions)
    PROVE  Job!IsJudgement(batch, MergeAll(LeafReports).check)
<1> DEFINE M == MergeAll(LeafReports)
           v == M.check
           b == Batches[batch]
<1>1. /\ DOMAIN arts = Nodes /\ FoundBy(Nodes, M)
      /\ \A n \in Nodes : Agree(n, reps[n], M)
  BY LeavesHold
<1>2. batch \in 1 .. Len(Batches)
  BY DEF IInv, TypeOK
<1> HIDE DEF M
<1>3. ASSUME NEW n \in Nodes PROVE Answers(batch, n, v)
  <2>1. Answers(batch, n, reps[n].check) /\ View(n, Above(n), arts[n], reps[n], arts, reps)
    BY <1>1 DEF Judging, Flow
  <2>2. ASSUME NEW a \in Above(n) PROVE Agree(a, reps[n], M)
    <3>1. a \in Nodes /\ Agree(a, reps[a], M)
      BY <1>1, <2>2, AncestorFacts DEF Above
    <3>2. CASE a = n
      BY <3>1, <3>2
    <3>3. CASE a \in Ancestors[n]
      <4>1. Agree(a, reps[a], reps[n])
        BY <2>1, <3>3 DEF View
      <4> QED BY <3>1, <4>1 DEF Agree
    <3> QED BY <2>2, <3>2, <3>3 DEF Above
  <2> QED BY <2>1, <2>2, AnswersCarry
<1>4. Source \in Nodes /\ Kind[Source] = "source"
  BY PipelineFacts
<1>5. \A k \in DOMAIN v : k[2] \in Nodes
  BY <1>1 DEF FoundBy
<1> HIDE DEF v
<1>6. /\ Job!RecordedBy(v, Source) = {<<s, Source, "enumerate">> : s \in DOMAIN b.findings}
      /\ \A s \in DOMAIN b.findings : v[<<s, Source, "enumerate">>] = b.findings[s]
  BY <1>3, <1>4 DEF Answers
<1>7. \A n \in Nodes : \A k \in Job!RecordedBy(v, n) :
         k[1] \in IF n = Source THEN DOMAIN b.findings ELSE b.samples
  BY <1>3, <1>6 DEF Answers
<1>8. \A k \in DOMAIN v : k[1] \in IF k[2] = Source THEN DOMAIN b.findings ELSE b.samples
  BY <1>5, <1>7 DEF Job!RecordedBy
<1>9. \A s \in DOMAIN b.findings : /\ <<s, Source, "enumerate">> \in DOMAIN v
                                   /\ v[<<s, Source, "enumerate">>] = b.findings[s]
  BY <1>6 DEF Job!RecordedBy
<1>10. Job!Cardinality(Job!RecordedBy(v, Source)) = Job!Cardinality(DOMAIN b.findings)
  <2> DEFINE D == DOMAIN b.findings
             T == {<<s, Source, "enumerate">> : s \in D}
             f == [s \in D |-> <<s, Source, "enumerate">>]
  <2>1. IsFiniteSet(D)
    <3>1. D \subseteq SampleIds /\ IsFiniteSet(SampleIds)
      BY <1>2, BatchFacts, JobAssumption DEF IsMap
    <3> QED BY <3>1, FS_Subset
  <2>2. f \in Bijection(D, T)
    <3>1. f \in [D -> T] /\ \A t \in T : \E s \in D : f[s] = t
      OBVIOUS
    <3>2. \A s, t \in D : f[s] = f[t] => s = t
      OBVIOUS
    <3> HIDE DEF D, T, f
    <3> QED BY <3>1, <3>2 DEF Bijection, Injection, Surjection, IsInjective
  <2> HIDE DEF D, T, f
  <2>3. Cardinality(T) = Cardinality(D)
    BY <2>1, <2>2, FS_Bijection DEF ExistsBijection
  <2> QED BY <1>6, <2>3, SameOperators DEF D, T
<1>11. \A n \in {m \in Nodes : Kind[m] = "sample"} :
          Job!Works(batch, v, n) \/ Job!Breaks(batch, v, n)
  BY <1>3, <1>4 DEF Answers
<1>12. \A n \in DOMAIN Ancestors \ ({m \in Nodes : Kind[m] = "sample"} \cup {Source}) :
          Job!RecordedBy(v, n) = {} \/ Job!Breaks(batch, v, n)
  BY <1>3 DEF Answers, Ancestors
<1>13. Job!IsJudgement(batch, v)
  BY <1>8, <1>9, <1>10, <1>11, <1>12 DEF Job!IsJudgement
<1> QED BY <1>13 DEF v, M
-----------------------------------------------------------------------------
(* What a batch is about *)

\* No Batch but b's is in u, and the checks of r are about samples of b.
OfBatch(b, u, r) == /\ \A k \in BatchKeys(u) : u.data[k] = BatchObject(b)
                    /\ \A k \in DOMAIN r.check : k[1] \in Ids(b)

\* While a batch runs, its nodes see no other batch.
Timely == phase = "dag" =>
    /\ \A n \in DOMAIN arts : OfBatch(batch, arts[n], reps[n])
    /\ \A n \in DOMAIN task : OfBatch(batch, task[n].art, task[n].rep)

LEMMA JoinOfBatch ==
    ASSUME NEW b, NEW N \in Nat, NEW us, NEW rs, DOMAIN us \subseteq 0 .. N, DOMAIN rs = DOMAIN us,
           \A i \in DOMAIN us : OfBatch(b, us[i], rs[i])
    PROVE  OfBatch(b, JoinAll(us), MergeAll(rs))
<1>1. ASSUME NEW k \in BatchKeys(JoinAll(us)) PROVE JoinAll(us).data[k] = BatchObject(b)
  <2>1. PICK i \in DOMAIN us : k \in DOMAIN us[i].data /\ JoinAll(us).data[k] = us[i].data[k]
    BY JoinAllOrigin DEF BatchKeys
  <2>2. k \in BatchKeys(us[i])
    BY <2>1 DEF BatchKeys
  <2> QED BY <2>1, <2>2 DEF OfBatch
<1>2. ASSUME NEW k \in DOMAIN MergeAll(rs).check PROVE k[1] \in Ids(b)
  <2>1. PICK i \in DOMAIN rs : k \in DOMAIN rs[i].check
    BY MergeAllCheck
  <2> QED BY <2>1 DEF OfBatch
<1> QED BY <1>1, <1>2 DEF OfBatch

\* A kernel adds no Batch, and speaks about the samples of the one it has.
LEMMA ResultOfBatch ==
    ASSUME NEW n \in DOMAIN task, OfBatch(batch, task[n].art, task[n].rep),
           NEW v, \A k \in BatchKeys(v) : k \in BatchKeys(task[n].art) /\ v.data[k] = task[n].art.data[k],
           NEW ext, \A k \in DOMAIN ext.checks : k[1] \in LiveIds(n)
    PROVE  OfBatch(batch, v, Apply(task[n].rep, n, ext))
<1> DEFINE u == task[n].art
           r == task[n].rep
           q == Apply(r, n, ext)
<1>1. LiveIds(n) \subseteq Batches[batch].samples
  <2>1. CASE ~HasBatch(u)
    BY <2>1 DEF LiveIds
  <2>2. CASE HasBatch(u)
    <3>1. (CHOOSE k \in BatchKeys(u) : TRUE) \in BatchKeys(u)
      BY <2>2 DEF HasBatch
    <3>2. FindBatch(u) = BatchObject(batch)
      BY <3>1 DEF FindBatch, OfBatch
    <3>3. FindBatch(u).batch = batch
      BY <3>2 DEF BatchObject
    <3> QED BY <2>2, <3>3 DEF LiveIds
  <2> QED BY <2>1, <2>2
<1>2. DOMAIN q.check = DOMAIN r.check \cup {<<k[1], n, k[2]>> : k \in DOMAIN ext.checks}
  <2>1. DOMAIN q.check = DOMAIN r.check \cup DOMAIN Namespaced(n, ext)
    BY ApplyCheck
  <2>2. DOMAIN Namespaced(n, ext) = {<<k[1], n, k[2]>> : k \in DOMAIN ext.checks}
    BY DEF Namespaced
  <2> QED BY <2>1, <2>2
<1> HIDE DEF u, r, q
<1>3. \A k \in DOMAIN r.check : k[1] \in Ids(batch)
  BY DEF OfBatch, r
<1>4. \A k \in DOMAIN ext.checks : k[1] \in Ids(batch)
  BY <1>1 DEF Ids
<1>5. \A k \in DOMAIN q.check : k[1] \in Ids(batch)
  BY <1>2, <1>3, <1>4
<1>6. \A k \in BatchKeys(v) : v.data[k] = BatchObject(batch)
  BY DEF OfBatch
<1> QED BY <1>5, <1>6 DEF OfBatch, q, r

LEMMA RunOfBatch ==
    ASSUME NEW n \in Downstream, Run(n), OfBatch(batch, task[n].art, task[n].rep)
    PROVE  \E v, ext : /\ Completes(n, v, ext)
                       /\ OfBatch(batch, v, Apply(task[n].rep, n, ext))
<1> DEFINE u == task[n].art
           L == LiveIds(n)
<1>0. n \in DOMAIN task
  BY DEF Run, JudgeSamples, Archive, Free, RunRaises, InState
<1>1. CASE JudgeSamples(n)
  <2>1. PICK w \in [L -> Verdicts] :
          LET made == {<<n, s>> : s \in {s \in L : w[s] # "error"}}
          IN  Completes(n, Extended(u, [k \in made |-> Raw(n, batch)]),
                [checks  |-> [k \in L \X {"check"} |-> w[k[1]]],
                 summary |-> {}])
    BY <1>1 DEF JudgeSamples
  <2> DEFINE made == {<<n, s>> : s \in {s \in L : w[s] # "error"}}
             new == [k \in made |-> Raw(n, batch)]
             ext == [checks |-> [k \in L \X {"check"} |-> w[k[1]]], summary |-> {}]
             d == Override(u.data, new)
             v == Extended(u, new)
  <2>2. Completes(n, v, ext)
    BY <2>1
  <2>3. \A k \in DOMAIN new : new[k].kind = "raw"
    BY DEF Raw
  <2>4. \A k \in DOMAIN ext.checks : k[1] \in L
    OBVIOUS
  <2>5. \A k \in BatchKeys(v) : k \in BatchKeys(u) /\ v.data[k] = u.data[k]
    <3>1. v.data = d \/ v.data = u.data
      BY DEF Extended
    <3>2. /\ DOMAIN d = DOMAIN u.data \cup DOMAIN new
          /\ \A k \in DOMAIN d : d[k] = IF k \in DOMAIN new THEN new[k] ELSE u.data[k]
      BY DEF Override
    <3> HIDE DEF d, new, v, u
    <3> QED BY <2>3, <3>1, <3>2 DEF BatchKeys
  <2> HIDE DEF v, ext, L
  <2>6. OfBatch(batch, v, Apply(task[n].rep, n, ext))
    BY <1>0, <2>4, <2>5, ResultOfBatch DEF L
  <2> QED BY <2>2, <2>6
<1>2. ASSUME NEW h, h.kind # "batch", NEW M, NEW D,
             Completes(n, WithMutations(u, [k \in M |-> h], D), EmptyExt)
      PROVE  \E v, ext : Completes(n, v, ext) /\ OfBatch(batch, v, Apply(task[n].rep, n, ext))
  <2> DEFINE e == [k \in M |-> h]
             d == Without(Override(u.data, e), D)
             v == WithMutations(u, e, D)
  <2>1. v.data = d
    BY DEF WithMutations
  <2>2. /\ DOMAIN d = (DOMAIN u.data \cup M) \ D
        /\ \A k \in DOMAIN d : d[k] = IF k \in M THEN h ELSE u.data[k]
    BY DEF Without, Restrict, Override
  <2>3. Completes(n, v, EmptyExt)
    BY <1>2
  <2> HIDE DEF d, v, u
  <2>4. \A k \in BatchKeys(v) : k \in BatchKeys(u) /\ v.data[k] = u.data[k]
    BY <1>2, <2>1, <2>2 DEF BatchKeys
  <2>5. DOMAIN EmptyExt.checks = {}
    BY EmptyDomain DEF EmptyExt
  <2>6. OfBatch(batch, v, Apply(task[n].rep, n, EmptyExt))
    BY <1>0, <2>4, <2>5, ResultOfBatch DEF u
  <2> QED BY <2>3, <2>6
<1>3. Handle(n).kind # "batch"
  BY DEF Handle
<1>4. CASE Archive(n)
  <2>1. Completes(n, WithMutations(u, [k \in Matched(n) |-> Handle(n)], {}), EmptyExt)
    BY <1>4 DEF Archive
  <2> QED BY <1>2, <1>3, <2>1
<1>5. CASE Free(n)
  <2>1. Completes(n, WithMutations(u, EmptyMap, Matched(n)), EmptyExt)
    BY <1>5 DEF Free
  <2> DEFINE v == WithMutations(u, EmptyMap, Matched(n))
  <2>2. v.data = Without(Override(u.data, EmptyMap), Matched(n))
    BY DEF WithMutations
  <2>3. /\ DOMAIN v.data = DOMAIN u.data \ Matched(n)
        /\ \A k \in DOMAIN v.data : v.data[k] = u.data[k]
    BY <2>2, EmptyDomain DEF Without, Restrict, Override
  <2> HIDE DEF v, u
  <2>4. \A k \in BatchKeys(v) : k \in BatchKeys(u) /\ v.data[k] = u.data[k]
    BY <2>3 DEF BatchKeys
  <2>5. DOMAIN EmptyExt.checks = {}
    BY EmptyDomain DEF EmptyExt
  <2>6. OfBatch(batch, v, Apply(task[n].rep, n, EmptyExt))
    BY <1>0, <2>4, <2>5, ResultOfBatch DEF u
  <2> QED BY <2>1, <2>6 DEF v
<1>6. CASE RunRaises(n)
  <2> DEFINE ext == [checks |-> [k \in L \X {"error"} |-> "error"], summary |-> {}]
  <2>1. Completes(n, u, ext)
    BY <1>6 DEF RunRaises
  <2>2. \A k \in DOMAIN ext.checks : k[1] \in L
    OBVIOUS
  <2> HIDE DEF ext, L
  <2>3. OfBatch(batch, u, Apply(task[n].rep, n, ext))
    BY <1>0, <2>2, ResultOfBatch DEF L
  <2> QED BY <2>1, <2>3
<1> QED BY <1>1, <1>4, <1>5, <1>6 DEF Run

LEMMA NextBatchTimely == ASSUME NextBatch PROVE Timely'
<1> DEFINE b == batch + 1
           findings == Batches[b].findings
           ext == [checks |-> [k \in (DOMAIN findings) \X {"enumerate"} |-> findings[k[1]]],
                   summary |-> {}]
           new == [k \in {BatchKey} |-> BatchObject(b)]
           u == Extended(EmptyUnion, new)
           r == Apply(EmptyReport, Source, ext)
<1>1. /\ batch' = b /\ task' = EmptyMap
      /\ arts' = [n \in {Source} |-> u] /\ reps' = [n \in {Source} |-> r]
  BY DEF NextBatch
<1>2. \A k \in BatchKeys(u) : u.data[k] = BatchObject(b)
  <2>1. u.data = Override(EmptyMap, new)
    BY DEF Extended, EmptyUnion
  <2>2. DOMAIN u.data = {BatchKey} /\ u.data[BatchKey] = BatchObject(b)
    BY <2>1, EmptyDomain DEF Override
  <2> HIDE DEF u
  <2> QED BY <2>2 DEF BatchKeys
<1>3. \A k \in DOMAIN r.check : k[1] \in Ids(b)
  <2>1. \A k \in DOMAIN ext.checks : k[1] \in Ids(b)
    BY DEF Ids
  <2> HIDE DEF ext
  <2>2. DOMAIN r.check = {<<k[1], Source, k[2]>> : k \in DOMAIN ext.checks}
    <3>1. DOMAIN r.check = DOMAIN EmptyReport.check \cup DOMAIN Namespaced(Source, ext)
      BY ApplyCheck
    <3>2. DOMAIN Namespaced(Source, ext) = {<<k[1], Source, k[2]>> : k \in DOMAIN ext.checks}
      BY NamespacedDomain
    <3> QED BY <3>1, <3>2, EmptyIsFresh
  <2> QED BY <2>1, <2>2
<1> HIDE DEF b, u, r
<1>4. OfBatch(b, u, r)
  BY <1>2, <1>3 DEF OfBatch
<1>5. /\ \A n \in DOMAIN arts' : n = Source /\ arts'[n] = u /\ reps'[n] = r
      /\ DOMAIN task' = {}
  BY <1>1, EmptyDomain
<1>6. /\ \A n \in DOMAIN arts' : OfBatch(batch', arts'[n], reps'[n])
      /\ \A n \in DOMAIN task' : OfBatch(batch', task'[n].art, task'[n].rep)
  BY <1>1, <1>4, <1>5
<1> QED BY <1>6 DEF Timely, OfBatch, BatchKeys, BatchObject, Ids

LEMMA TimelyStep == ASSUME IInv, Timely, [Next]_vars PROVE Timely'
<1>1. CASE NextBatch
  BY <1>1, NextBatchTimely
<1>2. ASSUME NEW n \in Downstream, Submit(n), ~JoinConflict(InputUnions(n)) PROVE Timely'
  <2> DEFINE us == InputUnions(n)
             rs == InputReports(n)
             new == [state |-> "queued", art |-> JoinAll(us), rep |-> MergeAll(rs)]
  <2>1. /\ n \in Nodes /\ phase = "dag" /\ InputsOf(n) \subseteq DOMAIN arts
        /\ arts' = arts /\ reps' = reps /\ batch' = batch
        /\ task' = Override(task, [m \in {n} |-> new])
    BY <1>2 DEF Submit, Ready, Downstream
  <2>2. DOMAIN us \subseteq 0 .. Len(Inputs[n]) /\ Len(Inputs[n]) \in Nat /\ DOMAIN rs = DOMAIN us
    BY <2>1, PipelineFacts DEF InputUnions, InputReports
  <2>3. \A i \in DOMAIN us : OfBatch(batch, us[i], rs[i])
    <3>1. \A i \in DOMAIN us : Inputs[n][i] \in DOMAIN arts /\ us[i] = arts[Inputs[n][i]]
                               /\ rs[i] = reps[Inputs[n][i]]
      BY <2>1, PipelineFacts DEF InputUnions, InputReports
    <3> QED BY <2>1, <3>1 DEF Timely
  <2>4. new.art = JoinAll(us) /\ new.rep = MergeAll(rs)
    OBVIOUS
  <2> HIDE DEF us, rs, new
  <2>5. OfBatch(batch, JoinAll(us), MergeAll(rs))
    BY <2>2, <2>3, JoinOfBatch
  <2>6. /\ DOMAIN task' = DOMAIN task \cup {n} /\ task'[n] = new
        /\ \A m \in DOMAIN task' : m # n => m \in DOMAIN task /\ task'[m] = task[m]
    BY <2>1 DEF Override
  <2>7. /\ \A m \in DOMAIN arts' : OfBatch(batch', arts'[m], reps'[m])
        /\ \A m \in DOMAIN task' : OfBatch(batch', task'[m].art, task'[m].rep)
    BY <2>1, <2>4, <2>5, <2>6 DEF Timely
  <2> QED BY <2>7 DEF Timely, OfBatch, BatchKeys, BatchObject, Ids
<1>3. ASSUME NEW D \in SUBSET Downstream, Fold(D) PROVE Timely'
  <2>1. /\ phase = "dag" /\ batch' = batch /\ D \subseteq DOMAIN task
    BY <1>3 DEF Fold, InState
  <2>2. DOMAIN task \cap DOMAIN arts = {} /\ DOMAIN reps = DOMAIN arts
    BY <2>1 DEF IInv, Partition, Places
  <2>3. /\ DOMAIN arts' = DOMAIN arts \cup D
        /\ \A n \in D : arts'[n] = task[n].art /\ reps'[n] = task[n].rep
        /\ \A n \in DOMAIN arts : arts'[n] = arts[n] /\ reps'[n] = reps[n]
    BY <1>3, <2>1, <2>2 DEF Fold, Override
  <2>4. DOMAIN task' \subseteq DOMAIN task /\ \A n \in DOMAIN task' : task'[n] = task[n]
    BY <1>3 DEF Fold, Without, Restrict
  <2>5. /\ \A m \in DOMAIN arts' : OfBatch(batch', arts'[m], reps'[m])
        /\ \A m \in DOMAIN task' : OfBatch(batch', task'[m].art, task'[m].rep)
    BY <2>1, <2>3, <2>4 DEF Timely
  <2> QED BY <2>5 DEF Timely, OfBatch, BatchKeys, BatchObject, Ids
<1>4. CASE Start
  <2>1. /\ arts' = arts /\ reps' = reps /\ phase' = phase /\ batch' = batch
        /\ task' = [task EXCEPT ![Head(queue)].state = "running"]
    BY <1>4 DEF Start
  <2>2. \A m \in DOMAIN task : IsTask(task[m])
    BY DEF IInv, TypeOK
  <2>3. /\ DOMAIN task' = DOMAIN task
        /\ \A m \in DOMAIN task : task'[m].art = task[m].art /\ task'[m].rep = task[m].rep
    BY <2>1, <2>2 DEF IsTask
  <2> QED BY <2>1, <2>3 DEF Timely, OfBatch, BatchKeys, BatchObject, Ids
<1>5. ASSUME NEW n \in Downstream, Run(n), phase = "dag" PROVE Timely'
  <2>1. n \in DOMAIN task
    BY <1>5 DEF Run, JudgeSamples, Archive, Free, RunRaises, InState
  <2>2. PICK v, ext : /\ Completes(n, v, ext)
                      /\ OfBatch(batch, v, Apply(task[n].rep, n, ext))
    BY <1>5, <2>1, RunOfBatch DEF Timely
  <2> DEFINE r == Apply(task[n].rep, n, ext)
  <2>3. /\ task' = [task EXCEPT ![n] = [state |-> "finished", art |-> v, rep |-> r]]
        /\ arts' = arts /\ reps' = reps /\ batch' = batch
    BY <2>2 DEF Completes
  <2>4. OfBatch(batch, v, r)
    BY <2>2
  <2> HIDE DEF r
  <2>5. /\ DOMAIN task' = DOMAIN task /\ task'[n].art = v /\ task'[n].rep = r
        /\ \A m \in DOMAIN task : m # n => task'[m] = task[m]
    BY <2>1, <2>3
  <2>6. /\ \A m \in DOMAIN arts' : OfBatch(batch', arts'[m], reps'[m])
        /\ \A m \in DOMAIN task' : OfBatch(batch', task'[m].art, task'[m].rep)
    BY <1>5, <2>3, <2>4, <2>5 DEF Timely
  <2> QED BY <2>6 DEF Timely, OfBatch, BatchKeys, BatchObject, Ids
<1>6. CASE UNCHANGED vars
  BY <1>6 DEF vars, Timely, OfBatch, BatchKeys, BatchObject, Ids
<1>7. CASE phase' # "dag"
  BY <1>7 DEF Timely
<1>8. CASE \/ MergeBatch \/ SourceExhausted \/ SourceRaises \/ Unwound \/ Digest \/ DigestRaises
           \/ Stamp \/ Commit \/ CommitRaises \/ JobFinished
  <2>1. phase' # "dag"
    BY <1>8 DEF MergeBatch, SourceExhausted, SourceRaises, EnterReduce, Unwound, Digest,
       DigestRaises, Stamp, Commit, CommitRaises, JobFinished
  <2> QED BY <1>7, <2>1
<1>9. \A n \in Downstream : Submit(n) /\ JoinConflict(InputUnions(n)) => phase' # "dag"
  BY DEF Submit
<1>10. \A n \in Downstream : Run(n) => phase' = phase
  BY DEF Run, JudgeSamples, Archive, Free, RunRaises, Completes
<1> QED BY <1>1, <1>2, <1>3, <1>4, <1>5, <1>6, <1>7, <1>8, <1>9, <1>10 DEF Next, Driver, Ended

-----------------------------------------------------------------------------
(* The record of the job *)

\* The documents node n writes.
DocumentsOf(n) == {n} \X Range(Documents[n])

\* A batch is in flight from the moment it is yielded until it is merged.
InFlight == /\ phase \in {"source", "reduce", "commit"} => arts = EmptyMap
            /\ phase \in {"dag", "unwind"} => Source \in DOMAIN arts

\* Nothing is written before the commit pass, which goes through Order.
InOrder ==
    /\ phase \in {"source", "dag", "unwind", "reduce"} => docs = EmptyMap
    /\ phase = "commit" => DOMAIN docs = UNION {DocumentsOf(Order[i]) : i \in 1 .. cursor - 1}

\* So does the digest; when it is through, the stamp counts the report.
Summed ==
    /\ phase = "reduce" => \A i \in 1 .. cursor - 1 :
          Order[i] \in Reduces => <<Order[i], "digest">> \in report.summary
    /\ phase = "commit" => /\ \A n \in Reduces : <<n, "digest">> \in report.summary
                           /\ stamp.n_batches = batch /\ stamp.counts = Counts(report)

\* The report is aggregated, and speaks about samples of the merged batches.
OfMergedBatches ==
    /\ Fresh(report)
    /\ \A k \in DOMAIN report.check : \E b \in 1 .. Merged : k[1] \in Ids(b)

\* No node of a batch writes a summary: that is left to the digest, and to the
\* source when it fails.
Silent == /\ \A n \in DOMAIN reps : reps[n].summary = {}
          /\ \A n \in DOMAIN task : task[n].rep.summary = {}

JobRecord == InFlight /\ InOrder /\ Summed /\ OfMergedBatches

LEMMA InitRecord == Init => JobRecord
<1> SUFFICES ASSUME Init PROVE JobRecord
  OBVIOUS
<1>1. phase = "source" /\ arts = EmptyMap /\ docs = EmptyMap /\ report = EmptyReport
  BY DEF Init
<1>2. OfMergedBatches
  BY <1>1, EmptyIsFresh DEF OfMergedBatches
<1> QED BY <1>1, <1>2 DEF JobRecord, InFlight, InOrder, Summed

\* What the merge of a finished batch adds to the report.
LEMMA MergeAdds ==
    ASSUME IInv, Flow, Timely, JobRecord, MergeBatch, ~MergeConflict
    PROVE  LET M == MergeAll(LeafReports)
           IN  /\ Fresh(M) /\ IsReport(M)
               /\ report' = Merge(report, M)
               /\ \A k \in DOMAIN M.check : k[1] \in Ids(batch)
               /\ batch \in 1 .. Len(Batches) /\ Merged = batch - 1
               /\ batch' = batch /\ Merged' = batch
<1> DEFINE M == MergeAll(LeafReports)
<1>1. /\ phase = "dag" /\ pending = {} /\ task = EmptyMap /\ ~JoinConflict(LeafUnions)
      /\ report' = Merge(report, M) /\ batch' = batch /\ arts' = EmptyMap
  BY DEF MergeBatch, MergeConflict
<1>2. Fresh(M) /\ IsReport(M)
  BY <1>1, LeavesHold, LeavesType
<1>3. ASSUME NEW k \in DOMAIN M.check PROVE k[1] \in Ids(batch)
  <2>1. DOMAIN LeafReports \subseteq 0 .. Len(Order) /\ Len(Order) \in Nat
    BY PipelineFacts DEF LeafReports, Leaves
  <2>2. PICK i \in DOMAIN LeafReports : k \in DOMAIN LeafReports[i].check
    BY <2>1, MergeAllCheck
  <2>3. DOMAIN arts = Nodes
    BY <1>1, EmptyDomain DEF IInv, Partition, Places
  <2>4. Order[i] \in DOMAIN arts /\ LeafReports[i] = reps[Order[i]]
    BY <2>3, PipelineFacts DEF LeafReports, Leaves
  <2> QED BY <1>1, <2>2, <2>4 DEF Timely, OfBatch
<1> HIDE DEF M
<1>4. batch \in 1 .. Len(Batches)
  BY <1>1, BatchFacts DEF IInv, TypeOK
<1>5. arts # EmptyMap
  BY <1>1, EmptyDomain DEF JobRecord, InFlight
<1>6. Merged = batch - 1 /\ Merged' = batch
  BY <1>1, <1>5 DEF Merged
<1> QED BY <1>1, <1>2, <1>3, <1>4, <1>6 DEF M

\* By DistinctIds that is new.
LEMMA MergeIsNew ==
    ASSUME DistinctIds, IInv, Flow, Timely, JobRecord, MergeBatch, ~MergeConflict
    PROVE  LET M == MergeAll(LeafReports)
           IN  /\ DOMAIN report.check \cap DOMAIN M.check = {}
               /\ DOMAIN report'.check = DOMAIN report.check \cup DOMAIN M.check
               /\ \A k \in DOMAIN M.check : report'.check[k] = M.check[k]
               /\ \A k \in DOMAIN report.check : report'.check[k] = report.check[k]
<1> DEFINE M == MergeAll(LeafReports)
<1>1. /\ report' = Merge(report, M)
      /\ \A k \in DOMAIN M.check : k[1] \in Ids(batch)
      /\ batch \in 1 .. Len(Batches) /\ Merged = batch - 1
  BY MergeAdds
<1> HIDE DEF M
<1>2. Len(Batches) \in Nat /\ DOMAIN Batches = 1 .. Len(Batches)
  BY JobAssumption, BatchFacts
<1>3. DOMAIN report.check \cap DOMAIN M.check = {}
  <2> SUFFICES ASSUME NEW k \in DOMAIN report.check, k \in DOMAIN M.check PROVE FALSE
    OBVIOUS
  <2>1. PICK b \in 1 .. Merged : k[1] \in Ids(b)
    BY DEF JobRecord, OfMergedBatches
  <2>2. b \in DOMAIN Batches /\ batch \in DOMAIN Batches /\ b # batch
    BY <1>1, <1>2, <2>1
  <2> QED BY <1>1, <2>1, <2>2 DEF DistinctIds
<1>4. report'.check = Override(report.check, M.check)
  BY <1>1 DEF Merge
<1> QED BY <1>3, <1>4 DEF Override, M

LEMMA MergeRecord ==
    ASSUME IInv, Flow, Timely, JobRecord, MergeBatch, ~MergeConflict
    PROVE  JobRecord'
<1> DEFINE M == MergeAll(LeafReports)
<1>1. /\ phase = "dag" /\ phase' = "source" /\ arts' = EmptyMap /\ docs' = docs
  BY DEF MergeBatch
<1>2. /\ Fresh(M) /\ report' = Merge(report, M)
      /\ \A k \in DOMAIN M.check : k[1] \in Ids(batch)
      /\ batch \in 1 .. Len(Batches) /\ Merged = batch - 1 /\ Merged' = batch
  BY MergeAdds
<1> HIDE DEF M
<1>3. Fresh(report')
  BY <1>2, MergeIsFresh DEF JobRecord, OfMergedBatches
<1>4. DOMAIN report'.check = DOMAIN report.check \cup DOMAIN M.check
  BY <1>2, OverrideDomain DEF Merge
<1>5. ASSUME NEW k \in DOMAIN report'.check PROVE \E b \in 1 .. Merged' : k[1] \in Ids(b)
  <2>1. Len(Batches) \in Nat
    BY BatchFacts
  <2>2. CASE k \in DOMAIN M.check
    BY <1>2, <2>1, <2>2
  <2>3. CASE k \in DOMAIN report.check
    <3>1. PICK b \in 1 .. Merged : k[1] \in Ids(b)
      BY <2>3 DEF JobRecord, OfMergedBatches
    <3>2. b \in 1 .. Merged'
      BY <1>2, <2>1, <3>1
    <3> QED BY <3>1, <3>2
  <2> QED BY <1>4, <2>2, <2>3
<1>6. OfMergedBatches'
  BY <1>3, <1>5 DEF OfMergedBatches, Ids
<1> QED BY <1>1, <1>6 DEF JobRecord, InFlight, InOrder, Summed

\* Steps that leave the report's checks, the batches and the unions alone.
LEMMA SameRecord ==
    ASSUME OfMergedBatches, Fresh(report'), report'.check = report.check,
           batch' = batch, arts' = arts
    PROVE  OfMergedBatches'
BY DEF OfMergedBatches, Merged, Ids

LEMMA NextBatchRecord == ASSUME IInv, JobRecord, NextBatch PROVE JobRecord'
<1>1. /\ phase = "source" /\ phase' = "dag" /\ batch' = batch + 1
      /\ report' = report /\ docs' = docs /\ DOMAIN arts' = {Source}
  BY DEF NextBatch
<1>2. arts = EmptyMap /\ arts' # EmptyMap
  BY <1>1, EmptyDomain DEF JobRecord, InFlight
<1>3. batch \in Int
  BY BatchFacts DEF IInv, TypeOK
<1>4. Merged' = Merged
  BY <1>1, <1>2, <1>3 DEF Merged
<1>5. OfMergedBatches'
  BY <1>1, <1>4 DEF JobRecord, OfMergedBatches, Ids
<1> QED BY <1>1, <1>5 DEF JobRecord, InFlight, InOrder, Summed

LEMMA SourceRaisesRecord == ASSUME IInv, JobRecord, SourceRaises PROVE JobRecord'
<1>1. /\ phase = "source" /\ phase' = "reduce" /\ cursor' = 1
      /\ batch' = batch /\ arts' = arts /\ docs' = docs
      /\ report' = [report EXCEPT !.summary = @ \cup {<<Source, "source_error">>}]
  BY DEF SourceRaises, EnterReduce, dagVars
<1>2. report = [check |-> report.check, status |-> report.status, summary |-> report.summary]
  BY DEF IInv, TypeOK, IsReport
<1>3. report'.check = report.check /\ report'.status = report.status
  BY <1>1, <1>2
<1>4. Fresh(report')
  BY <1>3 DEF JobRecord, OfMergedBatches, Fresh
<1>5. OfMergedBatches'
  BY <1>1, <1>3, <1>4, SameRecord DEF JobRecord
<1>6. 1 .. cursor' - 1 = {}
  BY <1>1
<1> QED BY <1>1, <1>5, <1>6 DEF JobRecord, InFlight, InOrder, Summed

\* digest() adds to the summaries, and to nothing else.
LEMMA DigestAdds ==
    ASSUME IInv, Digest
    PROVE  /\ report'.check = report.check
           /\ report.summary \subseteq report'.summary
           /\ IF NodeAt \in Reduces
              THEN report'.summary = report.summary \cup {<<NodeAt, "digest">>}
              ELSE report' = report
<1> DEFINE ext == [EmptyExt EXCEPT !.summary = {"digest"}]
<1>1. CASE NodeAt \notin Reduces
  BY <1>1 DEF Digest
<1>2. CASE NodeAt \in Reduces
  <2>1. ext.checks = EmptyMap /\ ext.summary = {"digest"}
    BY DEF EmptyExt
  <2>2. report' = Apply(report, NodeAt, ext)
    BY <1>2 DEF Digest
  <2> HIDE DEF ext
  <2>3. DOMAIN Namespaced(NodeAt, ext) = {}
    <3>1. DOMAIN ext.checks = {}
      BY <2>1, EmptyDomain
    <3>2. DOMAIN Namespaced(NodeAt, ext) = {<<k[1], NodeAt, k[2]>> : k \in DOMAIN ext.checks}
      BY NamespacedDomain
    <3> QED BY <3>1, <3>2
  <2>4. IsMap(report.check, CheckKeys, Statuses)
    BY DEF IInv, TypeOK, IsReport
  <2>5. Override(report.check, Namespaced(NodeAt, ext)) = report.check
    BY <2>3, <2>4 DEF Override, IsMap
  <2>6. report'.check = report.check
    BY <2>2, <2>5 DEF Apply
  <2>7. report'.summary = report.summary \cup {<<NodeAt, "digest">>}
    BY <2>1, <2>2 DEF Apply
  <2> QED BY <1>2, <2>6, <2>7
<1> QED BY <1>1, <1>2

LEMMA DigestRecord == ASSUME IInv, JobRecord, Digest PROVE JobRecord'
<1>1. /\ phase = "reduce" /\ phase' = phase /\ cursor \in DOMAIN Order /\ cursor' = cursor + 1
      /\ batch' = batch /\ arts' = arts /\ docs' = docs
  BY DEF Digest, dagVars
<1>2. Fresh(report')
  BY ApplyIsFresh DEF Digest, JobRecord, OfMergedBatches
<1>3. OfMergedBatches'
  BY <1>1, <1>2, DigestAdds, SameRecord DEF JobRecord
<1>4. ASSUME NEW i \in 1 .. cursor' - 1, Order[i] \in Reduces
      PROVE  <<Order[i], "digest">> \in report'.summary
  <2>1. cursor \in Int
    BY <1>1, PipelineFacts
  <2>2. CASE i = cursor
    BY <1>4, <2>2, DigestAdds DEF NodeAt
  <2>3. CASE i # cursor
    <3>1. i \in 1 .. cursor - 1
      BY <1>1, <2>1, <2>3
    <3> QED BY <1>1, <1>4, <3>1, DigestAdds DEF JobRecord, Summed
  <2> QED BY <2>2, <2>3
<1> QED BY <1>1, <1>3, <1>4 DEF JobRecord, InFlight, InOrder, Summed

\* The digest pass has been through every node.
LEMMA StampRecord == ASSUME IInv, JobRecord, Stamp PROVE JobRecord'
<1>1. /\ phase = "reduce" /\ phase' = "commit" /\ cursor \notin DOMAIN Order /\ cursor' = 1
      /\ batch' = batch /\ arts' = arts /\ docs' = docs /\ report' = report
      /\ stamp'.n_batches = batch /\ stamp'.counts = Counts(report)
  BY DEF Stamp, dagVars
<1>2. ASSUME NEW n \in Reduces PROVE <<n, "digest">> \in report.summary
  <2>1. PICK i \in DOMAIN Order : Order[i] = n
    BY JobAssumption DEF Nodes
  <2>2. cursor \in 1 .. Len(Order) + 1 /\ Len(Order) \in Nat /\ DOMAIN Order = 1 .. Len(Order)
    BY PipelineFacts DEF IInv, TypeOK
  <2>3. i \in 1 .. cursor - 1
    BY <1>1, <2>1, <2>2
  <2> QED BY <1>1, <2>1, <2>3 DEF JobRecord, Summed
<1>3. DOMAIN docs = {}
  BY <1>1, EmptyDomain DEF JobRecord, InOrder
<1>4. 1 .. cursor' - 1 = {}
  BY <1>1
<1>5. UNION {DocumentsOf(Order[i]) : i \in 1 .. cursor' - 1} = {}
  BY <1>4
<1>6. OfMergedBatches'
  BY <1>1, SameRecord DEF JobRecord, OfMergedBatches
<1> QED BY <1>1, <1>2, <1>3, <1>5, <1>6 DEF JobRecord, InFlight, InOrder, Summed

\* What commit() writes: the documents of its node, with the report and stamp.
LEMMA WrittenFacts ==
    ASSUME NEW n, NEW m
    PROVE  /\ DOMAIN Written(n, m) = {<<n, Documents[n][i]>> : i \in 1 .. m}
           /\ \A d \in DOMAIN Written(n, m) : Written(n, m)[d] = [report |-> report, stamp |-> stamp]
BY DEF Written

LEMMA WrittenWhole ==
    ASSUME NEW n \in Nodes
    PROVE  DOMAIN Written(n, Len(Documents[n])) = DocumentsOf(n)
<1>1. Documents[n] \in Seq(DocumentNames)
  BY JobAssumption
<1>2. DOMAIN Documents[n] = 1 .. Len(Documents[n])
  BY <1>1
<1>3. DocumentsOf(n) = {<<n, Documents[n][i]>> : i \in DOMAIN Documents[n]}
  BY DEF DocumentsOf, Range
<1> QED BY <1>2, <1>3, WrittenFacts

LEMMA CommitRecord == ASSUME IInv, JobRecord, Commit PROVE JobRecord'
<1> DEFINE uris == Written(NodeAt, Len(Documents[NodeAt]))
<1>1. /\ phase = "commit" /\ phase' = phase /\ cursor \in DOMAIN Order /\ cursor' = cursor + 1
      /\ batch' = batch /\ arts' = arts /\ report' = report /\ stamp' = stamp
      /\ docs' = Override(docs, uris)
  BY DEF Commit, dagVars
<1>2. NodeAt \in Nodes
  BY <1>1, PipelineFacts DEF NodeAt
<1>3. DOMAIN uris = DocumentsOf(Order[cursor])
  BY <1>2, WrittenWhole DEF NodeAt
<1> HIDE DEF uris
<1>4. DOMAIN docs' = DOMAIN docs \cup DocumentsOf(Order[cursor])
  BY <1>1, <1>3, OverrideDomain
<1>5. 1 .. cursor' - 1 = (1 .. cursor - 1) \cup {cursor}
  BY <1>1, PipelineFacts
<1>6. DOMAIN docs' = UNION {DocumentsOf(Order[i]) : i \in 1 .. cursor' - 1}
  <2>1. DOMAIN docs = UNION {DocumentsOf(Order[i]) : i \in 1 .. cursor - 1}
    BY <1>1 DEF JobRecord, InOrder
  <2> HIDE DEF DocumentsOf
  <2> QED BY <1>4, <1>5, <2>1
<1>7. OfMergedBatches'
  BY <1>1, SameRecord DEF JobRecord, OfMergedBatches
<1> QED BY <1>1, <1>6, <1>7 DEF JobRecord, InFlight, InOrder, Summed, DocumentsOf

\* Steps of the driver and of the pool within a batch.
LEMMA WithinBatch ==
    ASSUME [Next]_vars
    PROVE  \/ NextBatch \/ SourceExhausted \/ SourceRaises \/ MergeBatch \/ Unwound
           \/ Digest \/ DigestRaises \/ Stamp \/ Commit \/ CommitRaises \/ JobFinished
           \/ /\ UNCHANGED <<batch, report, docs, stamp, cursor>>
              /\ phase' = phase \/ (phase = "dag" /\ phase' = "unwind")
              /\ arts' = arts \/ (\E D \in SUBSET Downstream : Fold(D))
<1>1. ASSUME NEW n \in Downstream, Submit(n)
      PROVE  /\ UNCHANGED <<batch, report, docs, stamp, cursor, arts>>
             /\ phase' = phase \/ (phase = "dag" /\ phase' = "unwind")
  BY <1>1 DEF Submit
<1>2. ASSUME NEW D \in SUBSET Downstream, Fold(D)
      PROVE  UNCHANGED <<batch, report, docs, stamp, cursor, phase>>
  BY <1>2 DEF Fold
<1>3. ASSUME NEW n \in Downstream, Run(n)
      PROVE  UNCHANGED <<batch, report, docs, stamp, cursor, arts, phase>>
  BY <1>3 DEF Run, JudgeSamples, Archive, Free, RunRaises, Completes
<1>4. Start => UNCHANGED <<batch, report, docs, stamp, cursor, arts, phase>>
  BY DEF Start
<1>5. UNCHANGED vars => UNCHANGED <<batch, report, docs, stamp, cursor, arts, phase>>
  BY DEF vars
<1> QED BY <1>1, <1>2, <1>3, <1>4, <1>5 DEF Next, Driver, Ended

LEMMA RecordStep ==
    ASSUME IInv, Flow, Timely, JobRecord, [Next]_vars
    PROVE  JobRecord'
<1>1. CASE MergeBatch /\ ~MergeConflict
  BY <1>1, MergeRecord
<1>2. CASE NextBatch
  BY <1>2, NextBatchRecord
<1>3. CASE SourceRaises
  BY <1>3, SourceRaisesRecord
<1>4. CASE SourceExhausted
  <2>1. /\ phase = "source" /\ phase' = "reduce" /\ cursor' = 1
        /\ batch' = batch /\ arts' = arts /\ docs' = docs /\ report' = report
    BY <1>4 DEF SourceExhausted, EnterReduce, dagVars
  <2>2. 1 .. cursor' - 1 = {}
    BY <2>1
  <2>3. OfMergedBatches'
    BY <2>1, SameRecord DEF JobRecord, OfMergedBatches
  <2> QED BY <2>1, <2>2, <2>3 DEF JobRecord, InFlight, InOrder, Summed
<1>5. CASE Digest
  BY <1>5, DigestRecord
<1>6. CASE Stamp
  BY <1>6, StampRecord
<1>7. CASE Commit
  BY <1>7, CommitRecord
<1>8. CASE \/ Unwound \/ DigestRaises \/ CommitRaises \/ JobFinished
           \/ MergeBatch /\ MergeConflict
  <2>1. /\ UNCHANGED <<batch, arts, report>>
        /\ phase' \in {"raised", "done"}
           \/ (phase = "dag" /\ phase' = "unwind" /\ docs' = docs)
    BY <1>8 DEF Unwound, DigestRaises, CommitRaises, JobFinished, MergeBatch, dagVars
  <2>2. OfMergedBatches'
    BY <2>1, SameRecord DEF JobRecord, OfMergedBatches
  <2> QED BY <2>1, <2>2 DEF JobRecord, InFlight, InOrder, Summed
<1>9. CASE /\ UNCHANGED <<batch, report, docs, stamp, cursor>>
           /\ phase' = phase \/ (phase = "dag" /\ phase' = "unwind")
           /\ arts' = arts \/ (\E D \in SUBSET Downstream : Fold(D))
  <2>1. CASE arts' = arts
    <3>1. OfMergedBatches'
      BY <1>9, <2>1, SameRecord DEF JobRecord, OfMergedBatches
    <3> QED BY <1>9, <2>1, <3>1 DEF JobRecord, InFlight, InOrder, Summed
  <2>2. ASSUME NEW D \in SUBSET Downstream, Fold(D) PROVE JobRecord'
    <3>1. phase = "dag" /\ phase' = "dag" /\ DOMAIN arts' = DOMAIN arts \cup D
      BY <2>2 DEF Fold, Override
    <3>2. Source \in DOMAIN arts /\ Source \in DOMAIN arts'
      BY <3>1 DEF JobRecord, InFlight
    <3>3. Merged' = Merged
      BY <1>9, <3>2, EmptyDomain DEF Merged
    <3>4. OfMergedBatches'
      BY <1>9, <3>3 DEF JobRecord, OfMergedBatches, Ids
    <3> QED BY <1>9, <3>1, <3>2, <3>4 DEF JobRecord, InFlight, InOrder, Summed
  <2> QED BY <1>9, <2>1, <2>2
<1> QED BY <1>1, <1>2, <1>3, <1>4, <1>5, <1>6, <1>7, <1>8, <1>9, WithinBatch

LEMMA SilenceStep == ASSUME IInv, Silent, [Next]_vars PROVE Silent'
<1>1. CASE NextBatch
  <2>1. /\ DOMAIN reps' = {Source} /\ DOMAIN task' = {}
        /\ \E checks : reps'[Source] = Apply(EmptyReport, Source, [checks |-> checks, summary |-> {}])
    BY <1>1, EmptyDomain DEF NextBatch
  <2>2. reps'[Source].summary = {}
    BY <2>1 DEF Apply, EmptyReport
  <2> QED BY <2>1, <2>2 DEF Silent
<1>2. ASSUME NEW n \in Downstream, Submit(n) PROVE Silent'
  <2> DEFINE rs == InputReports(n)
             new == [state |-> "queued", art |-> JoinAll(InputUnions(n)), rep |-> MergeAll(rs)]
  <2>1. reps' = reps /\ (task' = task \/ task' = Override(task, [m \in {n} |-> new]))
    BY <1>2 DEF Submit
  <2>2. \A i \in DOMAIN rs : rs[i].summary = {}
    <3>1. n \in Nodes /\ phase = "dag" /\ InputsOf(n) \subseteq DOMAIN arts
      BY <1>2, PipelineFacts DEF Submit, Ready, Downstream
    <3>2. DOMAIN arts = DOMAIN reps
      BY <3>1 DEF IInv, Partition, Places
    <3>3. \A i \in DOMAIN Inputs[n] : Inputs[n][i] \in DOMAIN reps
      BY <3>1, <3>2, PipelineFacts
    <3> QED BY <3>3 DEF Silent, InputReports
  <2>3. MergeAll(rs).summary = UNION {rs[i].summary : i \in DOMAIN rs}
    BY DEF MergeAll
  <2> HIDE DEF rs
  <2>4. MergeAll(rs).summary = {}
    BY <2>2, <2>3
  <2>5. new.rep.summary = {}
    BY <2>4
  <2> HIDE DEF new
  <2> QED BY <2>1, <2>5 DEF Silent, Override
<1>3. ASSUME NEW D \in SUBSET Downstream, Fold(D) PROVE Silent'
  <2>1. /\ DOMAIN reps' = DOMAIN reps \cup D /\ D \subseteq DOMAIN task
        /\ \A n \in DOMAIN reps' : reps'[n] = IF n \in D THEN task[n].rep ELSE reps[n]
    BY <1>3 DEF Fold, InState, Override
  <2>2. DOMAIN task' \subseteq DOMAIN task /\ \A n \in DOMAIN task' : task'[n] = task[n]
    BY <1>3 DEF Fold, Without, Restrict
  <2> QED BY <2>1, <2>2 DEF Silent
<1>4. CASE MergeBatch
  BY <1>4, EmptyDomain DEF MergeBatch, Silent
<1>5. CASE Start
  <2>1. reps' = reps /\ task' = [task EXCEPT ![Head(queue)].state = "running"]
    BY <1>5 DEF Start
  <2>2. \A m \in DOMAIN task : IsTask(task[m])
    BY DEF IInv, TypeOK
  <2>3. DOMAIN task' = DOMAIN task /\ \A m \in DOMAIN task : task'[m].rep = task[m].rep
    BY <2>1, <2>2 DEF IsTask
  <2> QED BY <2>1, <2>3 DEF Silent
<1>6. ASSUME NEW n \in Downstream, Run(n) PROVE Silent'
  <2>1. \E v, ext : Completes(n, v, ext) /\ ext.summary = {}
    <3>1. CASE JudgeSamples(n)
      <4>1. \E v, checks : Completes(n, v, [checks |-> checks, summary |-> {}])
        BY <3>1 DEF JudgeSamples
      <4> QED BY <4>1
    <3>2. CASE Archive(n) \/ Free(n)
      <4>1. \E v : Completes(n, v, EmptyExt)
        BY <3>2 DEF Archive, Free
      <4>2. EmptyExt.summary = {}
        BY DEF EmptyExt
      <4> QED BY <4>1, <4>2
    <3>3. CASE RunRaises(n)
      <4>1. \E v, checks : Completes(n, v, [checks |-> checks, summary |-> {}])
        BY <3>3 DEF RunRaises
      <4> QED BY <4>1
    <3> QED BY <1>6, <3>1, <3>2, <3>3 DEF Run
  <2>2. PICK v, ext : Completes(n, v, ext) /\ ext.summary = {}
    BY <2>1
  <2> DEFINE r == Apply(task[n].rep, n, ext)
  <2>3. n \in DOMAIN task
    BY <1>6 DEF Run, JudgeSamples, Archive, Free, RunRaises, InState
  <2>4. r.summary = {}
    BY <2>2, <2>3 DEF Apply, Silent
  <2>5. reps' = reps /\ task' = [task EXCEPT ![n] = [state |-> "finished", art |-> v, rep |-> r]]
    BY <2>2 DEF Completes
  <2> HIDE DEF r
  <2>6. /\ DOMAIN task' = DOMAIN task /\ task'[n].rep = r
        /\ \A m \in DOMAIN task : m # n => task'[m] = task[m]
    BY <2>3, <2>5
  <2> QED BY <2>4, <2>5, <2>6 DEF Silent
<1>7. CASE UNCHANGED <<reps, task>>
  BY <1>7 DEF Silent
<1>8. CASE \/ SourceExhausted \/ SourceRaises \/ Unwound \/ Digest \/ DigestRaises
           \/ Stamp \/ Commit \/ CommitRaises \/ JobFinished
  BY <1>7, <1>8 DEF SourceExhausted, SourceRaises, Unwound, Digest, DigestRaises, Stamp,
     Commit, CommitRaises, JobFinished, dagVars
<1>9. UNCHANGED vars => UNCHANGED <<reps, task>>
  BY DEF vars
<1> QED BY <1>1, <1>2, <1>3, <1>4, <1>5, <1>6, <1>7, <1>8, <1>9 DEF Next, Driver, Ended

-----------------------------------------------------------------------------
(* Every step is one of QcJob's, or a stutter *)

\* The merge judges the batch: by DistinctIds it adds to the verdicts, and
\* what it adds is what the leaves found.
LEMMA MergeJudges ==
    ASSUME DistinctIds, IInv, Flow, Judging, Timely, JobRecord, Silent, MergeBatch, ~MergeConflict
    PROVE  Job!Judge
<1> DEFINE M == MergeAll(LeafReports)
<1>1. /\ phase = "dag" /\ phase' = "source" /\ docs' = docs
  BY DEF MergeBatch
<1>2. /\ IsReport(M) /\ report' = Merge(report, M)
      /\ batch \in 1 .. Len(Batches) /\ Merged = batch - 1 /\ Merged' = batch
  BY MergeAdds
<1>3. Job!IsJudgement(batch, M.check)
  <2>1. pending = {} /\ task = EmptyMap /\ ~JoinConflict(LeafUnions)
    BY DEF MergeBatch, MergeConflict
  <2> QED BY <1>1, <2>1, LeavesJudge
<1>4. /\ DOMAIN report.check \cap DOMAIN M.check = {}
      /\ DOMAIN report'.check = DOMAIN report.check \cup DOMAIN M.check
      /\ \A k \in DOMAIN M.check : report'.check[k] = M.check[k]
      /\ \A k \in DOMAIN report.check : report'.check[k] = report.check[k]
  BY MergeIsNew
<1> HIDE DEF M
<1>5. report'.summary = report.summary \cup M.summary
  BY <1>2 DEF Merge
<1>6. Merged < Len(Batches) /\ Merged' = Merged + 1
  <2>1. Len(Batches) \in Nat
    BY BatchFacts
  <2> QED BY <1>2, <2>1
<1>7. Job!Restrict(report'.check, DOMAIN report'.check \ DOMAIN report.check) = M.check
  <2>1. DOMAIN report'.check \ DOMAIN report.check = DOMAIN M.check
    BY <1>4
  <2>2. M.check = [k \in DOMAIN M.check |-> M.check[k]]
    BY <1>2 DEF IsReport, IsMap
  <2> QED BY <1>4, <2>1, <2>2 DEF Job!Restrict
<1>8. Job!Extends(report.check, report'.check)
  BY <1>4 DEF Job!Extends
<1>9. report'.summary = report.summary
  <2>1. DOMAIN arts = Nodes /\ DOMAIN arts = DOMAIN reps
    <3>1. pending = {} /\ task = EmptyMap
      BY DEF MergeBatch
    <3> QED BY <1>1, <3>1, EmptyDomain DEF IInv, Partition, Places
  <2>2. \A i \in DOMAIN LeafReports : LeafReports[i].summary = {}
    BY <2>1, PipelineFacts DEF Silent, LeafReports, Leaves
  <2>3. M.summary = UNION {LeafReports[i].summary : i \in DOMAIN LeafReports}
    BY DEF MergeAll, M
  <2>4. M.summary = {}
    BY <2>2, <2>3
  <2> QED BY <1>5, <2>4
<1> QED BY <1>1, <1>2, <1>3, <1>6, <1>7, <1>8, <1>9 DEF Job!Judge, Stage, Reads

\* A commit publishes what the job has found, all of it and counted.
LEMMA CommitPublishes ==
    ASSUME JobRecord, phase = "commit", NEW n \in Nodes, NEW m \in 0 .. Len(Documents[n]),
           docs' = Override(docs, Written(n, m)), UNCHANGED <<batch, arts, report>>
    PROVE  Job!Publishes
<1> DEFINE P == DOMAIN Written(n, m)
           W == Written(n, m)
           pub == [d \in DOMAIN docs |-> Reads(d)]
           new == [d \in P |-> Job!Edition]
<1>1. P \subseteq UNION {{x} \X Range(Documents[x]) : x \in Nodes}
  <2>1. DOMAIN Documents[n] = 1 .. Len(Documents[n]) /\ Len(Documents[n]) \in Nat
    <3>1. Documents[n] \in Seq(DocumentNames)
      BY JobAssumption
    <3> QED BY <3>1
  <2>2. P \subseteq {n} \X Range(Documents[n])
    <3>1. P = {<<n, Documents[n][i]>> : i \in 1 .. m}
      BY WrittenFacts
    <3>2. \A i \in 1 .. m : i \in DOMAIN Documents[n]
      BY <2>1
    <3>3. \A i \in 1 .. m : Documents[n][i] \in Range(Documents[n])
      BY <3>2 DEF Range
    <3> HIDE DEF P
    <3> QED BY <3>1, <3>3
  <2> QED BY <2>2
<1>2. ASSUME NEW d \in P PROVE W[d] = [report |-> report, stamp |-> stamp]
  BY WrittenFacts
<1> HIDE DEF P, W
<1>3. /\ arts = EmptyMap /\ stamp.n_batches = batch /\ stamp.counts = Counts(report)
      /\ Fresh(report)
  BY DEF JobRecord, InFlight, Summed, OfMergedBatches
<1>4. Job!Edition = [verdicts |-> report.check, summaries |-> report.summary,
                     batches |-> stamp.n_batches, counts |-> stamp.counts]
  BY <1>3, CountsAreTally DEF Job!Edition, Merged
<1>5. /\ DOMAIN docs' = DOMAIN docs \cup P
      /\ \A d \in DOMAIN docs' : docs'[d] = IF d \in P THEN W[d] ELSE docs[d]
  BY DEF Override, W, P
<1>6. pub' = Override(pub, new)
  <2>1. \A d \in P : Reads(d)' = Job!Edition
    BY <1>2, <1>4, <1>5 DEF Reads
  <2>2. \A d \in DOMAIN docs \ P : Reads(d)' = Reads(d)
    BY <1>5 DEF Reads
  <2>3. DOMAIN new = P /\ DOMAIN pub = DOMAIN docs
    OBVIOUS
  <2>4. \A d \in DOMAIN docs' :
           Reads(d)' = IF d \in DOMAIN new THEN new[d] ELSE pub[d]
    BY <1>5, <2>1, <2>2
  <2> QED BY <1>5, <2>3, <2>4 DEF Override
<1>7. Job!Override(pub, new) = Override(pub, new)
  BY SameOperators
<1>8. \A x \in Reduces : <<x, "digest">> \in report.summary
  BY DEF JobRecord, Summed
<1>9. Merged' = Merged
  BY DEF Merged
<1>10. \E Q \in SUBSET UNION {{x} \X Range(Documents[x]) : x \in Nodes} :
          pub' = Job!Override(pub, [d \in Q |-> Job!Edition])
  BY <1>1, <1>6, <1>7
<1>11. Stage = "publishing"
  BY DEF Stage
<1> QED BY <1>8, <1>9, <1>10, <1>11 DEF Job!Publishes

\* The steps of the digest and of the commit.
LEMMA DigestSummarises == ASSUME IInv, JobRecord, Digest PROVE [Job!JobNext]_(Job!jobVars)
<1>1. /\ phase = "reduce" /\ UNCHANGED <<phase, batch, arts, docs>> /\ docs = EmptyMap
      /\ report'.check = report.check
  BY DigestAdds DEF Digest, dagVars, JobRecord, InOrder
<1>2. [d \in DOMAIN docs |-> Reads(d)] = Job!EmptyMap
  <2>1. DOMAIN docs = {}
    BY <1>1, EmptyDomain
  <2> QED BY <2>1 DEF Job!EmptyMap
<1>3. UNCHANGED <<Stage, Merged, [d \in DOMAIN docs |-> Reads(d)]>>
  BY <1>1 DEF Stage, Merged, Reads
<1>4. CASE NodeAt \in Reduces
  <2>1. report'.summary = report.summary \cup {<<NodeAt, "digest">>}
    BY <1>4, DigestAdds
  <2>2. Stage = "publishing"
    BY <1>1 DEF Stage
  <2>3. Job!Summarise
    BY <1>1, <1>2, <1>3, <1>4, <2>1, <2>2 DEF Job!Summarise
  <2> QED BY <2>3 DEF Job!JobNext
<1>5. CASE NodeAt \notin Reduces
  <2>1. report' = report
    BY <1>5, DigestAdds
  <2> QED BY <1>1, <1>3, <2>1 DEF Job!jobVars
<1> QED BY <1>4, <1>5

LEMMA FinishFinishes == ASSUME IInv, JobRecord, JobFinished PROVE Job!Finish
<1>1. /\ phase = "commit" /\ phase' = "done" /\ cursor \notin DOMAIN Order
      /\ UNCHANGED <<batch, arts, report, docs>>
  BY DEF JobFinished, dagVars
<1>2. 1 .. cursor - 1 = DOMAIN Order
  <2>1. cursor \in 1 .. Len(Order) + 1 /\ Len(Order) \in Nat /\ DOMAIN Order = 1 .. Len(Order)
    BY PipelineFacts DEF IInv, TypeOK
  <2> QED BY <1>1, <2>1
<1>3. DOMAIN docs = UNION {{n} \X Range(Documents[n]) : n \in Nodes}
  <2>1. DOMAIN docs = UNION {DocumentsOf(Order[i]) : i \in DOMAIN Order}
    BY <1>1, <1>2 DEF JobRecord, InOrder
  <2>2. {DocumentsOf(Order[i]) : i \in DOMAIN Order} = {DocumentsOf(n) : n \in Nodes}
    BY DEF Nodes
  <2> QED BY <2>1, <2>2 DEF DocumentsOf
<1>4. \A n \in Reduces : <<n, "digest">> \in report.summary
  BY <1>1 DEF JobRecord, Summed
<1>5. UNCHANGED <<Merged, [d \in DOMAIN docs |-> Reads(d)]>>
  BY <1>1 DEF Merged, Reads
<1>6. Stage = "publishing" /\ Stage' = "done"
  BY <1>1 DEF Stage
<1> QED BY <1>1, <1>3, <1>4, <1>5, <1>6 DEF Job!Finish

\* Every step of the executor.
LEMMA StepImplements ==
    ASSUME DistinctIds, IInv, Flow, Judging, Timely, JobRecord, Silent, [Next]_vars
    PROVE  [Job!JobNext]_(Job!jobVars)
<1> DEFINE pub == [d \in DOMAIN docs |-> Reads(d)]
<1>1. CASE MergeBatch /\ ~MergeConflict
  BY <1>1, MergeJudges DEF Job!JobNext
<1>2. CASE NextBatch
  <2>1. /\ phase = "source" /\ phase' = "dag" /\ batch' = batch + 1
        /\ UNCHANGED <<report, docs>> /\ DOMAIN arts' = {Source}
    BY <1>2 DEF NextBatch
  <2>2. arts = EmptyMap /\ arts' # EmptyMap
    BY <2>1, EmptyDomain DEF JobRecord, InFlight
  <2>3. batch \in Int
    BY BatchFacts DEF IInv, TypeOK
  <2>4. Merged' = Merged /\ Stage' = Stage /\ UNCHANGED pub
    BY <2>1, <2>2, <2>3 DEF Merged, Stage, Reads
  <2> QED BY <2>1, <2>4 DEF Job!jobVars
<1>3. CASE SourceExhausted \/ SourceRaises
  <2>1. /\ phase = "source" /\ phase' = "reduce" /\ UNCHANGED <<batch, arts, docs>>
        /\ \/ batch = Len(Batches) /\ report' = report
           \/ report' = [report EXCEPT !.summary = @ \cup {<<Source, "source_error">>}]
    BY <1>3 DEF SourceExhausted, SourceRaises, EnterReduce, dagVars
  <2>2. report = [check |-> report.check, status |-> report.status, summary |-> report.summary]
    BY DEF IInv, TypeOK, IsReport
  <2>3. /\ report'.check = report.check
        /\ \/ batch = Len(Batches) /\ report'.summary = report.summary
           \/ report'.summary = report.summary \cup {<<Source, "source_error">>}
    BY <2>1, <2>2
  <2>4. Merged' = Merged /\ Merged = batch /\ UNCHANGED pub
    BY <2>1 DEF Merged, Reads, JobRecord, InFlight
  <2>5. Stage = "judging" /\ Stage' = "publishing"
    BY <2>1 DEF Stage
  <2>6. Job!Close
    BY <2>3, <2>4, <2>5 DEF Job!Close
  <2> QED BY <2>6 DEF Job!JobNext
<1>4. CASE Digest
  BY <1>4, DigestSummarises
<1>5. CASE Commit
  <2>1. /\ phase = "commit" /\ cursor \in DOMAIN Order /\ UNCHANGED <<phase, batch, arts, report>>
        /\ docs' = Override(docs, Written(NodeAt, Len(Documents[NodeAt])))
    BY <1>5 DEF Commit, dagVars
  <2>2. NodeAt \in Nodes /\ Len(Documents[NodeAt]) \in 0 .. Len(Documents[NodeAt])
    <3>1. NodeAt \in Nodes
      BY <2>1, PipelineFacts DEF NodeAt
    <3>2. Documents[NodeAt] \in Seq(DocumentNames)
      BY <3>1, JobAssumption
    <3> QED BY <3>1, <3>2
  <2>3. Job!Publishes
    BY <2>1, <2>2, CommitPublishes
  <2>4. UNCHANGED Stage
    BY <2>1 DEF Stage
  <2> QED BY <2>3, <2>4 DEF Job!Publish, Job!JobNext
<1>6. CASE CommitRaises
  <2>1. /\ phase = "commit" /\ phase' = "raised" /\ cursor \in DOMAIN Order
        /\ UNCHANGED <<batch, arts, report>>
        /\ \E m \in 0 .. Len(Documents[NodeAt]) - 1 : docs' = Override(docs, Written(NodeAt, m))
    BY <1>6 DEF CommitRaises, dagVars
  <2>2. PICK m \in 0 .. Len(Documents[NodeAt]) - 1 : docs' = Override(docs, Written(NodeAt, m))
    BY <2>1
  <2>3. NodeAt \in Nodes /\ m \in 0 .. Len(Documents[NodeAt])
    <3>1. NodeAt \in Nodes
      BY <2>1, PipelineFacts DEF NodeAt
    <3>2. Documents[NodeAt] \in Seq(DocumentNames)
      BY <3>1, JobAssumption
    <3>3. Len(Documents[NodeAt]) \in Nat
      BY <3>2
    <3> QED BY <2>2, <3>1, <3>3
  <2>4. Job!Publishes
    BY <2>1, <2>2, <2>3, CommitPublishes
  <2>5. Stage' = "raised"
    BY <2>1 DEF Stage
  <2> QED BY <2>4, <2>5 DEF Job!Fail, Job!JobNext
<1>7. CASE JobFinished
  BY <1>7, FinishFinishes DEF Job!JobNext
<1>8. CASE Unwound \/ DigestRaises
  <2>1. /\ phase \in {"unwind", "reduce"} /\ phase' = "raised"
        /\ UNCHANGED <<batch, arts, report, docs>>
    BY <1>8 DEF Unwound, DigestRaises, dagVars
  <2>2. Stage \in {"judging", "publishing"} /\ Stage' = "raised"
    BY <2>1 DEF Stage
  <2>3. Merged' = Merged /\ UNCHANGED pub
    BY <2>1 DEF Merged, Reads
  <2> QED BY <2>1, <2>2, <2>3 DEF Job!Fail, Job!JobNext
<1>9. CASE Stamp \/ (MergeBatch /\ MergeConflict)
  <2>1. /\ UNCHANGED <<batch, arts, report, docs>>
        /\ \/ phase = "reduce" /\ phase' = "commit"
           \/ phase = "dag" /\ phase' = "unwind"
    BY <1>9 DEF Stamp, MergeBatch, dagVars
  <2>2. Stage' = Stage
    BY <2>1 DEF Stage
  <2>3. Merged' = Merged /\ UNCHANGED pub
    BY <2>1 DEF Merged, Reads
  <2> QED BY <2>1, <2>2, <2>3 DEF Job!jobVars
<1>10. CASE /\ UNCHANGED <<batch, report, docs, stamp, cursor>>
            /\ phase' = phase \/ (phase = "dag" /\ phase' = "unwind")
            /\ arts' = arts \/ (\E D \in SUBSET Downstream : Fold(D))
  <2>1. Stage' = Stage /\ UNCHANGED pub
    BY <1>10 DEF Stage, Reads
  <2>2. Merged' = Merged
    <3>1. CASE arts' = arts
      BY <1>10, <3>1 DEF Merged
    <3>2. ASSUME NEW D \in SUBSET Downstream, Fold(D) PROVE Merged' = Merged
      <4>1. phase = "dag" /\ DOMAIN arts' = DOMAIN arts \cup D
        BY <3>2 DEF Fold, Override
      <4>2. Source \in DOMAIN arts /\ Source \in DOMAIN arts'
        BY <4>1 DEF JobRecord, InFlight
      <4> QED BY <1>10, <4>2, EmptyDomain DEF Merged
    <3> QED BY <1>10, <3>1, <3>2
  <2> QED BY <1>10, <2>1, <2>2 DEF Job!jobVars
<1> QED BY <1>1, <1>2, <1>3, <1>4, <1>5, <1>6, <1>7, <1>8, <1>9, <1>10, WithinBatch

-----------------------------------------------------------------------------
\* executor.py 10-24, "the fixed flow", determinism and failure: whatever the
\* pool's schedule, the shape of the graph and the nodes that fail, the job is
\* one that judges batch after batch, each node exactly the samples nothing
\* upstream condemned, keeps what it found, and publishes all of it, counted.
\* It does so for jobs whose batches have distinct sample ids and whose
\* archivers' globs leave the Batch alone.
THEOREM ImplementsTheJob ==
    ASSUME DistinctIds, BatchIsKept
    PROVE  Spec => ImplementsQcJob
<1> DEFINE Inv == IInv /\ Flow /\ Judging /\ Timely /\ JobRecord /\ Silent
<1>1. Init => Inv
  <2>1. Init => Judging /\ Timely
    BY DEF Init, Judging, Timely
  <2>2. Init => Silent
    BY EmptyDomain DEF Init, Silent
  <2> QED BY <2>1, <2>2, InitInv, InitFlow, InitRecord
<1>2. Inv /\ [Next]_vars => Inv'
  <2> SUFFICES ASSUME Inv, [Next]_vars PROVE Inv'
    OBVIOUS
  <2>1. IInv' /\ Flow'
    BY StepInv, FlowStep
  <2>2. Judging' /\ Timely'
    BY JudgingStep, TimelyStep
  <2>3. JobRecord' /\ Silent'
    BY RecordStep, SilenceStep
  <2> QED BY <2>1, <2>2, <2>3
<1>3. Init => Job!JobInit
  BY DEF Init, Job!JobInit, Stage, Merged, EmptyReport, Job!EmptyMap, EmptyMap
<1>4. Inv /\ [Next]_vars => [Job!JobNext]_(Job!jobVars)
  <2> SUFFICES ASSUME Inv, [Next]_vars PROVE [Job!JobNext]_(Job!jobVars)
    OBVIOUS
  <2> QED BY StepImplements
<1> QED BY <1>1, <1>2, <1>3, <1>4, PTL DEF Spec, ImplementsQcJob, Job!JobSpec

-----------------------------------------------------------------------------
(* The counters of the live page *)


watched == <<vars, watchVars>>

LEMMA WatchedIsTheJob == WatchNext => [Next]_vars
<1> SUFFICES ASSUME WatchNext PROVE [Next]_vars
  OBVIOUS
<1>1. CASE WatchedDriver
  <2>1. CASE JobStarted
    BY <2>1 DEF JobStarted, vars
  <2>2. CASE \E n \in Downstream : EmitsFinished(n)
    BY <2>2 DEF EmitsFinished, vars
  <2>3. CASE \E D \in SUBSET Downstream : WatchedFold(D)
    BY <2>3 DEF WatchedFold, Next, Driver
  <2>4. CASE WatchedStep
    BY <2>4 DEF WatchedStep, SilentStep, Next, Driver
  <2> QED BY <1>1, <2>1, <2>2, <2>3, <2>4 DEF WatchedDriver
<1>2. CASE Pool(Start)
  BY <1>2 DEF Pool, Next
<1>3. CASE \E n \in Downstream : Pool(Run(n))
  BY <1>3 DEF Pool, Next
<1>4. CASE Browser
  BY <1>4 DEF Browser, vars
<1>5. CASE WatchedEnd
  BY <1>5 DEF WatchedEnd, Next
<1> QED BY <1>1, <1>2, <1>3, <1>4, <1>5 DEF WatchNext

-----------------------------------------------------------------------------
(* Counting verdicts *)

LEMMA TriplesAreFinite ==
    ASSUME NEW A, IsFiniteSet(A), NEW B, IsFiniteSet(B), NEW C, IsFiniteSet(C)
    PROVE  IsFiniteSet(A \X B \X C)
<1> DEFINE S == A \X B \X C
           T == (A \X B) \X C
           f == [k \in S |-> <<<<k[1], k[2]>>, k[3]>>]
<1>1. IsFiniteSet(T)
  BY FS_Product
<1>2. f \in [S -> T]
  OBVIOUS
<1>3. ASSUME NEW k \in S, NEW l \in S, f[k] = f[l] PROVE k = l
  BY <1>3
<1> HIDE DEF S, T, f
<1>4. f \in Injection(S, T)
  BY <1>2, <1>3 DEF Injection, IsInjective
<1>5. IsFiniteSet(S)
  BY <1>1, <1>4, FS_Injection
<1> QED BY <1>5 DEF S

\* The checks of a report are about the job's samples, and those are finitely
\* many.
LEMMA ChecksAreFinite ==
    ASSUME NEW r, IsReport(r)
    PROVE  IsFiniteSet(DOMAIN r.check)
<1>1. IsFiniteSet(Nodes)
  <2> DEFINE P == 1 .. Len(Order)
  <2>1. Len(Order) \in Nat /\ Order \in [P -> Nodes] /\ \A n \in Nodes : \E i \in P : Order[i] = n
    BY PipelineFacts, PipelineAssumption DEF Nodes
  <2>2. IsFiniteSet(P)
    BY <2>1, FS_Interval
  <2> HIDE DEF P
  <2>3. Order \in Surjection(P, Nodes)
    BY <2>1 DEF Surjection
  <2> QED BY <2>2, <2>3, FS_Surjection
<1>2. IsFiniteSet({"enumerate", "check", "error"})
  <2>1. IsFiniteSet({}) /\ IsFiniteSet({} \cup {"enumerate"})
    BY FS_EmptySet, FS_AddElement
  <2>2. IsFiniteSet(({} \cup {"enumerate"}) \cup {"check"})
    BY <2>1, FS_AddElement
  <2>3. IsFiniteSet((({} \cup {"enumerate"}) \cup {"check"}) \cup {"error"})
    BY <2>2, FS_AddElement
  <2>4. (({} \cup {"enumerate"}) \cup {"check"}) \cup {"error"} = {"enumerate", "check", "error"}
    OBVIOUS
  <2> QED BY <2>3, <2>4
<1>3. IsFiniteSet(CheckKeys)
  BY <1>1, <1>2, JobAssumption, TriplesAreFinite DEF CheckKeys
<1>4. DOMAIN r.check \in SUBSET CheckKeys
  BY DEF IsReport, IsMap
<1> QED BY <1>3, <1>4, FS_Subset

\* Verdicts that are new to a report add to what is counted in it.
LEMMA NewVerdictsAdd ==
    ASSUME NEW r, NEW o, NEW q, IsReport(r), IsReport(o),
           DOMAIN r.check \cap DOMAIN o.check = {},
           DOMAIN q.check = DOMAIN r.check \cup DOMAIN o.check,
           \A k \in DOMAIN o.check : q.check[k] = o.check[k],
           \A k \in DOMAIN r.check : q.check[k] = r.check[k],
           NEW n, NEW s
    PROVE  VerdictsOf(q, n, s) = VerdictsOf(r, n, s) + VerdictsOf(o, n, s)
<1> DEFINE A == {k \in DOMAIN r.check : k[2] = n /\ r.check[k] = s}
           B == {k \in DOMAIN o.check : k[2] = n /\ o.check[k] = s}
           Q == {k \in DOMAIN q.check : k[2] = n /\ q.check[k] = s}
<1>1. IsFiniteSet(A) /\ IsFiniteSet(B)
  BY ChecksAreFinite, FS_Subset
<1>2. A \cap B = {} /\ Q = A \cup B
  OBVIOUS
<1>3. VerdictsOf(q, n, s) = Cardinality(Q) /\ VerdictsOf(r, n, s) = Cardinality(A)
      /\ VerdictsOf(o, n, s) = Cardinality(B)
  BY DEF VerdictsOf
<1> HIDE DEF A, B, Q
<1>4. Cardinality(A) \in Nat /\ Cardinality(B) \in Nat
  BY <1>1, FS_CardinalityType
<1>5. Cardinality(A \cup B) = Cardinality(A) + Cardinality(B) - Cardinality(A \cap B)
  BY <1>1, FS_Union
<1>6. Cardinality(A \cap B) = 0
  BY <1>2, FS_EmptySet
<1> QED BY <1>2, <1>3, <1>4, <1>5, <1>6

-----------------------------------------------------------------------------
\* The counters are those of the report, one for each node and status.
Tallied == /\ "tally" \in DOMAIN live
           /\ live.tally = [k \in Nodes \X Statuses |-> VerdictsOf(report, k[1], k[2])]

LEMMA InitTallied == ASSUME WatchInit PROVE Tallied
<1>1. /\ "tally" \in DOMAIN live
      /\ live.tally = [k \in Nodes \X Statuses |-> 0]
  BY DEF WatchInit
<1>2. DOMAIN report.check = {}
  BY EmptyDomain DEF WatchInit, Init, EmptyReport
<1>3. ASSUME NEW k \in Nodes \X Statuses PROVE VerdictsOf(report, k[1], k[2]) = 0
  <2>1. {x \in DOMAIN report.check : x[2] = k[1] /\ report.check[x] = k[2]} = {}
    BY <1>2
  <2> QED BY <2>1, FS_EmptySet DEF VerdictsOf
<1> QED BY <1>1, <1>3 DEF Tallied

\* A step that leaves the counters and the job's verdicts alone.
LEMMA SameTally ==
    ASSUME Tallied, DOMAIN live' = DOMAIN live, live'.tally = live.tally,
           report'.check = report.check
    PROVE  Tallied'
BY DEF Tallied, VerdictsOf

\* Only the merge of a batch adds verdicts to the job's report.
LEMMA OnlyMergesJudge ==
    ASSUME IInv, [Next]_vars, ~(MergeBatch /\ ~MergeConflict)
    PROVE  report'.check = report.check
<1>1. CASE SourceRaises
  <2>1. report = [check |-> report.check, status |-> report.status, summary |-> report.summary]
    BY DEF IInv, TypeOK, IsReport
  <2> QED BY <1>1, <2>1 DEF SourceRaises
<1>2. CASE Digest
  BY <1>2, DigestAdds
<1>3. CASE MergeBatch /\ MergeConflict
  BY <1>3 DEF MergeBatch
<1>4. CASE \/ NextBatch \/ SourceExhausted \/ Unwound \/ DigestRaises \/ Stamp \/ Commit
           \/ CommitRaises \/ JobFinished
  BY <1>4 DEF NextBatch, SourceExhausted, Unwound, DigestRaises, Stamp, Commit, CommitRaises,
     JobFinished, EnterReduce
<1>5. CASE UNCHANGED <<batch, report, docs, stamp, cursor>>
  BY <1>5
<1> QED BY <1>1, <1>2, <1>3, <1>4, <1>5, WithinBatch

\* The observer adds the counts of the batch just merged.
LEMMA MergeTallied ==
    ASSUME DistinctIds, IInv, Flow, Timely, JobRecord, Tallied,
           MergeBatch, ~MergeConflict, OnBatchMerged(MergeAll(LeafReports))
    PROVE  Tallied'
<1> DEFINE M == MergeAll(LeafReports)
           new == [k \in Nodes \X Statuses |-> live.tally[k] + VerdictsOf(M, k[1], k[2])]
<1>1. "tally" \in DOMAIN live' /\ live'.tally = new
  BY DEF OnBatchMerged, Becomes, Tallied
<1>2. IsReport(M) /\ IsReport(report)
  BY MergeAdds DEF IInv, TypeOK
<1>3. /\ DOMAIN report.check \cap DOMAIN M.check = {}
      /\ DOMAIN report'.check = DOMAIN report.check \cup DOMAIN M.check
      /\ \A k \in DOMAIN M.check : report'.check[k] = M.check[k]
      /\ \A k \in DOMAIN report.check : report'.check[k] = report.check[k]
  BY MergeIsNew
<1> HIDE DEF M
<1>4. ASSUME NEW k \in Nodes \X Statuses
      PROVE  new[k] = VerdictsOf(report', k[1], k[2])
  <2>1. VerdictsOf(report', k[1], k[2])
          = VerdictsOf(report, k[1], k[2]) + VerdictsOf(M, k[1], k[2])
    <3>1. ASSUME NEW n, NEW s
          PROVE  VerdictsOf(report', n, s) = VerdictsOf(report, n, s) + VerdictsOf(M, n, s)
      <4> DEFINE q == report'
      <4>1. /\ DOMAIN q.check = DOMAIN report.check \cup DOMAIN M.check
            /\ \A x \in DOMAIN M.check : q.check[x] = M.check[x]
            /\ \A x \in DOMAIN report.check : q.check[x] = report.check[x]
        BY <1>3
      <4> HIDE DEF q
      <4>2. VerdictsOf(q, n, s) = VerdictsOf(report, n, s) + VerdictsOf(M, n, s)
        BY <1>2, <1>3, <4>1, NewVerdictsAdd
      <4> QED BY <4>2 DEF q
    <3> QED BY <3>1
  <2>2. live.tally[k] = VerdictsOf(report, k[1], k[2])
    BY DEF Tallied
  <2> QED BY <2>1, <2>2
<1>5. new = [k \in Nodes \X Statuses |-> VerdictsOf(report', k[1], k[2])]
  BY <1>4
<1> QED BY <1>1, <1>5 DEF Tallied, VerdictsOf

LEMMA TalliedStep ==
    ASSUME DistinctIds, IInv, Flow, Timely, JobRecord, Tallied, [WatchNext]_watched
    PROVE  Tallied'
<1>1. CASE MergeBatch /\ phase' = "source" /\ OnBatchMerged(MergeAll(LeafReports))
  <2>1. ~MergeConflict
    BY <1>1 DEF MergeBatch
  <2> QED BY <1>1, <2>1, MergeTallied
<1>2. ASSUME NEW e, e # "tally", NEW v, Becomes([live EXCEPT ![e] = v]), report'.check = report.check
      PROVE  Tallied'
  <2>1. live' = [live EXCEPT ![e] = v]
    BY <1>2 DEF Becomes
  <2>2. DOMAIN live' = DOMAIN live /\ live'.tally = live.tally
    BY <1>2, <2>1 DEF Tallied
  <2> QED BY <1>2, <2>2, SameTally
<1>3. ASSUME live' = live, report'.check = report.check PROVE Tallied'
  BY <1>3, SameTally
<1>4. CASE JobStarted
  BY <1>4, SameTally DEF JobStarted, OnJobStarted, Becomes, Tallied, vars
<1>5. ASSUME NEW n \in Downstream, EmitsFinished(n) PROVE Tallied'
  BY <1>5, SameTally DEF EmitsFinished, OnNodeFinished, Becomes, Tallied, vars
<1>6. ASSUME NEW D \in SUBSET Downstream, WatchedFold(D) PROVE Tallied'
  BY <1>6, <1>3 DEF WatchedFold, Unseen, Fold
<1>7. CASE NextBatch /\ OnBatchStarted
  BY <1>7, SameTally DEF NextBatch, OnBatchStarted, Becomes, Tallied
<1>8. ASSUME NEW n \in Downstream, Submit(n), OnNodeStarted(n) \/ Unseen PROVE Tallied'
  BY <1>8, SameTally DEF Submit, OnNodeStarted, Becomes, Unseen, Tallied
<1>9. CASE JobFinished /\ OnJobFinished
  BY <1>9, SameTally DEF JobFinished, OnJobFinished, Becomes, Tallied
<1>10. CASE SilentStep
  <2>1. [Next]_vars /\ ~(MergeBatch /\ ~MergeConflict)
    BY <1>10 DEF SilentStep, Next, MergeBatch
  <2> QED BY <1>3, <1>10, <2>1, OnlyMergesJudge DEF SilentStep, Unseen
<1>11. CASE Pool(Start) \/ (\E n \in Downstream : Pool(Run(n))) \/ WatchedEnd
  <2>1. live' = live
    BY <1>11 DEF Pool, WatchedEnd, watchVars
  <2>2. report' = report
    BY <1>11 DEF Pool, WatchedEnd, Ended, vars, Start, Run, JudgeSamples, Archive, Free,
       RunRaises, Completes
  <2> QED BY <1>3, <2>1, <2>2
<1>12. CASE Browser \/ UNCHANGED watched
  BY <1>3, <1>12 DEF Browser, watched, watchVars, vars
<1> QED BY <1>1, <1>4, <1>5, <1>6, <1>7, <1>8, <1>9, <1>10, <1>11, <1>12
        DEF WatchNext, WatchedDriver, WatchedStep

\* live.py 11-13, "folding is a counter bump rather than a rescan": at every
\* moment the counters of the page are those of the whole job report, whatever
\* the graph, the batches, the failures and the order of events.  It is so for
\* jobs whose batches have distinct sample ids (report.py 118-119).
THEOREM CountersAreTheReport ==
    ASSUME DistinctIds
    PROVE  WatchSpec => []TallyIsReport
<1> DEFINE Inv == IInv /\ Flow /\ Timely /\ JobRecord /\ Tallied
<1>1. WatchInit => Inv
  <2>1. Init => Timely
    BY DEF Init, Timely
  <2> QED BY <2>1, InitInv, InitFlow, InitRecord, InitTallied DEF WatchInit
<1>2. Inv /\ [WatchNext]_watched => Inv'
  <2> SUFFICES ASSUME Inv, [WatchNext]_watched PROVE Inv'
    OBVIOUS
  <2>1. [Next]_vars
    BY WatchedIsTheJob DEF watched
  <2>2. IInv' /\ Flow' /\ Timely' /\ JobRecord'
    BY <2>1, StepInv, FlowStep, TimelyStep, RecordStep
  <2>3. Tallied'
    BY TalliedStep
  <2> QED BY <2>2, <2>3
<1>3. Inv => TallyIsReport
  BY DEF Tallied, TallyIsReport
<1> QED BY <1>1, <1>2, <1>3, PTL DEF WatchSpec, watched
=============================================================================
