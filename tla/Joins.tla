------------------------------- MODULE Joins -------------------------------
(***************************************************************************)
(* How the executor joins the results of several nodes: the loops of       *)
(* _union_of and _report_of, which run for every node over its inputs and  *)
(* for the leaves of a batch.  One turn folds the next input's union with  *)
(* ArtifactUnion.union, which may raise, and its report with Report.merge. *)
(* Executor uses the closed forms JoinConflict, JoinAll and MergeAll of    *)
(* these loops; the invariants below are what entitles it to.              *)
(***************************************************************************)
EXTENDS ArtifactUnion, Report

CONSTANT InputSeqs   \* sequences of node results [art, rep]

\* Every report a node hands on was built by apply and merge.
ASSUME ResultsAssumption ==
    \A is \in InputSeqs :
        /\ is \in Seq(Range(is))
        /\ \A i \in DOMAIN is :
              /\ Fresh(is[i].rep)
              /\ \A k \in DOMAIN is[i].rep.check : is[i].rep.check[k] \in Statuses

VARIABLES inputs,   \* the results to join, in the order of the node's inputs
          next,     \* the position of the loop
          art,      \* the union built so far
          rep,      \* the report built so far
          raised    \* an ExecutorError left the loop

vars == <<inputs, next, art, rep, raised>>

Init == /\ inputs \in InputSeqs
        /\ next = 1
        /\ art = EmptyUnion
        /\ rep = EmptyReport
        /\ raised = FALSE

\* One turn of the loops: out = out.union(u), out.merge(r).
Fold == /\ ~raised
        /\ next \in DOMAIN inputs
        /\ ~UnionConflict(art, inputs[next].art)
        /\ art' = Union(art, inputs[next].art)
        /\ rep' = Merge(rep, inputs[next].rep)
        /\ next' = next + 1
        /\ UNCHANGED <<inputs, raised>>

\* The turn in which union raises.
Raise == /\ ~raised
         /\ next \in DOMAIN inputs
         /\ UnionConflict(art, inputs[next].art)
         /\ raised' = TRUE
         /\ UNCHANGED <<inputs, next, art, rep>>

Next == Fold \/ Raise

Spec == Init /\ [][Next]_vars /\ WF_vars(Next)

-----------------------------------------------------------------------------
Folded == 1 .. next - 1

Arts(is) == [i \in DOMAIN is |-> is[i].art]
Reps(is) == [i \in DOMAIN is |-> is[i].rep]
Backwards(is) == [i \in DOMAIN is |-> is[Len(is) + 1 - i]]
Prefix == SubSeq(inputs, 1, next - 1)

\* executor.py 255-266: the loops compute the closed forms, and the first one
\* raises exactly where JoinConflict says so.
ClosedForms == /\ art = JoinAll(Arts(Prefix))
               /\ rep = MergeAll(Reps(Prefix))
               /\ ~JoinConflict(Arts(Prefix))
               /\ raised => JoinConflict(Arts(SubSeq(inputs, 1, next)))

\* data.py 82-84 and 185-198: a join keeps every input's artifacts, except
\* those some input freed, which no other input brings back.
JoinIsUnion ==
    LET freed == UNION {inputs[i].art.deleted : i \in Folded}
    IN  /\ freed \cap DOMAIN art.data = {}
        /\ \A i \in Folded : \A k \in DOMAIN inputs[i].art.data \ freed :
              k \in DOMAIN art.data /\ art.data[k] = inputs[i].art.data[k]

\* The reports of one batch: a check two of them carry is one verdict, made
\* once by the node that owns it.
OneVerdictEach == \A i, j \in Folded :
    \A k \in DOMAIN inputs[i].rep.check \cap DOMAIN inputs[j].rep.check :
        inputs[i].rep.check[k] = inputs[j].rep.check[k]

\* report.py 218-234: within a batch, a sample that died on any branch is
\* dead after the join, whichever input comes last.
DeathSurvivesTheJoin ==
    OneVerdictEach => \A i \in Folded : \A s \in DOMAIN inputs[i].rep.status :
        ~IsAlive(inputs[i].rep, s) => ~IsAlive(rep, s)

\* executor.py 17-19: what a node sees does not depend on the order in which
\* the YAML lists its inputs, as long as neither order raises.
OrderIrrelevant ==
    /\ ~JoinConflict(Arts(Backwards(Prefix))) => art = JoinAll(Arts(Backwards(Prefix)))
    /\ OneVerdictEach => rep = MergeAll(Reps(Backwards(Prefix)))
=============================================================================
