------------------------------- MODULE QcJob -------------------------------
(***************************************************************************)
(* What a job promises whoever reads its report, with no pool, no unions,  *)
(* no merges and no cached aggregate: each batch of the source is judged   *)
(* in one step, and a verdict once given stands; the documents that are    *)
(* published are the finished job's.  ExecutorRefinement shows that the    *)
(* executor implements it.                                                 *)
(***************************************************************************)
EXTENDS Report

CONSTANTS
    Loader,      \* the node that yields the batches
    Checkers,    \* the nodes that judge samples
    Upstream,    \* Upstream[n]: every node the result of n depends on
    Stream,      \* the batches: [samples, findings]
    Reducers,    \* the nodes that summarise the whole job
    Publications \* the documents of a completed job

VARIABLES
    state,       \* "judging", "publishing", "done" or "raised"
    judged,      \* how many batches have been judged
    verdicts,    \* <<sample, node, check>> -> status
    summaries,   \* the pairs <<node, field>> some summary holds
    published    \* document -> what it says

jobVars == <<state, judged, verdicts, summaries, published>>

JobInit ==
    /\ state = "judging" /\ judged = 0
    /\ verdicts = EmptyMap /\ summaries = {} /\ published = EmptyMap

\* Node n gave sample s an error among the verdicts v.
Condemned(v, n, s) == \E k \in DOMAIN v : k[1] = s /\ k[2] = n /\ v[k] = "error"

\* The checks of v that node n recorded.
RecordedBy(v, n) == {k \in DOMAIN v : k[2] = n}

\* Node n judges exactly the samples of batch b that nothing upstream of it
\* condemned, whatever the other branches make of them.
AsksTheLiving(b, v, n) ==
    \A s \in Stream[b].samples :
        (\E k \in RecordedBy(v, n) : k[1] = s)
            <=> \A a \in Upstream[n] : ~Condemned(v, a, s)

Works(b, v, n) == AsksTheLiving(b, v, n) /\ \A k \in RecordedBy(v, n) : k[3] = "check"

\* Node n fails as a whole: each sample it should have handled is an error.
Breaks(b, v, n) ==
    /\ AsksTheLiving(b, v, n)
    /\ \A k \in RecordedBy(v, n) : k[3] = "error" /\ v[k] = "error"

\* The verdicts v on batch b: what the loader found stands as it is; a checker
\* works or fails, and any other node says nothing or fails.
IsJudgement(b, v) ==
    /\ \A k \in DOMAIN v : k[1] \in
          IF k[2] = Loader THEN DOMAIN Stream[b].findings ELSE Stream[b].samples
    /\ \A s \in DOMAIN Stream[b].findings :
          <<s, Loader, "enumerate">> \in DOMAIN v /\ v[<<s, Loader, "enumerate">>] = Stream[b].findings[s]
    /\ Cardinality(RecordedBy(v, Loader)) = Cardinality(DOMAIN Stream[b].findings)
    /\ \A n \in Checkers : Works(b, v, n) \/ Breaks(b, v, n)
    /\ \A n \in DOMAIN Upstream \ (Checkers \cup {Loader}) :
          RecordedBy(v, n) = {} \/ Breaks(b, v, n)

Extends(v, w) == \A k \in DOMAIN v : k \in DOMAIN w /\ w[k] = v[k]

\* The next batch is judged, all of it at once; earlier verdicts stand.
Judge ==
    /\ state = "judging"
    /\ judged < Len(Stream)
    /\ judged' = judged + 1
    /\ Extends(verdicts, verdicts')
    /\ IsJudgement(judged', Restrict(verdicts', DOMAIN verdicts' \ DOMAIN verdicts))
    /\ UNCHANGED <<state, summaries, published>>

\* The source has no more batches, or fails: a failure is on record.
Close ==
    /\ state = "judging"
    /\ state' = "publishing"
    /\ \/ judged = Len(Stream) /\ UNCHANGED summaries
       \/ summaries' = summaries \cup {<<Loader, "source_error">>}
    /\ UNCHANGED <<judged, verdicts, published>>

Summarise ==
    /\ state = "publishing"
    /\ published = EmptyMap
    /\ \E n \in Reducers : summaries' = summaries \cup {<<n, "digest">>}
    /\ UNCHANGED <<state, judged, verdicts, published>>

\* The samples of v by their worst verdict.
Tally(v) ==
    LET samples == {k[1] : k \in DOMAIN v}
    IN  [x \in Statuses |-> Cardinality({s \in samples : Worst(ChecksOf(v, s)) = x})]

\* What a document says: everything the job found, counted.
Edition == [verdicts |-> verdicts, summaries |-> summaries,
            batches |-> judged, counts |-> Tally(verdicts)]

\* Documents are written only when nothing is left to say.
Publishes ==
    /\ state = "publishing"
    /\ \A n \in Reducers : <<n, "digest">> \in summaries
    /\ \E P \in SUBSET Publications :
          published' = Override(published, [d \in P |-> Edition])
    /\ UNCHANGED <<judged, verdicts, summaries>>

Publish == Publishes /\ UNCHANGED state

\* The job returns, with every document out.
Finish ==
    /\ state = "publishing"
    /\ \A n \in Reducers : <<n, "digest">> \in summaries
    /\ DOMAIN published = Publications
    /\ state' = "done"
    /\ UNCHANGED <<judged, verdicts, summaries, published>>

\* The job fails: what is on record stands, and a document that was written
\* on the way out is as complete as the others.
Fail ==
    /\ state' = "raised"
    /\ \/ /\ state \in {"judging", "publishing"}
          /\ UNCHANGED <<judged, verdicts, summaries, published>>
       \/ Publishes

JobNext == Judge \/ Close \/ Summarise \/ Publish \/ Finish \/ Fail

JobSpec == JobInit /\ [][JobNext]_jobVars
=============================================================================
