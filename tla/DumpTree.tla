------------------------------ MODULE DumpTree ------------------------------
(***************************************************************************)
(* What the writing kernels leave on disk over the attempts of one job:    *)
(* the paths of kernels/_dump.py and the writes of DataArchiver and        *)
(* VideoDumper, which go in place, one file after the other.  An attempt   *)
(* may fail or be killed at any of them and the job be run again; the YAML *)
(* may be edited at any time, by somebody else.                            *)
(*                                                                         *)
(* A definition stands for the pipeline a YAML spells, its hash included.  *)
(* What a write leaves is [def, attempt, of, whole]: by which definition's *)
(* run, of which object, and whether it is all there.                      *)
(***************************************************************************)
EXTENDS Integers, SequencesExt, Maps

CONSTANTS
    Defs,          \* the definitions the YAML takes
    Explicit,      \* the definitions whose kernels name a target
    Objects,       \* Objects[d]: the <<node, key>> that d's run writes, in order
    FlatName,      \* FlatName[k]: one path segment out of key k
    Dumpers,       \* the nodes whose kernels write the samples one by one
    Documents,     \* what the archiver's commit writes, in order
    NoRun,         \* the run of no process
    MaxAttempts, MaxEdits, MaxTime    \* bounds

ASSUME DumpAssumption ==
    /\ Explicit \subseteq Defs
    /\ Documents \in Seq({"report.json", "pipeline.json", "pipeline.yaml"})
    /\ \A i, j \in DOMAIN Documents : Documents[i] = Documents[j] => i = j
    /\ \A d \in Defs : /\ Objects[d] \in Seq(Range(Objects[d]))
                       /\ \A i \in DOMAIN Objects[d] : Objects[d][i][2] \in DOMAIN FlatName
    /\ NoRun \notin [def : Defs, started : Nat, attempt : Nat, next : Nat,
                     open : BOOLEAN, failed : BOOLEAN]

VARIABLES
    yaml,        \* the definition in the YAML file
    clock,       \* in seconds, as int(time.time()) is
    tree,        \* path -> what the last write left there
    run,         \* the attempt under way: [def, started, attempt, next, open, failed]
    handles,     \* the objects that were swapped for a handle in this attempt
    finished,    \* history: the attempts that came to their end
    attempts, edits

vars == <<yaml, clock, tree, run, handles, finished, attempts, edits>>

Init ==
    /\ yaml \in Defs
    /\ clock = 0
    /\ tree = EmptyMap
    /\ run = NoRun
    /\ handles = {}
    /\ finished = {}
    /\ attempts = 0 /\ edits = 0

-----------------------------------------------------------------------------
(* Paths *)

WithoutTheHash(r) == <<"job">>    \* bug: the job id alone

\* {job_id}_{pipeline_hash}
JobDir(r) == <<"job", r.def>>

\* The start of the run is in the path where the pipeline names no target.
RunRoot(r) == IF r.def \in Explicit THEN JobDir(r) ELSE JobDir(r) \o <<r.started>>

OneSegment(r, node, name) == RunRoot(r) \o <<node>>    \* bug: the sample is not in the path

PathFor(r, node, name) == RunRoot(r) \o <<node, FlatName[name]>>

\* The config goes beside the runs.
DocumentPath(r, doc) ==
    IF doc = "pipeline.yaml" THEN JobDir(r) \o <<doc>> ELSE RunRoot(r) \o <<"archive", doc>>

\* What attempt r writes, in order: the objects of its batch, then the
\* documents of the commit pass.
Writes(r) ==
    [i \in DOMAIN Objects[r.def] |->
        [path |-> PathFor(r, Objects[r.def][i][1], Objects[r.def][i][2]),
         of |-> Objects[r.def][i]]]
    \o [i \in DOMAIN Documents |->
           [path |-> DocumentPath(r, Documents[i]), of |-> <<"commit", Documents[i]>>]]

Current == Writes(run)[run.next]

Committing == run.next > Len(Objects[run.def])

\* The YAML file is read when it is copied; anything else the run holds.
Source(w) == IF w.of[2] = "pipeline.yaml" THEN yaml ELSE run.def

-----------------------------------------------------------------------------
(* An attempt *)

Launch ==
    /\ run = NoRun /\ attempts < MaxAttempts
    /\ attempts' = attempts + 1
    /\ run' = [def |-> yaml, started |-> clock, attempt |-> attempts + 1, next |-> 1,
               open |-> FALSE, failed |-> FALSE]
    /\ handles' = {}
    /\ UNCHANGED <<yaml, clock, tree, finished, edits>>

SkipsExisting ==    \* bug: a file that is there is not written again
    /\ run # NoRun /\ run.next <= Len(Writes(run)) /\ ~run.open
    /\ IF Current.path \in DOMAIN tree
       THEN /\ run' = [run EXCEPT !.next = @ + 1]
            /\ handles' = IF Committing THEN handles ELSE handles \cup {Current}
            /\ UNCHANGED tree
       ELSE /\ tree' = Override(tree, [p \in {Current.path} |->
                         [def |-> Source(Current), attempt |-> run.attempt,
                          of |-> Current.of, whole |-> FALSE]])
            /\ run' = [run EXCEPT !.open = TRUE]
            /\ UNCHANGED handles
    /\ UNCHANGED <<yaml, clock, finished, attempts, edits>>

\* write_stream opens the destination, which truncates what was there.
OpenFile ==
    /\ run # NoRun /\ run.next <= Len(Writes(run)) /\ ~run.open
    /\ tree' = Override(tree, [p \in {Current.path} |->
                  [def |-> Source(Current), attempt |-> run.attempt,
                   of |-> Current.of, whole |-> FALSE]])
    /\ run' = [run EXCEPT !.open = TRUE]
    /\ UNCHANGED <<yaml, clock, handles, finished, attempts, edits>>

\* The copy is complete; an object's value gives way to its handle.
CloseFile ==
    /\ run # NoRun /\ run.open
    /\ tree' = [tree EXCEPT ![Current.path].whole = TRUE]
    /\ run' = [run EXCEPT !.next = @ + 1, !.open = FALSE]
    /\ handles' = IF Committing THEN handles ELSE handles \cup {Current}
    /\ UNCHANGED <<yaml, clock, finished, attempts, edits>>

\* The first write after those of the node that failed.
NextNode == Min({i \in run.next + 1 .. Len(Writes(run)) + 1 :
                    i = Len(Writes(run)) + 1 \/ Writes(run)[i].of[1] # Current.of[1]})

\* A write fails half way.  To a SampleKernel that is the error of one sample,
\* and it goes on with the next.  Any other node fails as a whole, with none of
\* its objects swapped, and the job goes on; in the commit pass it is the job
\* that fails.
WriteFails ==
    /\ run # NoRun /\ run.open
    /\ \/ Committing /\ run' = NoRun /\ handles' = {}
       \/ /\ ~Committing /\ Current.of[1] \in Dumpers
          /\ run' = [run EXCEPT !.next = @ + 1, !.open = FALSE, !.failed = TRUE]
          /\ UNCHANGED handles
       \/ /\ ~Committing /\ Current.of[1] \notin Dumpers
          /\ run' = [run EXCEPT !.next = NextNode, !.open = FALSE, !.failed = TRUE]
          /\ handles' = {h \in handles : h.of[1] # Current.of[1]}
    /\ UNCHANGED <<yaml, clock, tree, finished, attempts, edits>>

Finish ==
    /\ run # NoRun /\ run.next > Len(Writes(run))
    /\ finished' = finished \cup {run}
    /\ run' = NoRun /\ handles' = {}
    /\ UNCHANGED <<yaml, clock, tree, attempts, edits>>

Killed ==
    /\ run # NoRun
    /\ run' = NoRun /\ handles' = {}
    /\ UNCHANGED <<yaml, clock, tree, finished, attempts, edits>>

Edit(d) ==
    /\ edits < MaxEdits /\ d # yaml
    /\ yaml' = d
    /\ edits' = edits + 1
    /\ UNCHANGED <<clock, tree, run, handles, finished, attempts>>

\* The clock is read when a run starts and never again: between runs is
\* where it matters that time passes.
Tick ==
    /\ run = NoRun /\ clock < MaxTime
    /\ clock' = clock + 1
    /\ UNCHANGED <<yaml, tree, run, handles, finished, attempts, edits>>

Next == \/ Launch \/ OpenFile \/ CloseFile \/ WriteFails \/ Finish \/ Killed
        \/ Tick \/ \E d \in Defs : Edit(d)

Spec == Init /\ [][Next]_vars

-----------------------------------------------------------------------------
\* archiver.py 11-13, "a downstream reader calls .decode() and gets the value
\* back either way": until the attempt ends, every handle names a whole file,
\* of the object it replaced, written by this attempt.
HandlesReadBack ==
    \A h \in handles :
        /\ h.path \in DOMAIN tree
        /\ tree[h.path].whole /\ tree[h.path].of = h.of
        /\ tree[h.path].attempt = run.attempt

\* The paths of run r, the config apart.
PathsOf(r) == {w.path : w \in {w \in Range(Writes(r)) : w.of[2] # "pipeline.yaml"}}

\* _dump.py 50-55, "overwriting the earlier run's artifacts with it would
\* destroy the evidence", and 78-81: what a finished run wrote changes only by
\* an attempt of the same definition, and under the dated default only by one
\* that started within the same second.
EvidenceStands ==
    [][\A r \in finished : \A p \in PathsOf(r) \cap DOMAIN tree : tree'[p] # tree[p] =>
          /\ run.def = r.def
          /\ r.def \notin Explicit => run.started = r.started]_vars

\* _dump.py 5-7, "a retried job overwrites exactly what it wrote before": once
\* an attempt ends well, everything it wrote is whole and its own, and under
\* an explicit target its directory holds that and nothing else, whatever the
\* attempts before it left there.
RetryHeals ==
    [][\A r \in finished' \ finished : ~r.failed =>
          /\ \A w \in Range(Writes(r)) :
                /\ tree[w.path].whole /\ tree[w.path].attempt = r.attempt
                /\ tree[w.path].of = w.of
          /\ r.def \in Explicit =>
                {p \in DOMAIN tree : IsPrefix(JobDir(r), p)} = {w.path : w \in Range(Writes(r))}]_vars

\* archiver.py 125-126, "every run under this directory shares it - that is
\* what the hash in the name asserts": the config in a definition's directory
\* is that definition.
ConfigIsTheDefinition ==
    \A p \in DOMAIN tree : tree[p].of[2] = "pipeline.yaml" => tree[p].def = p[2]

\* _dump.py 80-81, "nothing it writes can collide with an earlier one".
DefaultRunsNeverCollide ==
    [][\A r \in finished : r.def \notin Explicit =>
          \A p \in PathsOf(r) \cap DOMAIN tree : tree'[p] = tree[p]]_vars
=============================================================================
