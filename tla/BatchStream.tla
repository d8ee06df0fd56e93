---------------------------- MODULE BatchStream ----------------------------
(***************************************************************************)
(* A loader at work: the listing, the items _enumerate makes of it, and    *)
(* batch_stream of kernel.py, which groups them.  The executor pulls one   *)
(* batch at a time; an exception at any point ends the stream there, and   *)
(* the batches that were yielded stand (Executor!SourceRaises).            *)
(***************************************************************************)
EXTENDS Loaders, Maps

CONSTANTS
    Trees,        \* the file trees a loader may meet
    Params        \* the parameters of a loader, as records

\* Sizes and numbers are any integers: the code does not look at them.
ASSUME ParamsAssumption ==
    /\ \A p \in Params : /\ p.batch_size \in Int
                         /\ p.max_samples = NoMax \/ p.max_samples \in Int
                         /\ p.loader \in {"flat", "egoverse"} /\ p.recursive \in BOOLEAN
    /\ \A t \in Trees : /\ DOMAIN t \subseteq Files /\ IsFiniteSet(DOMAIN t)
                       /\ \A f \in DOMAIN t : t[f] \in Nat \/ t[f] = NoSize

VARIABLES
    tree,         \* the files and their sizes
    params,       \* [loader, recursive, order, max_samples, batch_size]
    listing,      \* what fsspec answers
    phase,        \* "listing", "items", "done" or "raised"
    items,        \* what _enumerate will yield
    taken,        \* how many of them batch_stream took
    pending,      \* batch_stream: the samples of the batch under construction
    rext,         \* batch_stream: its findings, id -> status
    batches       \* what batch_stream yielded: [samples, findings, index]

vars == <<tree, params, listing, phase, items, taken, pending, rext, batches>>

input == <<tree, params, listing>>

\* The one loader always lists the whole tree; the other has a parameter.
Init ==
    /\ tree \in Trees
    /\ params \in Params
    /\ listing \in Listings(tree, params.loader = "egoverse" \/ params.recursive)
    /\ phase = "listing"
    /\ items = <<>> /\ taken = 0
    /\ pending = <<>> /\ rext = EmptyMap /\ batches = <<>>

\* The first next() of the generator lists, groups and sorts.
List ==
    /\ phase = "listing"
    /\ items' = Enumerate(params.loader, listing, params.order, params.max_samples)
    /\ phase' = "items"
    /\ UNCHANGED <<input, taken, pending, rext, batches>>

\* The listing fails, or a vendor's enumeration does in the middle.
Raises ==
    /\ phase \in {"listing", "items"}
    /\ phase' = "raised"
    /\ UNCHANGED <<input, items, taken, pending, rext, batches>>

Batch(samples, findings) ==
    [samples |-> samples, findings |-> findings, index |-> Len(batches)]

OneTooMany(samples, findings) ==    \* bug: > for >=
    IF Len(samples) > params.batch_size
    THEN /\ batches' = Append(batches, Batch(samples, findings))
         /\ pending' = <<>> /\ rext' = EmptyMap
    ELSE /\ pending' = samples /\ rext' = findings
         /\ UNCHANGED batches

\* A full batch is yielded as soon as it is full.
YieldIfFull(samples, findings) ==
    IF Len(samples) >= params.batch_size
    THEN /\ batches' = Append(batches, Batch(samples, findings))
         /\ pending' = <<>> /\ rext' = EmptyMap
    ELSE /\ pending' = samples /\ rext' = findings
         /\ UNCHANGED batches

\* One turn of the loop.
TakeItem ==
    /\ phase = "items" /\ taken < Len(items)
    /\ taken' = taken + 1
    /\ LET item == items[taken + 1]
       IN  IF item.kind = "sample"
           THEN YieldIfFull(Append(pending, item), rext)
           ELSE YieldIfFull(pending, Override(rext, [i \in {item.id} |-> "error"]))
    /\ UNCHANGED <<input, phase, items>>

NoTrailingFindings ==    \* bug: `if pending:`
    /\ phase = "items" /\ taken = Len(items)
    /\ batches' = IF pending # <<>> THEN Append(batches, Batch(pending, rext)) ELSE batches
    /\ phase' = "done" /\ pending' = <<>> /\ rext' = EmptyMap
    /\ UNCHANGED <<input, items, taken>>

\* The items are exhausted: what is left is a batch of its own.
Trailing ==
    /\ phase = "items" /\ taken = Len(items)
    /\ batches' = IF pending # <<>> \/ rext # EmptyMap
                  THEN Append(batches, Batch(pending, rext)) ELSE batches
    /\ phase' = "done" /\ pending' = <<>> /\ rext' = EmptyMap
    /\ UNCHANGED <<input, items, taken>>

Next == List \/ Raises \/ TakeItem \/ Trailing

Spec == Init /\ [][Next]_vars

-----------------------------------------------------------------------------
Samples(n) == {i \in 1 .. n : items[i].kind = "sample"}

Emitted == FlattenSeq([i \in DOMAIN batches |-> batches[i].samples])

\* The batch that item i belongs to: as many samples came before it as fill
\* the batches before.
BatchOf(i) ==
    IF params.batch_size <= 0 THEN i - 1
    ELSE Cardinality(Samples(i - 1)) \div params.batch_size

\* kernel.py 77-78, "Findings ride along with the batch under construction,
\* and a trailing batch carrying nothing but findings is still emitted": at
\* any time the samples taken are the ones yielded and the ones held, in
\* order, and each finding taken is in the batch it came with and in no
\* other, whatever raises afterwards.
StreamIsWhole ==
    /\ Emitted \o pending = At(items, Samples(taken))
    /\ phase = "done" => pending = <<>> /\ rext = EmptyMap
    /\ \A i \in 1 .. taken : items[i].kind = "finding" =>
          IF BatchOf(i) < Len(batches)
          THEN items[i].id \in DOMAIN batches[BatchOf(i) + 1].findings
          ELSE items[i].id \in DOMAIN rext
    /\ \A b \in DOMAIN batches : \A id \in DOMAIN batches[b].findings :
          \E i \in 1 .. taken : items[i] = Finding(id) /\ BatchOf(i) = b - 1

\* flat_dir.py 29, "samples per batch": a batch is never larger, and only the
\* stream's last one is smaller, so that an exception loses fewer samples than
\* a batch holds; a batch size of 0 or less makes each item a batch.
BatchesAreFull ==
    LET full == IF params.batch_size <= 0 THEN 1 ELSE params.batch_size
    IN  /\ Len(pending) < full
        /\ \A b \in DOMAIN batches :
              /\ batches[b].index = b - 1
              /\ batches[b].samples # <<>> \/ batches[b].findings # EmptyMap
              /\ \/ Len(batches[b].samples) = full
                 \/ params.batch_size <= 0 /\ Len(batches[b].samples) <= full
                 \/ phase = "done" /\ b = Len(batches) /\ Len(batches[b].samples) < full

-----------------------------------------------------------------------------
(* What a loader promises of its items, in terms of the tree *)

SizeOf(f) == IF tree[f] = NoSize THEN 0 ELSE tree[f]

Videos(d) == {f \in DOMAIN tree : Ext[f] = "video" /\ Dir[f] = d}

\* The directories with a file in them, the root left out.
SampleDirs == {Dir[f] : f \in DOMAIN tree} \ {Top}

\* loaders.md, "Within a directory the largest media file wins" and "A
\* directory with no video becomes an `error` sample": no directory that holds
\* a video is called empty, none that does not is called a sample, and the
\* sidecar is the directory's own.
LargestVideoWins ==
    params.loader = "egoverse" =>
        \A i \in DOMAIN items : \E d \in SampleDirs :
            /\ items[i].id = Basename[d]
            /\ IF \A f \in Videos(d) : SizeOf(f) = 0
               THEN items[i] = Finding(Basename[d])
               ELSE /\ items[i].video \in Videos(d)
                    /\ \A f \in Videos(d) : SizeOf(f) <= SizeOf(items[i].video)
                    /\ LET sidecars == {f \in DOMAIN tree : Ext[f] = "json" /\ Dir[f] = d}
                       IN  items[i].json \in sidecars \cup {NoFile}
                             /\ (items[i].json = NoFile => sidecars = {})

\* What a loader has to answer, each with its place in the order asked for:
\* the media files in reach, or the sample directories.
Wanted ==
    IF params.loader = "flat"
    THEN {[id |-> FlatId(f), key |-> IF params.order = "size" THEN SizeOf(f) ELSE f, of |-> f] :
             f \in {f \in DOMAIN tree : Ext[f] = "video" /\ (params.recursive \/ Dir[f] = Top)}}
    ELSE {[id |-> Basename[d], of |-> d,
           key |-> IF params.order = "size"
                   THEN Max({0} \cup {SizeOf(f) : f \in Videos(d)}) ELSE d] : d \in SampleDirs}

\* flat_dir.py 32-33, "ascending" and "stop after N samples": every media
\* file or directory gets its one answer, in ascending order; with max_samples
\* it is the lowest that are answered, whatever order the listing had (a slice
\* with a negative number leaves that many of the highest out).
LowestAreAnswered ==
    phase \in {"items", "done"} =>
        /\ Len(items) = LET all == Cardinality(Wanted) IN
                        IF params.max_samples = NoMax THEN all
                        ELSE IF params.max_samples >= 0 THEN Min({params.max_samples, all})
                        ELSE Max({0, all + params.max_samples})
        /\ \E key \in [DOMAIN items -> Wanted] :
              /\ \A i, j \in DOMAIN items : i < j => key[i] # key[j] /\ key[i].key <= key[j].key
              /\ \A i \in DOMAIN items : items[i].id = key[i].id
              /\ \A w \in Wanted \ {key[i] : i \in DOMAIN items} :
                    \A i \in DOMAIN items : key[i].key <= w.key

\* flat_dir.py 32, "``name`` (default) or ``size`` - ascending, always
\* deterministic": the items are those of any other listing of the tree.
OrderIsDeterministic ==
    phase = "items" =>
        \A other \in Listings(tree, params.loader = "egoverse" \/ params.recursive) :
            items = Enumerate(params.loader, other, params.order, params.max_samples)
=============================================================================
