----------------------------- MODULE FrameStack -----------------------------
(***************************************************************************)
(* The kernels that share a video's frames, on the disk cache: one batch   *)
(* of one sample per process, run by the process's threads.                *)
(*                                                                         *)
(*   frames   VideoFrameKernel.sift: renders the stack into the cache, in  *)
(*            a fetch that itself asks the cache for the video             *)
(*   dump     VideoDumper.sift: encodes the stack into the cache, in a     *)
(*            fetch that decodes the handle, and copies the result out     *)
(*   read     a check kernel that decodes the same handle                  *)
(*   free     an archiver in free mode, downstream of both                 *)
(*                                                                         *)
(* A thread is a stack of two calls of materialize, the outer one and the  *)
(* one its fetch makes: DiskCache's Threads are these frames, and Inner    *)
(* says which frame is on top of which.  The locks a thread can hold are   *)
(* the cache's, per process and key, and LazyRaw._lock of the handle the   *)
(* process published.                                                      *)
(***************************************************************************)
EXTENDS DiskCache

CONSTANTS
    Inner,           \* Inner[t]: the frame of the call that t's fetch makes
    Video, Stack, Encoded,    \* the cache keys
    Runs,            \* Runs[w]: the nodes of the pipeline process w runs
    Faults           \* bound: how often a codec, a read or a disk write fails

Outer   == DOMAIN Inner
Workers == {Worker[t] : t \in Outer}

ASSUME FrameAssumption ==
    /\ {Video, Stack, Encoded} \subseteq Keys
    /\ Video # Stack /\ Stack # Encoded /\ Video # Encoded
    /\ Threads = Outer \cup {Inner[t] : t \in Outer}
    /\ \A t \in Outer : Inner[t] \notin Outer /\ Worker[Inner[t]] = Worker[t]
    /\ \A t, u \in Outer : Inner[t] = Inner[u] => t = u

VARIABLES
    node,         \* the node whose sift thread t runs, or "none"
    at,           \* where t is in it
    verdict,      \* per process and node: "none", "pass" or "error"
    memo,         \* per process: is the handle's map memoized
    holder,       \* per process: the threads that hold the handle's lock
    dumps,        \* per process: the file at the dump path
    faults,
    disturbed     \* history, per process: something failed or went missing

frameVars == <<node, at, verdict, memo, holder, dumps, faults, disturbed>>

allVars == <<vars, frameVars>>

Nodes == {"frames", "dump", "read", "free"}

\* The edges of the DAG: what must be folded before a node is submitted.
Upstream == [n \in Nodes |-> CASE n = "frames" -> {}
                               [] n \in {"dump", "read"} -> {"frames"}
                               [] n = "free" -> {"frames", "dump", "read"}]

ASSUME RunsAssumption ==
    Runs \in [Workers -> SUBSET Nodes] /\ \A w \in Workers : "frames" \in Runs[w]

FrameInit ==
    /\ Init
    /\ node = [t \in Outer |-> "none"] /\ at = [t \in Outer |-> "idle"]
    /\ verdict = [w \in Workers |-> [n \in Nodes |-> "none"]]
    /\ memo = [w \in Workers |-> FALSE]
    /\ holder = [w \in Workers |-> {}]
    /\ dumps = [w \in Workers |-> "none"]
    /\ faults = 0
    /\ disturbed = [w \in Workers |-> FALSE]

PercentEncoded == NoKey    \* bug: as_uri(), whose path no file has

\* The entry that the handle of the stack names: file_uri of its path.
HandleEntry == Stack

-----------------------------------------------------------------------------
(* The control of a sift *)

W(t) == Worker[t]

To(t, step) == at' = [at EXCEPT ![t] = step]

\* The sift returns a check, or raises, which SampleKernel.run turns into an
\* error of the sample.
Answers(t, v) ==
    /\ To(t, "idle")
    /\ node' = [node EXCEPT ![t] = "none"]
    /\ verdict' = [verdict EXCEPT ![W(t)][node[t]] = v]

\* The processes that have begun the sample.
Busy == {w \in Workers : \/ \E n \in Nodes : verdict[w][n] # "none"
                         \/ \E t \in Outer : W(t) = w /\ at[t] # "idle"}

Disturb(ws) == disturbed' = [w \in Workers |-> disturbed[w] \/ w \in ws]

\* Bound on crashes: where a process died, one process at a time goes on.
Alone(w) == crashes > 0 => Busy \subseteq {w}

IdleIn(w) == {t \in Outer : W(t) = w /\ at[t] = "idle"}

\* A worker of the pool takes a node whose inputs are there; idle threads are
\* alike, so one stands for all.  The sample is dead for the nodes behind
\* frames when frames failed.
Submit(t, n) ==
    /\ at[t] = "idle" /\ t = CHOOSE u \in IdleIn(W(t)) : TRUE
    /\ Alone(W(t))
    /\ n \in Runs[W(t)] /\ verdict[W(t)][n] = "none"
    /\ \A u \in Outer : W(u) = W(t) => node[u] # n
    /\ \A m \in Upstream[n] \cap Runs[W(t)] : verdict[W(t)][m] # "none"
    /\ verdict[W(t)]["frames"] = "error" => n = "frames"
    /\ node' = [node EXCEPT ![t] = n]
    /\ To(t, CASE n = "frames" -> "header" [] n = "dump" -> "call"
               [] n = "read" -> "decode" [] n = "free" -> "forget")
    /\ UNCHANGED <<vars, verdict, memo, holder, dumps, faults, disturbed>>

\* Something outside fails where t is: a codec, a read, a disk write.
Fault(t) ==
    /\ faults < Faults
    /\ faults' = faults + 1
    /\ Disturb({W(t)})

\* _meta(src): the header is read through a remote file object, not through
\* the cache.
ReadHeader(t) ==
    /\ at[t] = "header"
    /\ To(t, "call")
    /\ UNCHANGED <<vars, node, verdict, memo, holder, dumps, faults, disturbed>>

ReadHeaderFails(t) ==
    /\ at[t] = "header"
    /\ Fault(t)
    /\ Answers(t, "error")
    /\ UNCHANGED <<vars, memo, holder, dumps>>

-----------------------------------------------------------------------------
(* materialize, from the kernel's side *)

\* Frame f enters materialize(k).
Enter(f, k) ==
    /\ pc[f] = "idle"
    /\ pc' = [pc EXCEPT ![f] = "probe"]
    /\ key' = [key EXCEPT ![f] = k]
    /\ UNCHANGED <<files, parts, locked, evictVars, counters>>

Wanted(t) == IF node[t] = "frames" THEN Stack ELSE Encoded

Materialize(t) ==
    /\ at[t] = "call"
    /\ Enter(t, Wanted(t))
    /\ To(t, "cached")
    /\ UNCHANGED <<node, verdict, memo, holder, dumps, faults, disturbed>>

\* The steps of frame f that are not its fetch.
CallStep(f) ==
    \/ Probe(f) \/ Acquire(f) \/ Recheck(f) \/ Touch(f) \/ Replace(f) \/ Cleanup(f)
    \/ List(f) \/ Stat(f) \/ Drop(f) \/ Evicted(f)

\* An entry went in this step: every process that has begun may miss it.
Removes == ~(DOMAIN files \subseteq DOMAIN files')

\* Where the sift goes on when its call is over.
AfterCall(t) ==
    IF pc[t] = "cleanup" THEN "raise"
    ELSE IF node[t] = "frames" THEN "stat" ELSE "copy"

OuterStep(t) ==
    /\ at[t] \in {"cached", "failed"}
    /\ CallStep(t)
    /\ IF pc'[t] = "idle" THEN To(t, AfterCall(t)) ELSE UNCHANGED at
    /\ Disturb(IF Removes THEN Busy ELSE {})
    /\ UNCHANGED <<node, verdict, memo, holder, dumps, faults>>

\* fetch is called: _render asks for the video first, _encode for the stack.
FetchCalls(t) ==
    /\ at[t] = "cached" /\ pc[t] = "fetch"
    /\ IF node[t] = "frames"
       THEN Enter(Inner[t], Video) /\ To(t, "video")
       ELSE UNCHANGED vars /\ To(t, "decode")
    /\ UNCHANGED <<node, verdict, memo, holder, dumps, faults, disturbed>>

\* LazyRaw.local_path, called by the fetch; the inner fetch is fs.get_file.
InnerStep(t) ==
    LET f == Inner[t]
    IN  /\ at[t] = "video"
        /\ CallStep(f) \/ FetchBegins(f) \/ FetchReturns(f)
        /\ IF pc'[f] = "idle"
           THEN To(t, IF pc[f] = "cleanup" THEN "failed" ELSE "open")
           ELSE UNCHANGED at
        /\ Disturb(IF Removes THEN Busy ELSE {})
        /\ UNCHANGED <<node, verdict, memo, holder, dumps, faults>>

InnerFails(t) ==
    /\ at[t] = "video"
    /\ Fails(Inner[t])
    /\ Fault(t)
    /\ UNCHANGED <<node, at, verdict, memo, holder, dumps>>

\* av.open(src_path): from here on the video may be unlinked.
Open(t) ==
    /\ at[t] = "open"
    /\ To(t, IF Video \in DOMAIN files THEN "render" ELSE "failed")
    /\ UNCHANGED <<vars, node, verdict, memo, holder, dumps, faults, disturbed>>

\* The frames, or the packets, are written to the part file.
Render(t) ==
    /\ at[t] = "render"
    /\ FetchBegins(t) \/ FetchReturns(t)
    /\ IF pc'[t] = "replace" THEN To(t, "cached") ELSE UNCHANGED at
    /\ UNCHANGED <<node, verdict, memo, holder, dumps, faults, disturbed>>

RenderFails(t) ==
    /\ at[t] = "render"
    /\ Fails(t)
    /\ To(t, "failed")
    /\ Fault(t)
    /\ UNCHANGED <<node, verdict, memo, holder, dumps>>

\* The fetch raised what its own steps raised.
FetchRaises(t) ==
    /\ at[t] = "failed" /\ pc[t] = "fetch"
    /\ Fails(t)
    /\ UNCHANGED frameVars

\* materialize raised: so does the sift.
Raises(t) ==
    /\ at[t] = "raise"
    /\ Answers(t, "error")
    /\ UNCHANGED <<vars, memo, holder, dumps, faults, disturbed>>

\* path.stat(): a stack that is there becomes the sample's artifact.
StatStack(t) ==
    /\ at[t] = "stat"
    /\ Answers(t, IF Stack \in DOMAIN files THEN "pass" ELSE "error")
    /\ UNCHANGED <<vars, memo, holder, dumps, faults, disturbed>>

-----------------------------------------------------------------------------
(* LazyRaw.decode of the handle *)

\* with self._lock
Hold(t) ==
    /\ at[t] = "decode"
    /\ holder[W(t)] = {}
    /\ holder' = [holder EXCEPT ![W(t)] = {t}]
    /\ To(t, "memo")
    /\ UNCHANGED <<vars, node, verdict, memo, dumps, faults, disturbed>>

\* What follows decode: the encode, or the check.
Decoded(t) ==
    IF node[t] = "dump" THEN To(t, "render") /\ UNCHANGED <<node, verdict>>
    ELSE Answers(t, "pass")

\* A memoized map needs no file; a first decode maps the file the handle
\* names.
Decode(t) ==
    /\ at[t] = "memo"
    /\ memo[W(t)] \/ HandleEntry \in DOMAIN files
    /\ memo' = [memo EXCEPT ![W(t)] = TRUE]
    /\ holder' = [holder EXCEPT ![W(t)] = {}]
    /\ Decoded(t)
    /\ UNCHANGED <<vars, dumps, faults, disturbed>>

KeepsTheLock(t) ==    \* bug: the lock is not released by the exception
    /\ at[t] = "memo"
    /\ ~memo[W(t)] /\ HandleEntry \notin DOMAIN files
    /\ IF node[t] = "dump" THEN To(t, "failed") /\ UNCHANGED <<node, verdict>>
       ELSE Answers(t, "error")
    /\ UNCHANGED <<vars, memo, holder, dumps, faults, disturbed>>

\* The entry has gone: DecodeError.
DecodeFails(t) ==
    /\ at[t] = "memo"
    /\ ~memo[W(t)] /\ HandleEntry \notin DOMAIN files
    /\ holder' = [holder EXCEPT ![W(t)] = {}]
    /\ IF node[t] = "dump" THEN To(t, "failed") /\ UNCHANGED <<node, verdict>>
       ELSE Answers(t, "error")
    /\ UNCHANGED <<vars, memo, dumps, faults, disturbed>>

-----------------------------------------------------------------------------
(* VideoDumper.sift after the encode; the archiver in free mode *)

\* copy_file opens the encode, then the target, which that truncates.
CopyBegins(t) ==
    /\ at[t] = "copy"
    /\ IF Encoded \in DOMAIN files
       THEN /\ dumps' = [dumps EXCEPT ![W(t)] = "truncated"]
            /\ To(t, "copying")
            /\ UNCHANGED <<node, verdict>>
       ELSE Answers(t, "error") /\ UNCHANGED dumps
    /\ UNCHANGED <<vars, memo, holder, faults, disturbed>>

Copied(t) ==
    /\ at[t] = "copying"
    /\ dumps' = [dumps EXCEPT ![W(t)] = "whole"]
    /\ To(t, "size")
    /\ UNCHANGED <<vars, node, verdict, memo, holder, faults, disturbed>>

PassesAnyway(t) ==    \* bug: a failed write is not an error of the sample
    /\ at[t] = "copying"
    /\ Fault(t)
    /\ To(t, "size")
    /\ UNCHANGED <<vars, node, verdict, memo, holder, dumps>>

CopyFails(t) ==
    /\ at[t] = "copying"
    /\ Fault(t)
    /\ Answers(t, "error")
    /\ UNCHANGED <<vars, memo, holder, dumps>>

\* local.stat(), after the copy.
StatEncoded(t) ==
    /\ at[t] = "size"
    /\ Answers(t, IF Encoded \in DOMAIN files THEN "pass" ELSE "error")
    /\ UNCHANGED <<vars, memo, holder, dumps, faults, disturbed>>

\* forget(handle.uri): the handle's file:// path is the entry itself.
FreeStack(t) ==
    /\ at[t] = "forget"
    /\ files' = Without(files, {HandleEntry})
    /\ Disturb(Busy \ {W(t)})
    /\ Answers(t, "pass")
    /\ UNCHANGED <<parts, pc, key, locked, evictVars, counters, memo, holder, dumps, faults>>

-----------------------------------------------------------------------------
\* Process w dies at any point of its batch and its job is retried; what is
\* on disk stays, the dump path included.  Bound: it dies alone, and is retried
\* alone (Alone).
CrashAndRetry(w) ==
    LET mine == {t \in Outer : W(t) = w}
    IN  /\ Busy = {w}
        /\ Crash(w)
        /\ node' = [t \in Outer |-> IF t \in mine THEN "none" ELSE node[t]]
        /\ at' = [t \in Outer |-> IF t \in mine THEN "idle" ELSE at[t]]
        /\ verdict' = [verdict EXCEPT ![w] = [n \in Nodes |-> "none"]]
        /\ memo' = [memo EXCEPT ![w] = FALSE]
        /\ holder' = [holder EXCEPT ![w] = {}]
        /\ disturbed' = [disturbed EXCEPT ![w] = FALSE]
        /\ UNCHANGED <<dumps, faults>>

SiftStep(t) ==
    \/ ReadHeader(t) \/ Materialize(t) \/ OuterStep(t) \/ FetchCalls(t) \/ InnerStep(t)
    \/ Open(t) \/ Render(t) \/ FetchRaises(t) \/ Raises(t) \/ StatStack(t)
    \/ Hold(t) \/ Decode(t) \/ DecodeFails(t)
    \/ CopyBegins(t) \/ Copied(t) \/ StatEncoded(t) \/ FreeStack(t)

Breaks(t) == ReadHeaderFails(t) \/ InnerFails(t) \/ RenderFails(t) \/ CopyFails(t)

FrameNext ==
    \/ \E t \in Outer : SiftStep(t) \/ Breaks(t) \/ \E n \in Nodes : Submit(t, n)
    \/ \E w \in Workers : CrashAndRetry(w)

FrameSpec ==
    FrameInit /\ [][FrameNext]_allVars /\ \A t \in Outer : WF_allVars(SiftStep(t))

-----------------------------------------------------------------------------
\* frames.py 80-83 and video.py 82-86: locks are taken in a fixed order, the
\* encode's or the stack's, then the handle's or the video's, and released by
\* every exception: whatever fails, every sift answers.
EverySiftAnswers == \A t \in Outer : at[t] # "idle" ~> at[t] = "idle"

\* frames.py 77-79, video.py 79-81: an error of a kernel that shares frames
\* has a cause outside of it: something failed, or an entry was evicted or
\* freed while its batch was under way.  Nested calls, the handle's path and
\* other threads' downloads never are one.
ErrorsHaveACause ==
    \A w \in Workers : \A n \in Nodes : verdict[w][n] = "error" => disturbed[w]

\* video.py 87-103 and _dump.py 108: a sample whose dump passed has a whole
\* video at its path, whatever truncated file an attempt that died or failed
\* had left there.
PassedDumpIsWhole ==
    \A w \in Workers : verdict[w]["dump"] = "pass" => dumps[w] = "whole"
=============================================================================
