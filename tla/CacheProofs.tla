---------------------------- MODULE CacheProofs -----------------------------
(***************************************************************************)
(* What the disk cache guarantees for any number of threads, processes,    *)
(* keys, calls and crashes: no truncated entry, one download at a time, no *)
(* part file left behind, and a directory that is within its capacity once *)
(* the evictions have run.  The last needs what a sum over a set is, which *)
(* its definition says by recursion: facts about it are shown by a least   *)
(* number of entries at which they would fail.                             *)
(*                                                                         *)
(* And what it means to the kernels that share a video's frames, whose     *)
(* fetches call the cache again, for any pipelines of those kernels, any   *)
(* capacity and any faults.  A path that materialize returned may be gone  *)
(* when it is used: SiftInv says, at each place of a sift, which entry it  *)
(* counts on, and that its process still finds that entry or has been      *)
(* disturbed.  A first decode counts on the stack of another kernel, which *)
(* no archiver of the process frees while a dump or a check is unanswered: *)
(* this is what the verdicts say of the edges of the graph (Begun,         *)
(* Recorded).                                                              *)
(***************************************************************************)
EXTENDS FrameStack, DataLemmas, FiniteSetTheorems

-----------------------------------------------------------------------------
(* The disk cache *)

\* The steps a thread takes while it holds its key's lock.
Critical(t) == pc[t] \in {"recheck", "touch_locked", "fetch", "write", "replace", "cleanup"}

Shape ==
    /\ IsMap(files, Keys, [mtime : Int, whole : BOOLEAN, by : Range(Worker)])
    /\ IsMap(parts, Threads, [mtime : Int, whole : BOOLEAN])
    /\ pc \in [Threads -> Steps]
    /\ key \in [Threads -> Keys \cup {NoKey}]
    /\ \A t \in Threads : pc[t] # "idle" => key[t] \in Keys
    /\ clock \in Int

\* The locks do exclude: who is in the critical section holds the lock of its
\* process and key, and no other thread holds the same one.
Exclusion ==
    \A t \in Threads : Critical(t) =>
        /\ Lock(t) \in locked
        /\ \A u \in Threads \ {t} : Critical(u) => Lock(u) # Lock(t)

\* A download has a part file, which is whole when it is about to be renamed.
PartsInStep ==
    \A t \in Threads :
        /\ t \in DOMAIN parts => pc[t] \in {"write", "replace", "cleanup"}
        /\ pc[t] \in {"write", "replace"} => t \in DOMAIN parts
        /\ pc[t] = "replace" => parts[t].whole

NotOurs ==
    \A t \in Threads : Downloading(t) /\ Cached(t) => files[key[t]].by # Worker[t]

IInv == Shape /\ Exclusion /\ PartsInStep /\ NotOurs /\ NoTruncatedFile

-----------------------------------------------------------------------------
LEMMA InitInv == Init => IInv
<1> SUFFICES ASSUME Init PROVE IInv
  OBVIOUS
<1>1. DOMAIN files = {} /\ DOMAIN parts = {}
  BY EmptyDomain DEF Init
<1>2. Shape
  BY EmptyIsMap DEF Init, Shape, Steps
<1>3. \A t \in Threads : pc[t] = "idle"
  BY DEF Init
<1> QED BY <1>1, <1>2, <1>3 DEF IInv, Exclusion, PartsInStep, NotOurs, NoTruncatedFile,
           Critical, Downloading, Cached

\* What the steps of a thread have in common: they move no other thread.
LEMMA OthersStay ==
    ASSUME Shape, NEW t \in Threads, Step(t) \/ \E k \in Keys : Call(t, k) \/ Forget(t, k)
    PROVE  /\ \A u \in Threads \ {t} : pc'[u] = pc[u] /\ key'[u] = key[u]
           /\ pc' \in [Threads -> Steps]
           /\ key' \in [Threads -> Keys \cup {NoKey}]
           /\ \A u \in Threads : pc'[u] # "idle" => key'[u] \in Keys
BY DEF Shape, Steps, Step, Call, Forget, Probe, Acquire, AfterRecheck, Recheck, Touch,
       FetchBegins, FetchReturns, Fails, Replace, Cleanup, List, Stat, Drop, Evicted,
       Goto, Leave

\* Entries come and go, but a thread that downloads meets no new one.
LEMMA ShapeStep == ASSUME IInv, [Next]_vars PROVE Shape'
<1>1. ASSUME NEW t \in Threads, Step(t) \/ \E k \in Keys : Call(t, k) \/ Forget(t, k)
      PROVE  Shape'
  <2>1. CASE Touch(t)
    BY <1>1, <2>1, OthersStay DEF IInv, Shape, Touch, IsMap, Cached
  <2>2. CASE FetchBegins(t)
    BY <1>1, <2>2, OthersStay DEF IInv, Shape, FetchBegins, IsMap, Override, counters
  <2>3. CASE FetchReturns(t)
    <3> DEFINE P == [mtime : Int, whole : BOOLEAN]
    <3>1. [mtime |-> clock + 1, whole |-> TRUE] \in P /\ clock' \in Int
      BY <2>3 DEF IInv, Shape, FetchReturns
    <3>2. parts' = [parts EXCEPT ![t] = [mtime |-> clock + 1, whole |-> TRUE]]
      BY <2>3 DEF FetchReturns
    <3> HIDE DEF P
    <3>3. IsMap(parts, Threads, P)
      BY DEF IInv, Shape, P
    <3>4. IsMap(parts', Threads, P)
      BY <3>1, <3>2, <3>3 DEF IsMap
    <3> QED BY <1>1, <2>3, <3>1, <3>4, OthersStay DEF IInv, Shape, FetchReturns, P
  <2>4. CASE Replace(t)
    <3> DEFINE e == [mtime |-> parts[t].mtime, whole |-> parts[t].whole, by |-> Worker[t]]
               one == [k \in {key[t]} |-> e]
    <3>1. key[t] \in Keys /\ t \in DOMAIN parts
      BY <2>4 DEF IInv, Shape, PartsInStep, Replace
    <3>2. Worker[t] \in Range(Worker)
      BY CacheAssumption
    <3>3. e \in [mtime : Int, whole : BOOLEAN, by : Range(Worker)]
      BY <3>1, <3>2 DEF IInv, Shape, IsMap
    <3>4. IsMap(one, Keys, [mtime : Int, whole : BOOLEAN, by : Range(Worker)])
      BY <3>1, <3>3 DEF IsMap
    <3>5. files' = Override(files, one) /\ parts' = Without(parts, {t}) /\ clock' = clock
      BY <2>4 DEF Replace, counters
    <3> HIDE DEF one
    <3> QED BY <1>1, <3>4, <3>5, OthersStay, OverrideIsMap, WithoutIsMap DEF IInv, Shape
  <2>5. CASE Cleanup(t)
    BY <1>1, <2>5, OthersStay, WithoutIsMap DEF IInv, Shape, Cleanup, counters
  <2>6. CASE Drop(t)
    BY <1>1, <2>6, OthersStay, WithoutIsMap DEF IInv, Shape, Drop, counters
  <2>7. ASSUME NEW k \in Keys, Forget(t, k) PROVE Shape'
    BY <1>1, <2>7, OthersStay, WithoutIsMap DEF IInv, Shape, Forget
  <2>8. CASE \/ Probe(t) \/ Acquire(t) \/ Recheck(t) \/ Fails(t) \/ List(t) \/ Stat(t)
             \/ Evicted(t) \/ \E k \in Keys : Call(t, k)
    BY <1>1, <2>8, OthersStay DEF IInv, Shape, Probe, Acquire, Recheck, Fails, List, Stat,
       Evicted, Call, counters
  <2> QED BY <1>1, <2>1, <2>2, <2>3, <2>4, <2>5, <2>6, <2>7, <2>8 DEF Step
<1>2. ASSUME NEW w \in Range(Worker), Crash(w) PROVE Shape'
  BY <1>2, WithoutIsMap DEF IInv, Shape, Crash, Steps
<1>3. CASE UNCHANGED vars
  BY <1>3 DEF IInv, Shape, vars
<1> QED BY <1>1, <1>2, <1>3 DEF Next

\* Mutual exclusion is kept: a lock is taken when it is free, and given back
\* only by the thread that leaves the critical section.
LEMMA ExclusionStep == ASSUME IInv, [Next]_vars PROVE Exclusion'
<1>1. ASSUME NEW t \in Threads, Step(t) \/ \E k \in Keys : Call(t, k) \/ Forget(t, k)
      PROVE  Exclusion'
  <2>1. /\ \A u \in Threads \ {t} : Critical(u)' = Critical(u) /\ Lock(u)' = Lock(u)
        /\ pc \in [Threads -> Steps] /\ key \in [Threads -> Keys \cup {NoKey}]
    BY <1>1, OthersStay DEF IInv, Shape, Critical, Lock
  <2>2. CASE Acquire(t)
    <3>1. Lock(t)' = Lock(t) /\ locked' = locked \cup {Lock(t)} /\ Lock(t) \notin locked
      BY <2>2 DEF Acquire, Goto, Lock
    <3> QED BY <2>1, <3>1 DEF IInv, Exclusion
  <2>3. CASE Replace(t) \/ Cleanup(t) \/ (Touch(t) /\ pc[t] = "touch_locked")
    <3>1. locked' = locked \ {Lock(t)} /\ Critical(t) /\ ~Critical(t)'
      BY <2>1, <2>3 DEF Replace, Cleanup, Touch, Goto, Leave, Critical
    <3> QED BY <2>1, <3>1 DEF IInv, Exclusion
  <2>4. CASE \/ Probe(t) \/ Recheck(t) \/ FetchBegins(t) \/ FetchReturns(t) \/ Fails(t)
             \/ List(t) \/ Stat(t) \/ Drop(t) \/ Evicted(t)
             \/ (Touch(t) /\ pc[t] # "touch_locked")
             \/ \E k \in Keys : Call(t, k) \/ Forget(t, k)
    <3>1. locked' = locked /\ (Critical(t)' => Critical(t) /\ Lock(t)' = Lock(t))
      BY <2>1, <2>4 DEF Probe, AfterRecheck, Recheck, FetchBegins, FetchReturns, Fails,
         List, Stat, Drop, Evicted, Touch, Call, Forget, Goto, Leave, Critical, Lock
    <3> QED BY <2>1, <3>1 DEF IInv, Exclusion
  <2> QED BY <1>1, <2>2, <2>3, <2>4 DEF Step
<1>2. ASSUME NEW w \in Range(Worker), Crash(w) PROVE Exclusion'
  <2>1. \A t \in Threads : Critical(t)' => Worker[t] # w /\ Critical(t) /\ Lock(t)' = Lock(t)
    BY <1>2 DEF Crash, Critical, Lock
  <2>2. \A t \in Threads : Lock(t) \in locked /\ Worker[t] # w => Lock(t) \in locked'
    BY <1>2 DEF Crash, Lock
  <2> QED BY <2>1, <2>2 DEF IInv, Exclusion
<1>3. CASE UNCHANGED vars
  BY <1>3 DEF IInv, Exclusion, vars, Critical, Lock
<1> QED BY <1>1, <1>2, <1>3 DEF Next

\* Part files live and die with their download.
LEMMA PartsStep == ASSUME IInv, [Next]_vars PROVE PartsInStep'
<1>1. ASSUME NEW t \in Threads, Step(t) \/ \E k \in Keys : Call(t, k) \/ Forget(t, k)
      PROVE  PartsInStep'
  <2>1. \A u \in Threads \ {t} : pc'[u] = pc[u]
    BY <1>1, OthersStay DEF IInv
  <2>2. pc \in [Threads -> Steps]
    BY DEF IInv, Shape
  <2>3. CASE FetchBegins(t)
    BY <2>1, <2>2, <2>3 DEF FetchBegins, Goto, Override, IInv, PartsInStep
  <2>4. CASE FetchReturns(t)
    BY <2>1, <2>2, <2>4 DEF FetchReturns, Goto, IInv, PartsInStep
  <2>5. CASE Replace(t) \/ Cleanup(t)
    BY <2>1, <2>2, <2>5 DEF Replace, Cleanup, Goto, Leave, Without, Restrict,
       IInv, PartsInStep
  <2>6. CASE \/ Probe(t) \/ Acquire(t) \/ Recheck(t) \/ Touch(t) \/ Fails(t)
             \/ List(t) \/ Stat(t) \/ Drop(t) \/ Evicted(t)
             \/ \E k \in Keys : Call(t, k) \/ Forget(t, k)
    BY <2>1, <2>2, <2>6 DEF Probe, Acquire, AfterRecheck, Recheck, Touch, Fails, List,
       Stat, Drop, Evicted, Call, Forget, Goto, Leave, IInv, PartsInStep
  <2> QED BY <1>1, <2>3, <2>4, <2>5, <2>6 DEF Step
<1>2. ASSUME NEW w \in Range(Worker), Crash(w) PROVE PartsInStep'
  BY <1>2 DEF Crash, Without, Restrict, IInv, PartsInStep
<1>3. CASE UNCHANGED vars
  BY <1>3 DEF IInv, PartsInStep, vars
<1> QED BY <1>1, <1>2, <1>3 DEF Next

\* What is renamed into place is whole, and nothing else adds an entry.
LEMMA WholeStep == ASSUME IInv, [Next]_vars PROVE NoTruncatedFile'
<1>1. ASSUME NEW t \in Threads, Step(t) \/ \E k \in Keys : Call(t, k) \/ Forget(t, k)
      PROVE  NoTruncatedFile'
  <2>1. CASE Replace(t)
    <3>1. parts[t].whole
      BY <2>1 DEF Replace, IInv, PartsInStep
    <3> QED BY <2>1, <3>1 DEF Replace, Override, IInv, NoTruncatedFile
  <2>2. CASE Touch(t)
    BY <2>2 DEF Touch, IInv, Shape, IsMap, NoTruncatedFile
  <2>3. CASE Drop(t) \/ \E k \in Keys : Forget(t, k)
    BY <2>3 DEF Drop, Forget, Without, Restrict, IInv, NoTruncatedFile
  <2>4. CASE \/ Probe(t) \/ Acquire(t) \/ Recheck(t) \/ FetchBegins(t) \/ FetchReturns(t)
             \/ Fails(t) \/ Cleanup(t) \/ List(t) \/ Stat(t) \/ Evicted(t)
             \/ \E k \in Keys : Call(t, k)
    BY <2>4 DEF Probe, Acquire, Recheck, FetchBegins, FetchReturns, Fails, Cleanup, List,
       Stat, Evicted, Call, IInv, NoTruncatedFile
  <2> QED BY <1>1, <2>1, <2>2, <2>3, <2>4 DEF Step
<1>2. ASSUME NEW w \in Range(Worker), Crash(w) PROVE NoTruncatedFile'
  BY <1>2 DEF Crash, IInv, NoTruncatedFile
<1>3. CASE UNCHANGED vars
  BY <1>3 DEF IInv, NoTruncatedFile, vars
<1> QED BY <1>1, <1>2, <1>3 DEF Next

\* A download starts on a miss, and the lock keeps the rest of its process
\* from filling the entry meanwhile.
LEMMA NotOursStep == ASSUME IInv, [Next]_vars PROVE NotOurs'
<1>1. ASSUME NEW t \in Threads, Step(t) \/ \E k \in Keys : Call(t, k) \/ Forget(t, k)
      PROVE  NotOurs'
  <2>1. /\ \A u \in Threads \ {t} : /\ pc'[u] = pc[u] /\ key'[u] = key[u]
                                     /\ Downloading(u)' = Downloading(u)
        /\ pc \in [Threads -> Steps]
    BY <1>1, OthersStay DEF IInv, Shape, Downloading
  <2>2. CASE Replace(t)
    <3>1. ~Downloading(t)' /\ Critical(t)
      BY <2>1, <2>2 DEF Replace, Goto, Downloading, Critical
    <3>2. \A u \in Threads \ {t} : Downloading(u) => Lock(u) # Lock(t)
      BY <3>1 DEF IInv, Exclusion, Downloading, Critical
    <3>3. \A u \in Threads \ {t} : Downloading(u) /\ key[u] = key[t] => Worker[u] # Worker[t]
      BY <3>2 DEF Lock
    <3>4. /\ DOMAIN files' = DOMAIN files \cup {key[t]}
          /\ files'[key[t]].by = Worker[t]
          /\ \A k \in DOMAIN files \ {key[t]} : files'[k] = files[k]
      BY <2>2 DEF Replace, Override
    <3> QED BY <2>1, <3>1, <3>3, <3>4 DEF IInv, NotOurs, Cached
  <2>3. CASE Touch(t)
    <3>1. /\ DOMAIN files' = DOMAIN files
          /\ \A k \in DOMAIN files : files'[k].by = files[k].by
      BY <2>3 DEF Touch, IInv, Shape, IsMap
    <3>2. ~Downloading(t)'
      BY <2>1, <2>3 DEF Touch, Leave, Downloading
    <3> QED BY <2>1, <3>1, <3>2 DEF IInv, NotOurs, Cached
  <2>4. CASE Drop(t) \/ \E k \in Keys : Forget(t, k)
    <3>1. /\ DOMAIN files' \subseteq DOMAIN files
          /\ \A k \in DOMAIN files' : files'[k] = files[k]
          /\ ~Downloading(t)'
      BY <2>4 DEF Drop, Forget, Without, Restrict, Downloading
    <3> QED BY <2>1, <3>1 DEF IInv, NotOurs, Cached
  <2>5. CASE Recheck(t)
    <3>1. Downloading(t)' => ~Cached(t)
      BY <2>1, <2>5 DEF Recheck, AfterRecheck, Goto, Downloading
    <3>2. files' = files /\ key' = key
      BY <2>5 DEF Recheck, Goto
    <3> QED BY <2>1, <3>1, <3>2 DEF IInv, NotOurs, Cached
  <2>6. CASE \/ Probe(t) \/ Acquire(t) \/ FetchBegins(t) \/ FetchReturns(t)
             \/ Fails(t) \/ Cleanup(t) \/ List(t) \/ Stat(t) \/ Evicted(t)
             \/ \E k \in Keys : Call(t, k)
    <3>1. files' = files /\ (Downloading(t)' => Downloading(t) /\ key'[t] = key[t])
      BY <2>1, <2>6 DEF Probe, Acquire, FetchBegins, FetchReturns, Fails, Cleanup, List,
         Stat, Evicted, Call, Goto, Leave, Downloading
    <3> QED BY <2>1, <3>1 DEF IInv, NotOurs, Cached
  <2> QED BY <1>1, <2>2, <2>3, <2>4, <2>5, <2>6 DEF Step
<1>2. ASSUME NEW w \in Range(Worker), Crash(w) PROVE NotOurs'
  <2>1. \A t \in Threads : Downloading(t)' => Downloading(t) /\ key'[t] = key[t]
    BY <1>2 DEF Crash, Downloading
  <2> QED BY <1>2, <2>1 DEF Crash, IInv, NotOurs, Cached
<1>3. CASE UNCHANGED vars
  BY <1>3 DEF IInv, NotOurs, vars, Downloading, Cached
<1> QED BY <1>1, <1>2, <1>3 DEF Next

LEMMA Inductive == Spec => []IInv
<1>1. IInv /\ [Next]_vars => IInv'
  BY ShapeStep, ExclusionStep, PartsStep, NotOursStep, WholeStep DEF IInv
<1> QED BY <1>1, InitInv, PTL DEF Spec

-----------------------------------------------------------------------------
\* cache.py 63-66: whatever crashes, fails or runs at the same time, every
\* entry of the cache directory is a whole object.
THEOREM NeverTruncated == Spec => []NoTruncatedFile
<1>1. IInv => NoTruncatedFile
  BY DEF IInv
<1> QED BY <1>1, Inductive, PTL

\* cache.py 8-9: one process never downloads a key twice at a time, nor a key
\* it has cached itself.
THEOREM SingleFlight == Spec => []DownloadOnce
<1>1. IInv => DownloadOnce
  BY DEF IInv, NotOurs, Exclusion, Downloading, Critical, DownloadOnce
<1> QED BY <1>1, Inductive, PTL

\* cache.py 80-82: no call, whether it returns or raises, leaves a part file.
THEOREM NoPartsLeft == Spec => []PartsAreCleaned
<1>1. IInv => PartsAreCleaned
  BY DEF IInv, Shape, IsMap, PartsInStep, PartsAreCleaned
<1> QED BY <1>1, Inductive, PTL

-----------------------------------------------------------------------------
(* The bytes of a set of entries *)

Bytes(S) == MapThenSumSet(LAMBDA k : Size[k], S)

\* The sum as its definition computes it: one entry, and what is left without
\* it, for each of the sets in D.
Solves(h, D) ==
    h = [T \in D |-> IF T = {} THEN 0
                     ELSE LET k == CHOOSE k \in T : TRUE IN Size[k] + h[T \ {k}]]

LEMMA BytesUnfolded == ASSUME NEW S PROVE Bytes(S) = (CHOOSE h : Solves(h, SUBSET S))[S]
BY DEF Bytes, MapThenSumSet, MapThenFoldSet, Solves

LEMMA OneLess ==
    ASSUME NEW T, IsFiniteSet(T), NEW x \in T
    PROVE  /\ Cardinality(T) \in Nat /\ Cardinality(T \ {x}) = Cardinality(T) - 1
           /\ IsFiniteSet(T \ {x}) /\ Cardinality(T) - 1 \in Nat
<1>1. IsFiniteSet(T \ {x}) /\ Cardinality(T \ {x}) = Cardinality(T) - 1
  BY FS_RemoveElement
<1>2. Cardinality(T) \in Nat /\ Cardinality(T \ {x}) \in Nat
  BY <1>1, FS_CardinalityType
<1> QED BY <1>1, <1>2

\* What the recursion computes for a set is its first entry and the rest.
LEMMA SolvesAt ==
    ASSUME NEW h, NEW D, Solves(h, D), NEW T \in D
    PROVE  h[T] = IF T = {} THEN 0
                  ELSE LET k == CHOOSE k \in T : TRUE IN Size[k] + h[T \ {k}]
BY DEF Solves

\* The recursion has a solution: there is no least number of entries from
\* which on it has none.
LEMMA BytesDefined ==
    ASSUME NEW S, IsFiniteSet(S)
    PROVE  \E h : Solves(h, SUBSET S)
<1> DEFINE Upto(n) == {T \in SUBSET S : Cardinality(T) <= n}
           Bad == {n \in Nat : ~ \E h : Solves(h, Upto(n))}
<1>1. \A T \in SUBSET S : IsFiniteSet(T) /\ Cardinality(T) \in Nat /\ Cardinality(T) <= Cardinality(S)
  BY FS_Subset, FS_CardinalityType
<1>2. Bad = {}
  <2> SUFFICES ASSUME Bad # {} PROVE FALSE
    OBVIOUS
  <2>1. PICK n \in Bad : \A m \in Bad : n <= m
    <3>1. Bad \subseteq Nat
      OBVIOUS
    <3> QED BY <3>1, LeastPosition
  <2>2. n \in Nat /\ ~ \E h : Solves(h, Upto(n))
    BY <2>1
  <2>3. CASE n = 0
    <3> DEFINE h == [T \in Upto(0) |-> 0]
    <3>1. \A T \in Upto(0) : T = {}
      BY <1>1, FS_EmptySet
    <3>2. Solves(h, Upto(0))
      BY <3>1 DEF Solves
    <3> QED BY <2>2, <2>3, <3>2
  <2>4. CASE n # 0
    <3>1. n - 1 \in Nat /\ ~(n <= n - 1)
      BY <2>2, <2>4
    <3>2. PICK g : Solves(g, Upto(n - 1))
      <4> HIDE DEF Upto
      <4>1. n - 1 \notin Bad
        BY <2>1, <3>1
      <4> QED BY <3>1, <4>1
    <3> DEFINE h == [T \in Upto(n) |-> IF T = {} THEN 0
                       ELSE LET k == CHOOSE k \in T : TRUE IN Size[k] + g[T \ {k}]]
    <3>3. \A T \in Upto(n) : T # {} => T \ {CHOOSE k \in T : TRUE} \in Upto(n - 1)
      <4> SUFFICES ASSUME NEW T \in Upto(n), T # {}
                   PROVE  T \ {CHOOSE k \in T : TRUE} \in Upto(n - 1)
        OBVIOUS
      <4> DEFINE k == CHOOSE k \in T : TRUE
      <4>1. k \in T
        OBVIOUS
      <4> HIDE DEF k
      <4>2. Cardinality(T \ {k}) = Cardinality(T) - 1
        BY <1>1, <4>1, FS_RemoveElement
      <4>3. Cardinality(T) \in Nat /\ Cardinality(T) <= n
        BY <1>1
      <4>4. Cardinality(T \ {k}) <= n - 1
        BY <2>2, <4>2, <4>3
      <4>5. T \ {k} \in Upto(n - 1)
        BY <4>4
      <4> QED BY <4>5 DEF k
    <3>4. \A T \in Upto(n - 1) : T \in Upto(n)
      BY <1>1, <2>2
    <3> HIDE DEF Upto
    <3>5. \A T \in Upto(n - 1) : h[T] = g[T]
      BY <3>2, <3>4, SolvesAt
    <3>6. \A T \in Upto(n) :
             h[T] = IF T = {} THEN 0
                    ELSE LET k == CHOOSE k \in T : TRUE IN Size[k] + h[T \ {k}]
      BY <3>3, <3>5
    <3> DEFINE f == [T \in Upto(n) |-> IF T = {} THEN 0
                       ELSE LET k == CHOOSE k \in T : TRUE IN Size[k] + h[T \ {k}]]
    <3>7. h = f
      <4>1. \A T \in Upto(n) : h[T] = f[T]
        BY <3>6 
      <4> QED BY <4>1
    <3>8. Solves(h, Upto(n))
      BY <3>7 DEF Solves
    <3> QED BY <2>2, <3>8
  <2> QED BY <2>3, <2>4
<1>3. Cardinality(S) \in Nat
  BY FS_CardinalityType
<1>4. Upto(Cardinality(S)) = SUBSET S
  BY <1>1
<1>5. \E h : Solves(h, Upto(Cardinality(S)))
  <2> HIDE DEF Upto
  <2> QED BY <1>2, <1>3
<1> QED BY <1>4, <1>5

\* h is a sum for T, whichever entry is taken first.
Sums(h, T) == h[T] \in Nat /\ \A x \in T : h[T] = Size[x] + h[T \ {x}]

\* Any solution takes the entries in whatever order.
LEMMA SolvesAny ==
    ASSUME NEW S, IsFiniteSet(S), S \subseteq Keys, NEW h, Solves(h, SUBSET S)
    PROVE  \A T \in SUBSET S : Sums(h, T)
<1> DEFINE Bad == {n \in Nat : \E T \in SUBSET S : Cardinality(T) = n /\ ~Sums(h, T)}
<1>1. \A T \in SUBSET S : IsFiniteSet(T) /\ Cardinality(T) \in Nat
  BY FS_Subset, FS_CardinalityType
<1>2. Bad = {}
  <2> SUFFICES ASSUME Bad # {} PROVE FALSE
    OBVIOUS
  <2>1. PICK n \in Bad : \A m \in Bad : n <= m
    <3>1. Bad \subseteq Nat
      OBVIOUS
    <3> QED BY <3>1, LeastPosition
  <2>2. PICK T \in SUBSET S : Cardinality(T) = n /\ ~Sums(h, T)
    BY <2>1
  <2>3. \A x \in T : Sums(h, T \ {x})
    <3> SUFFICES ASSUME NEW x \in T PROVE Sums(h, T \ {x})
      OBVIOUS
    <3>1. Cardinality(T \ {x}) = n - 1 /\ T \ {x} \in SUBSET S /\ n \in Nat /\ n - 1 \in Nat
      BY <1>1, <2>2, OneLess
    <3> QED BY <2>1, <3>1
  <2>4. CASE T = {}
    <3>1. h[T] = 0
      BY <2>4, SolvesAt
    <3> QED BY <2>2, <2>4, <3>1 DEF Sums
  <2>5. CASE T # {}
    <3> DEFINE k == CHOOSE k \in T : TRUE
    <3>1. k \in T /\ h[T] = Size[k] + h[T \ {k}]
      BY <2>5, SolvesAt
    <3> HIDE DEF k
    <3>2. \A x \in T : Size[x] \in Nat
      BY CacheAssumption
    <3>3. h[T] \in Nat
      <4>1. h[T \ {k}] \in Nat /\ Size[k] \in Nat
        BY <2>3, <3>1, <3>2 DEF Sums
      <4> QED BY <3>1, <4>1
    <3>4. ASSUME NEW x \in T PROVE h[T] = Size[x] + h[T \ {x}]
      <4>1. CASE x = k
        BY <3>1, <4>1
      <4>2. CASE x # k
        <5>1. h[T \ {k}] = Size[x] + h[(T \ {k}) \ {x}] /\ h[T \ {x}] = Size[k] + h[(T \ {x}) \ {k}]
          BY <2>3, <3>1, <4>2 DEF Sums
        <5>2. (T \ {k}) \ {x} = (T \ {x}) \ {k}
          OBVIOUS
        <5>3. h[(T \ {x}) \ {k}] \in Nat
          <6>1. Cardinality(T \ {x}) = n - 1 /\ T \ {x} \in SUBSET S /\ n \in Nat
                /\ IsFiniteSet(T \ {x})
            BY <1>1, <2>2, OneLess
          <6>2. Cardinality((T \ {x}) \ {k}) = n - 2 /\ n - 2 \in Nat
            <7> DEFINE U == T \ {x}
            <7>1. IsFiniteSet(U) /\ k \in U /\ Cardinality(U) = n - 1 /\ n \in Nat
              BY <6>1, <3>1, <4>2
            <7> HIDE DEF U
            <7>2. Cardinality(U \ {k}) = Cardinality(U) - 1 /\ Cardinality(U) - 1 \in Nat
              BY <7>1, OneLess
            <7> QED BY <7>1, <7>2 DEF U
          <6>3. (T \ {x}) \ {k} \in SUBSET S
            BY <6>1
          <6>4. n - 2 \notin Bad
            BY <2>1, <6>1
          <6> QED BY <6>2, <6>3, <6>4 DEF Sums
        <5>4. Size[x] \in Nat /\ Size[k] \in Nat
          BY <3>1, <3>2
        <5> DEFINE a == h[(T \ {x}) \ {k}]
        <5>5. h[T \ {k}] = Size[x] + a /\ h[T \ {x}] = Size[k] + a /\ a \in Nat
          BY <5>1, <5>2, <5>3
        <5> HIDE DEF a
        <5> QED BY <3>1, <5>4, <5>5
      <4> QED BY <4>1, <4>2
    <3> QED BY <2>2, <3>3, <3>4 DEF Sums
  <2> QED BY <2>4, <2>5
<1> QED BY <1>1, <1>2

\* Solutions for different sets agree where both are defined.
LEMMA SolvesUnique ==
    ASSUME NEW S, IsFiniteSet(S), NEW D, SUBSET S \subseteq D,
           NEW h, Solves(h, SUBSET S), NEW g, Solves(g, D)
    PROVE  \A T \in SUBSET S : h[T] = g[T]
<1> DEFINE Bad == {n \in Nat : \E T \in SUBSET S : Cardinality(T) = n /\ h[T] # g[T]}
<1>1. \A T \in SUBSET S : IsFiniteSet(T) /\ Cardinality(T) \in Nat
  BY FS_Subset, FS_CardinalityType
<1>2. Bad = {}
  <2> SUFFICES ASSUME Bad # {} PROVE FALSE
    OBVIOUS
  <2>1. PICK n \in Bad : \A m \in Bad : n <= m
    <3>1. Bad \subseteq Nat
      OBVIOUS
    <3> QED BY <3>1, LeastPosition
  <2>2. PICK T \in SUBSET S : Cardinality(T) = n /\ h[T] # g[T]
    BY <2>1
  <2>3. CASE T = {}
    BY <2>2, <2>3, SolvesAt
  <2>4. CASE T # {}
    <3> DEFINE k == CHOOSE k \in T : TRUE
    <3>1. k \in T /\ h[T] = Size[k] + h[T \ {k}] /\ g[T] = Size[k] + g[T \ {k}]
      BY <2>4, SolvesAt
    <3> HIDE DEF k
    <3>2. Cardinality(T \ {k}) = n - 1 /\ T \ {k} \in SUBSET S /\ n - 1 \in Nat
      BY <1>1, <2>2, <3>1, OneLess
    <3>3. n - 1 \notin Bad
      BY <2>1, <3>2
    <3>4. h[T \ {k}] = g[T \ {k}]
      BY <3>2, <3>3
    <3> QED BY <2>2, <3>1, <3>4
  <2> QED BY <2>3, <2>4
<1> QED BY <1>1, <1>2

\* What the lemmas above come to: the bytes of a set are those of any of its
\* entries and of the rest.
LEMMA BytesOf ==
    ASSUME NEW S, IsFiniteSet(S), S \subseteq Keys
    PROVE  /\ Bytes(S) \in Nat /\ (S = {} => Bytes(S) = 0)
           /\ \A x \in S : Bytes(S) = Size[x] + Bytes(S \ {x})
<1>1. PICK h : Solves(h, SUBSET S) /\ Bytes(S) = h[S]
  BY BytesDefined, BytesUnfolded
<1>2. h[S] \in Nat /\ \A x \in S : h[S] = Size[x] + h[S \ {x}]
  <2>1. S \in SUBSET S
    OBVIOUS
  <2>2. \A T \in SUBSET S : Sums(h, T)
    BY <1>1, SolvesAny
  <2> QED BY <2>1, <2>2 DEF Sums
<1>3. S = {} => h[S] = 0
  BY <1>1, SolvesAt
<1>4. ASSUME NEW x \in S PROVE Bytes(S \ {x}) = h[S \ {x}]
  <2> DEFINE R == S \ {x}
             g == CHOOSE g : Solves(g, SUBSET R)
  <2>1. IsFiniteSet(R)
    BY FS_Subset
  <2>2. Solves(g, SUBSET R) /\ Bytes(R) = g[R]
    BY <2>1, BytesDefined, BytesUnfolded
  <2> HIDE DEF g
  <2>3. SUBSET R \subseteq SUBSET S /\ R \in SUBSET R
    OBVIOUS
  <2> HIDE DEF R
  <2>4. \A T \in SUBSET R : g[T] = h[T]
    BY <1>1, <2>1, <2>2, <2>3, SolvesUnique
  <2> QED BY <2>2, <2>3, <2>4 DEF R
<1> QED BY <1>1, <1>2, <1>3, <1>4

\* Fewer entries, no more bytes.
LEMMA BytesOfFewer ==
    ASSUME NEW S, IsFiniteSet(S), S \subseteq Keys, NEW R \in SUBSET S
    PROVE  Bytes(R) <= Bytes(S)
<1> DEFINE Bad == {n \in Nat : \E T \in SUBSET S : /\ R \subseteq T /\ Cardinality(T) = n
                                                   /\ ~(Bytes(R) <= Bytes(T))}
<1>1. \A T \in SUBSET S : /\ IsFiniteSet(T) /\ Cardinality(T) \in Nat /\ Bytes(T) \in Nat
                          /\ T \subseteq Keys
  BY FS_Subset, FS_CardinalityType, BytesOf
<1>2. Bad = {}
  <2> SUFFICES ASSUME Bad # {} PROVE FALSE
    OBVIOUS
  <2>1. PICK n \in Bad : \A m \in Bad : n <= m
    <3>1. Bad \subseteq Nat
      OBVIOUS
    <3> QED BY <3>1, LeastPosition
  <2>2. PICK T \in SUBSET S : R \subseteq T /\ Cardinality(T) = n /\ ~(Bytes(R) <= Bytes(T))
    BY <2>1
  <2>3. R # T
    BY <1>1, <2>2
  <2>4. PICK x \in T : x \notin R
    BY <2>2, <2>3
  <2>5. Cardinality(T \ {x}) = n - 1 /\ T \ {x} \in SUBSET S /\ n - 1 \in Nat
    BY <1>1, <2>2, <2>4, OneLess
  <2>6. Bytes(R) <= Bytes(T \ {x})
    <3>1. n - 1 \notin Bad
      BY <2>1, <2>5
    <3> QED BY <2>2, <2>4, <2>5, <3>1
  <2>7. Bytes(T) = Size[x] + Bytes(T \ {x}) /\ Size[x] \in Nat
    BY <1>1, <2>4, BytesOf, CacheAssumption
  <2> QED BY <1>1, <2>2, <2>5, <2>6, <2>7
<1> QED BY <1>1, <1>2
-----------------------------------------------------------------------------
(* An eviction that will bring the directory under its capacity *)

\* What the eviction of thread t has still to look at, or may still drop.
Left(t) == unseen[t] \cup {e.key : e \in entries[t]}

\* Thread t's eviction is still to come; or it knows every entry there is, and
\* its running total counts all it has looked at.
Clears(t) ==
    \/ pc[t] = "list"
    \/ /\ pc[t] = "evict" /\ DOMAIN files \subseteq Left(t)
       /\ Bytes(DOMAIN files \ unseen[t]) <= total[t]

\* Only an eviction has anything in its variables.
EvictFields ==
    \A t \in Threads :
        /\ total[t] \in Int
        /\ pc[t] # "evict" => unseen[t] = {} /\ entries[t] = {} /\ total[t] = 0

\* Unless a process dies in the middle of its eviction: an insertion that
\* brought the directory over its capacity is followed by an eviction, and
\* whatever other threads add, drop and free meanwhile, one of those under way
\* will bring it back.
Settling ==
    crashes = 0 => \/ Bytes(DOMAIN files) <= Capacity
                   \/ \E t \in Threads : Clears(t)

SettleInv ==
    /\ IInv /\ IsFiniteSet(DOMAIN files)
    /\ unseen \in [Threads -> SUBSET Keys] /\ DOMAIN entries = Threads /\ DOMAIN total = Threads
    /\ crashes \in Nat
    /\ EvictFields /\ Settling

LEMMA InitSettles == Init => SettleInv
<1> SUFFICES ASSUME Init PROVE SettleInv
  OBVIOUS
<1>1. DOMAIN files = {} /\ IsFiniteSet(DOMAIN files)
  BY EmptyDomain, FS_EmptySet DEF Init
<1>2. Bytes(DOMAIN files) = 0
  BY <1>1, BytesOf
<1>3. Settling
  BY <1>2, CacheAssumption DEF Settling
<1>4. EvictFields
  BY DEF Init, EvictFields
<1> QED BY <1>1, <1>3, <1>4, InitInv DEF SettleInv, Init

\* Entries are added one at a time.
LEMMA FilesStayFinite == ASSUME SettleInv, [Next]_vars PROVE IsFiniteSet((DOMAIN files)')
<1>1. ASSUME NEW t \in Threads, Step(t) \/ \E k \in Keys : Call(t, k) \/ Forget(t, k)
      PROVE  \E k : DOMAIN files' \subseteq DOMAIN files \cup {k}
  <2>1. CASE Replace(t)
    BY <2>1 DEF Replace, Override
  <2>2. CASE Touch(t)
    BY <2>2 DEF Touch, SettleInv, IInv, Shape, IsMap
  <2>3. CASE Drop(t) \/ \E k \in Keys : Forget(t, k)
    BY <2>3 DEF Drop, Forget, Without, Restrict
  <2>4. CASE \/ Probe(t) \/ Acquire(t) \/ Recheck(t) \/ FetchBegins(t) \/ FetchReturns(t)
             \/ Fails(t) \/ Cleanup(t) \/ List(t) \/ Stat(t) \/ Evicted(t)
             \/ \E k \in Keys : Call(t, k)
    BY <2>4 DEF Probe, Acquire, Recheck, FetchBegins, FetchReturns, Fails, Cleanup, List,
       Stat, Evicted, Call
  <2> QED BY <1>1, <2>1, <2>2, <2>3, <2>4 DEF Step
<1>2. \E k : DOMAIN files' \subseteq DOMAIN files \cup {k}
  BY <1>1 DEF Next, Crash, vars
<1>3. PICK k : DOMAIN files' \subseteq DOMAIN files \cup {k}
  BY <1>2
<1>4. IsFiniteSet(DOMAIN files \cup {k})
  BY FS_AddElement DEF SettleInv
<1> QED BY <1>3, <1>4, FS_Subset

\* The variables of evict are filled and emptied by its own steps.
LEMMA EvictStep ==
    ASSUME SettleInv, [Next]_vars
    PROVE  /\ EvictFields' /\ crashes' \in Nat
           /\ unseen' \in [Threads -> SUBSET Keys]
           /\ DOMAIN entries' = Threads /\ DOMAIN total' = Threads
<1> USE DEF SettleInv, EvictFields
<1>0. DOMAIN files \subseteq Keys /\ pc \in [Threads -> Steps]
  BY DEF IInv, Shape, IsMap
<1>1. ASSUME NEW t \in Threads, Step(t) \/ \E k \in Keys : Call(t, k) \/ Forget(t, k)
      PROVE  /\ EvictFields' /\ crashes' \in Nat
             /\ unseen' \in [Threads -> SUBSET Keys]
             /\ DOMAIN entries' = Threads /\ DOMAIN total' = Threads
  <2>0. /\ \A u \in Threads \ {t} : pc'[u] = pc[u]
        /\ pc' \in [Threads -> Steps]
    BY <1>1, OthersStay DEF IInv
  <2>1. CASE List(t)
    BY <1>0, <2>0, <2>1 DEF List, Listed, counters, Goto
  <2>2. CASE Stat(t)
    <3>1. PICK k \in unseen[t] :
             /\ unseen' = [unseen EXCEPT ![t] = @ \ {k}]
             /\ \/ /\ entries' = [entries EXCEPT ![t] = @ \cup {[mtime |-> files[k].mtime, key |-> k]}]
                   /\ total' = [total EXCEPT ![t] = @ + Size[k]]
                \/ UNCHANGED <<entries, total>>
      BY <2>2 DEF Stat
    <3>2. Size[k] \in Nat
      BY <3>1, CacheAssumption
    <3>3. pc[t] = "evict" /\ pc' = pc /\ crashes' = crashes
      BY <2>2 DEF Stat, counters
    <3> QED BY <1>0, <3>1, <3>2, <3>3
  <2>3. CASE Drop(t)
    <3> DEFINE k == Oldest(t).key
    <3>1. /\ \/ total' = [total EXCEPT ![t] = @ - Size[k]] /\ k \in DOMAIN files
             \/ total' = [total EXCEPT ![t] = @]
          /\ entries' = [entries EXCEPT ![t] = @ \ {Oldest(t)}]
          /\ pc[t] = "evict" /\ pc' = pc /\ crashes' = crashes /\ unseen' = unseen
      BY <2>3 DEF Drop, counters
    <3> HIDE DEF k
    <3>2. k \in DOMAIN files => Size[k] \in Nat
      BY <1>0, CacheAssumption
    <3> QED BY <1>0, <3>1, <3>2
  <2>4. CASE Evicted(t)
    BY <1>0, <2>0, <2>4 DEF Evicted, Leave, counters
  <2>5. CASE \/ Probe(t) \/ Acquire(t) \/ Recheck(t) \/ Touch(t) \/ FetchBegins(t)
             \/ FetchReturns(t) \/ Fails(t) \/ Replace(t) \/ Cleanup(t)
             \/ \E k \in Keys : Call(t, k) \/ Forget(t, k)
    <3>1. UNCHANGED <<unseen, entries, total, crashes>>
      BY <2>5 DEF Probe, Acquire, Recheck, Touch, FetchBegins, FetchReturns, Fails, Replace,
         Cleanup, Call, Forget, evictVars, counters
    <3>2. pc[t] # "evict"
      BY <2>5 DEF Probe, Acquire, Recheck, Touch, FetchBegins, FetchReturns, Fails, Replace,
         Cleanup, Call, Forget
    <3> QED BY <2>0, <3>1, <3>2
  <2> QED BY <1>1, <2>1, <2>2, <2>3, <2>4, <2>5 DEF Step
<1>2. ASSUME NEW w \in Range(Worker), Crash(w)
      PROVE  /\ EvictFields' /\ crashes' \in Nat
             /\ unseen' \in [Threads -> SUBSET Keys]
             /\ DOMAIN entries' = Threads /\ DOMAIN total' = Threads
  BY <1>2 DEF Crash
<1>3. CASE UNCHANGED vars
  BY <1>3 DEF vars
<1> QED BY <1>1, <1>2, <1>3 DEF Next

\* A thread that clears the directory goes on to, when the entries get no more
\* and its own variables stay.
LEMMA ClearsStill ==
    ASSUME SettleInv, NEW t \in Threads, Clears(t),
           DOMAIN files' \subseteq DOMAIN files,
           pc'[t] = pc[t], unseen'[t] = unseen[t], entries'[t] = entries[t], total'[t] = total[t]
    PROVE  Clears(t)'
<1>1. CASE pc[t] = "list"
  BY <1>1 DEF Clears
<1>2. CASE pc[t] # "list"
  <2> DEFINE S == DOMAIN files \ unseen[t]
             R == DOMAIN files' \ unseen[t]
  <2>1. pc[t] = "evict" /\ DOMAIN files \subseteq Left(t) /\ Bytes(S) <= total[t]
    BY <1>2 DEF Clears
  <2>2. S \subseteq Keys /\ IsFiniteSet(S) /\ R \in SUBSET S
    <3>1. DOMAIN files \subseteq Keys
      BY DEF SettleInv, IInv, Shape, IsMap
    <3> QED BY <3>1, FS_Subset DEF SettleInv
  <2> HIDE DEF S
  <2>3. Bytes(R) <= Bytes(S) /\ Bytes(S) \in Nat /\ Bytes(R) \in Nat
    <3>1. IsFiniteSet(R) /\ R \subseteq Keys
      BY <2>2, FS_Subset
    <3> HIDE DEF R
    <3> QED BY <2>2, <3>1, BytesOf, BytesOfFewer
  <2>4. Bytes(R) <= total[t]
    <3>1. total[t] \in Int
      BY DEF SettleInv, EvictFields
    <3> HIDE DEF R
    <3> QED BY <2>1, <2>3, <3>1
  <2>5. Left(t)' = Left(t) /\ DOMAIN files' \subseteq Left(t)
    BY <2>1 DEF Left
  <2> QED BY <2>1, <2>4, <2>5 DEF Clears
<1> QED BY <1>1, <1>2

\* Entries that go free bytes, and do no harm to the evictions of the threads
\* that do not move.
LEMMA SettlesStill ==
    ASSUME SettleInv, crashes' = crashes, NEW t \in Threads,
           DOMAIN files' \subseteq DOMAIN files,
           \A u \in Threads \ {t} : /\ pc'[u] = pc[u] /\ unseen'[u] = unseen[u]
                                     /\ entries'[u] = entries[u] /\ total'[u] = total[u],
           Clears(t) => Clears(t)' \/ Bytes(DOMAIN files') <= Capacity
    PROVE  Settling'
<1> SUFFICES ASSUME crashes = 0 PROVE Settling'
  BY DEF Settling
<1>1. CASE Bytes(DOMAIN files) <= Capacity
  <2>1. DOMAIN files \subseteq Keys /\ IsFiniteSet(DOMAIN files) /\ IsFiniteSet(DOMAIN files')
    BY FS_Subset DEF SettleInv, IInv, Shape, IsMap
  <2> DEFINE S == DOMAIN files
             R == DOMAIN files'
  <2>2. S \subseteq Keys /\ IsFiniteSet(S) /\ IsFiniteSet(R) /\ R \in SUBSET S
    BY <2>1
  <2>3. Bytes(S) <= Capacity
    BY <1>1
  <2> HIDE DEF S, R
  <2>4. Bytes(R) <= Bytes(S) /\ Bytes(S) \in Nat /\ Bytes(R) \in Nat
    BY <2>2, BytesOf, BytesOfFewer
  <2>5. Bytes(R) <= Capacity
    BY <2>3, <2>4, CacheAssumption
  <2> QED BY <2>5 DEF Settling, R
<1>2. ASSUME NEW u \in Threads \ {t}, Clears(u) PROVE Settling'
  <2>1. Clears(u)'
    BY <1>2, ClearsStill
  <2> QED BY <2>1 DEF Settling
<1>3. CASE Clears(t)
  BY <1>3 DEF Settling
<1> QED BY <1>1, <1>2, <1>3 DEF SettleInv, Settling

\* stat counts the entry it takes off the list, if it is still there.
LEMMA StatClears ==
    ASSUME SettleInv, NEW t \in Threads, Stat(t), Clears(t)
    PROVE  Clears(t)'
<1>1. PICK k \in unseen[t] :
         /\ unseen' = [unseen EXCEPT ![t] = @ \ {k}]
         /\ IF k \in DOMAIN files
            THEN /\ entries' = [entries EXCEPT ![t] =
                                  @ \cup {[mtime |-> files[k].mtime, key |-> k]}]
                 /\ total' = [total EXCEPT ![t] = @ + Size[k]]
            ELSE UNCHANGED <<entries, total>>
  BY DEF Stat
<1>2. /\ pc[t] = "evict" /\ pc' = pc /\ files' = files
      /\ DOMAIN files \subseteq Left(t) /\ Bytes(DOMAIN files \ unseen[t]) <= total[t]
  BY DEF Stat, Clears
<1>3. DOMAIN files \subseteq Keys /\ IsFiniteSet(DOMAIN files) /\ total[t] \in Int
  BY DEF SettleInv, EvictFields, IInv, Shape, IsMap
<1>4. unseen'[t] = unseen[t] \ {k}
  BY <1>1 DEF SettleInv
<1>5. CASE k \in DOMAIN files
  <2> DEFINE S == DOMAIN files \ unseen'[t]
  <2>1. /\ S \subseteq Keys /\ IsFiniteSet(S) /\ k \in S
        /\ S \ {k} = DOMAIN files \ unseen[t]
    BY <1>1, <1>3, <1>4, <1>5, FS_Subset
  <2> HIDE DEF S
  <2>2. Bytes(S) = Size[k] + Bytes(S \ {k}) /\ Size[k] \in Nat
    BY <2>1, BytesOf, CacheAssumption
  <2>3. Bytes(S \ {k}) \in Nat
    <3>1. IsFiniteSet(S \ {k}) /\ S \ {k} \subseteq Keys
      BY <2>1, FS_Subset
    <3> QED BY <3>1, BytesOf
  <2>4. /\ entries'[t] = entries[t] \cup {[mtime |-> files[k].mtime, key |-> k]}
        /\ total'[t] = total[t] + Size[k]
    BY <1>1, <1>5 DEF SettleInv
  <2>5. Bytes(S) <= total'[t]
    <3>1. Bytes(S \ {k}) <= total[t]
      BY <1>2, <2>1
    <3> QED BY <1>3, <2>2, <2>3, <2>4, <3>1
  <2>6. DOMAIN files' \subseteq Left(t)'
    <3>1. k \in Left(t)'
      <4>1. [mtime |-> files[k].mtime, key |-> k] \in entries'[t]
        BY <2>4
      <4> QED BY <4>1 DEF Left
    <3>2. \A j \in Left(t) \ {k} : j \in Left(t)'
      BY <1>4, <2>4 DEF Left
    <3> QED BY <1>2, <3>1, <3>2
  <2> QED BY <1>2, <2>5, <2>6 DEF Clears, S
<1>6. CASE k \notin DOMAIN files
  <2>1. entries' = entries /\ total' = total
    BY <1>1, <1>6
  <2>2. DOMAIN files \ unseen'[t] = DOMAIN files \ unseen[t]
    BY <1>4, <1>6
  <2>3. DOMAIN files' \subseteq Left(t)'
    BY <1>2, <1>4, <1>6, <2>1 DEF Left
  <2> QED BY <1>2, <2>1, <2>2, <2>3 DEF Clears
<1> QED BY <1>5, <1>6

\* unlink takes off the total what it takes out of the directory.
LEMMA DropClears ==
    ASSUME SettleInv, NEW t \in Threads, Drop(t), Clears(t)
    PROVE  Clears(t)'
<1> DEFINE e == Oldest(t)
           k == e.key
<1>1. /\ files' = Without(files, {k})
      /\ total' = [total EXCEPT ![t] = IF k \in DOMAIN files THEN @ - Size[k] ELSE @]
      /\ entries' = [entries EXCEPT ![t] = @ \ {e}]
      /\ unseen' = unseen /\ pc' = pc /\ pc[t] = "evict" /\ unseen[t] = {}
  BY DEF Drop
<1> HIDE DEF e
<1>2. /\ DOMAIN files \subseteq {f.key : f \in entries[t]}
      /\ Bytes(DOMAIN files) <= total[t]
  <2>1. DOMAIN files \ unseen[t] = DOMAIN files
    BY <1>1
  <2>2. DOMAIN files \subseteq Left(t) /\ Bytes(DOMAIN files \ unseen[t]) <= total[t]
    BY <1>1 DEF Clears
  <2> QED BY <1>1, <2>1, <2>2 DEF Left
<1>3. DOMAIN files' = DOMAIN files \ {k}
  BY <1>1, WithoutDomain
<1>4. entries'[t] = entries[t] \ {e}
  BY <1>1 DEF SettleInv
<1>5. DOMAIN files' \subseteq Left(t)'
  <2>1. \A j \in DOMAIN files' : \E f \in entries'[t] : f.key = j
    BY <1>2, <1>3, <1>4
  <2> QED BY <2>1 DEF Left
<1>6. DOMAIN files' \ unseen'[t] = DOMAIN files \ {k}
  BY <1>1, <1>3
<1>7. DOMAIN files \subseteq Keys /\ IsFiniteSet(DOMAIN files) /\ total[t] \in Int
  BY DEF SettleInv, EvictFields, IInv, Shape, IsMap
<1> HIDE DEF k
<1>8. Bytes(DOMAIN files \ {k}) <= total'[t]
  <2> DEFINE S == DOMAIN files
  <2>1. S \subseteq Keys /\ IsFiniteSet(S) /\ Bytes(S) <= total[t]
    BY <1>2, <1>7
  <2>2. total'[t] = IF k \in S THEN total[t] - Size[k] ELSE total[t]
    BY <1>1 DEF SettleInv
  <2> HIDE DEF S
  <2>3. CASE k \in S
    <3>1. Bytes(S) = Size[k] + Bytes(S \ {k}) /\ Size[k] \in Nat
      BY <2>1, <2>3, BytesOf, CacheAssumption
    <3>2. Bytes(S \ {k}) \in Nat
      <4>1. IsFiniteSet(S \ {k}) /\ S \ {k} \subseteq Keys
        BY <2>1, FS_Subset
      <4> QED BY <4>1, BytesOf
    <3>3. Bytes(S \ {k}) <= total'[t]
      BY <1>7, <2>1, <2>2, <2>3, <3>1, <3>2
    <3> QED BY <3>3 DEF S
  <2>4. CASE k \notin S
    <3>1. S \ {k} = S
      BY <2>4
    <3> QED BY <2>1, <2>2, <2>4, <3>1 DEF S
  <2> QED BY <2>3, <2>4
<1> QED BY <1>1, <1>5, <1>6, <1>8 DEF Clears

\* evict returns under capacity, or with nothing left of what there was.
LEMMA EvictedSettles ==
    ASSUME SettleInv, NEW t \in Threads, Evicted(t), Clears(t)
    PROVE  Bytes(DOMAIN files') <= Capacity
<1>1. /\ files' = files /\ pc[t] = "evict" /\ unseen[t] = {}
      /\ total[t] <= Capacity \/ entries[t] = {}
  BY DEF Evicted, UnderCapacity
<1>2. DOMAIN files \subseteq Keys /\ IsFiniteSet(DOMAIN files) /\ total[t] \in Int
  BY DEF SettleInv, EvictFields, IInv, Shape, IsMap
<1>3. DOMAIN files \ unseen[t] = DOMAIN files
  BY <1>1
<1>4. DOMAIN files \subseteq Left(t) /\ Bytes(DOMAIN files) <= total[t]
  BY <1>1, <1>3 DEF Clears
<1>5. Bytes(DOMAIN files) \in Nat /\ (DOMAIN files = {} => Bytes(DOMAIN files) = 0)
  BY <1>2, BytesOf
<1>6. entries[t] = {} => DOMAIN files = {}
  BY <1>1, <1>4 DEF Left
<1> QED BY <1>1, <1>2, <1>4, <1>5, <1>6, CacheAssumption

LEMMA SettlingStep == ASSUME SettleInv, [Next]_vars PROVE Settling'
<1>1. ASSUME NEW t \in Threads, Step(t) \/ \E k \in Keys : Call(t, k) \/ Forget(t, k)
      PROVE  Settling'
  <2>0. /\ \A u \in Threads \ {t} : pc'[u] = pc[u]
        /\ pc \in [Threads -> Steps] /\ pc' \in [Threads -> Steps]
    BY <1>1, OthersStay DEF SettleInv, IInv, Shape
  <2>1. CASE Replace(t)
    <3>1. pc'[t] = "list"
      BY <2>0, <2>1 DEF Replace, Goto
    <3> QED BY <3>1 DEF Settling, Clears
  <2>2. CASE List(t)
    <3>1. /\ pc[t] = "list" /\ pc'[t] = "evict" /\ unseen'[t] = DOMAIN files /\ files' = files
          /\ entries' = entries /\ total' = total /\ crashes' = crashes
          /\ \A u \in Threads \ {t} : unseen'[u] = unseen[u]
      BY <2>0, <2>2 DEF List, Listed, Goto, counters, SettleInv
    <3>2. total'[t] = 0
      BY <3>1 DEF SettleInv, EvictFields
    <3>3. DOMAIN files' \ unseen'[t] = {}
      BY <3>1
    <3>4. Bytes({}) = 0
      BY FS_EmptySet, BytesOf
    <3>5. Clears(t)'
      BY <3>1, <3>2, <3>3, <3>4 DEF Clears, Left
    <3> QED BY <3>5 DEF Settling
  <2>3. CASE Stat(t)
    <3>1. /\ pc' = pc /\ files' = files /\ crashes' = crashes
          /\ \A u \in Threads \ {t} : /\ unseen'[u] = unseen[u] /\ entries'[u] = entries[u]
                                        /\ total'[u] = total[u]
      BY <2>3 DEF Stat, counters, SettleInv
    <3> QED BY <2>3, <3>1, StatClears, SettlesStill
  <2>4. CASE Drop(t)
    <3>1. /\ pc' = pc /\ crashes' = crashes
          /\ \A u \in Threads \ {t} : /\ unseen'[u] = unseen[u] /\ entries'[u] = entries[u]
                                        /\ total'[u] = total[u]
      BY <2>4 DEF Drop, counters, SettleInv
    <3>2. DOMAIN files' \subseteq DOMAIN files
      BY <2>4 DEF Drop, Without, Restrict
    <3> QED BY <2>4, <3>1, <3>2, DropClears, SettlesStill
  <2>5. CASE Evicted(t)
    <3>1. /\ files' = files /\ crashes' = crashes
          /\ \A u \in Threads \ {t} : /\ unseen'[u] = unseen[u] /\ entries'[u] = entries[u]
                                        /\ total'[u] = total[u]
      BY <2>5 DEF Evicted, counters, SettleInv
    <3> QED BY <2>0, <2>5, <3>1, EvictedSettles, SettlesStill
  <2>6. CASE \/ Probe(t) \/ Acquire(t) \/ Recheck(t) \/ Touch(t) \/ FetchBegins(t)
             \/ FetchReturns(t) \/ Fails(t) \/ Cleanup(t)
             \/ \E k \in Keys : Call(t, k) \/ Forget(t, k)
    <3>1. UNCHANGED <<unseen, entries, total, crashes>>
      BY <2>6 DEF Probe, Acquire, Recheck, Touch, FetchBegins, FetchReturns, Fails,
         Cleanup, Call, Forget, evictVars, counters
    <3>2. DOMAIN files' \subseteq DOMAIN files
      <4>1. CASE Touch(t)
        BY <4>1 DEF Touch, SettleInv, IInv, Shape, IsMap
      <4>2. CASE \E k \in Keys : Forget(t, k)
        BY <4>2 DEF Forget, Without, Restrict
      <4> QED BY <2>6, <4>1, <4>2 DEF Probe, Acquire, Recheck, FetchBegins, FetchReturns,
                 Fails, Cleanup, Call
    <3>3. pc[t] \notin {"list", "evict"}
      BY <2>6 DEF Probe, Acquire, Recheck, Touch, FetchBegins, FetchReturns, Fails,
         Cleanup, Call, Forget
    <3>4. ~Clears(t)
      BY <3>3 DEF Clears
    <3> QED BY <2>0, <3>1, <3>2, <3>4, SettlesStill
  <2> QED BY <1>1, <2>1, <2>2, <2>3, <2>4, <2>5, <2>6 DEF Step
<1>2. ASSUME NEW w \in Range(Worker), Crash(w) PROVE Settling'
  <2>1. crashes' # 0
    BY <1>2 DEF Crash, SettleInv
  <2> QED BY <2>1 DEF Settling
<1>3. CASE UNCHANGED vars
  BY <1>3 DEF vars, SettleInv, Settling, Clears, Left
<1> QED BY <1>1, <1>2, <1>3 DEF Next

\* cache.py 85-100: as long as no process dies, whatever insertions, evictions
\* and frees ran side by side, the directory is within its capacity whenever
\* no eviction is under way.
THEOREM Settles == Spec => []SettlesUnderCapacity
<1>1. SettleInv => SettlesUnderCapacity
  BY DEF SettleInv, Settling, Clears, SettlesUnderCapacity, Bytes
<1>2. SettleInv /\ [Next]_vars => SettleInv'
  <2>1. IInv /\ [Next]_vars => IInv'
    BY ShapeStep, ExclusionStep, PartsStep, NotOursStep, WholeStep DEF IInv
  <2> QED BY <2>1, FilesStayFinite, EvictStep, SettlingStep DEF SettleInv
<1> QED BY <1>1, <1>2, InitSettles, PTL DEF Spec

-----------------------------------------------------------------------------
(* The kernels that share a video's frames *)

\* Process w still finds entry k, or something has disturbed it.
Holds(w, k) == k \in DOMAIN files \/ disturbed[w]

\* Where a sift can be.
Places == {"idle", "header", "call", "cached", "video", "open", "render", "failed", "raise",
           "stat", "decode", "memo", "copy", "copying", "size", "forget"}

\* What a thread records of its sift.
Fields ==
    /\ pc \in [Threads -> Steps] /\ key \in [Threads -> Keys \cup {NoKey}]
    /\ at \in [Outer -> Places] /\ node \in [Outer -> Nodes \cup {"none"}]
    /\ dumps \in [Workers -> {"none", "truncated", "whole"}]
    /\ disturbed \in [Workers -> BOOLEAN]

FrameTypes ==
    Fields /\ verdict \in [Workers -> [Nodes -> {"none", "pass", "error"}]]

\* One thread of a process runs a node.
Unique == \A t, u \in Outer :
    t # u /\ W(t) = W(u) /\ node[t] # "none" => node[t] # node[u]

\* The outer call of thread t is in its fetch.
Fetching(t) == \/ at[t] \in {"video", "open", "render", "failed"}
               \/ at[t] \in {"decode", "memo"} /\ node[t] = "dump"

\* Which node thread t may be at this place for, and where its calls then are.
Place(t) ==
    /\ at[t] = "idle" <=> node[t] = "none"
    /\ at[t] \in {"header", "stat", "video", "open"} => node[t] = "frames"
    /\ at[t] \in {"copy", "copying", "size"} => node[t] = "dump"
    /\ at[t] \in {"decode", "memo"} => node[t] \in {"dump", "read"}
    /\ at[t] \in {"call", "cached", "render", "failed", "raise"} => node[t] \in {"frames", "dump"}
    /\ at[t] = "forget" => node[t] = "free"
    /\ at[t] = "cached" \/ Fetching(t) => key[t] = Wanted(t)
    /\ at[t] = "cached" => pc[t] # "cleanup"
    /\ Fetching(t) => pc[t] \in {"fetch", "write", "cleanup"}
    /\ Fetching(t) /\ at[t] \notin {"render", "failed"} => pc[t] = "fetch"
    /\ at[t] = "render" => pc[t] \in {"fetch", "write"}
    /\ at[t] = "failed" => pc[t] \in {"fetch", "cleanup"}
    /\ at[t] = "video" => key[Inner[t]] = Video

\* What thread t takes for granted where it is.
Claims(t) ==
    /\ at[t] = "cached" /\ pc[t] \in {"touch", "touch_locked", "list", "evict"}
          => Holds(W(t), Wanted(t))
    /\ at[t] = "video" /\ pc[Inner[t]] \in {"touch", "touch_locked", "list", "evict"}
          => Holds(W(t), Video)
    /\ at[t] = "video" /\ pc[Inner[t]] = "cleanup" => disturbed[W(t)]
    /\ at[t] = "open" => Holds(W(t), Video)
    /\ at[t] = "stat" => Holds(W(t), Stack)
    /\ at[t] \in {"copy", "copying", "size"} => Holds(W(t), Encoded)
    /\ at[t] \in {"failed", "raise"} => disturbed[W(t)]
    /\ at[t] = "size" => dumps[W(t)] = "whole"

\* What the verdicts say of the node thread t runs.
Begun(t) ==
    /\ node[t] # "none" => node[t] \in Runs[W(t)] /\ verdict[W(t)][node[t]] = "none"
    /\ node[t] \notin {"none", "frames"} => verdict[W(t)]["frames"] = "pass"
    /\ node[t] \in {"dump", "read"} => verdict[W(t)]["free"] = "none"
    /\ node[t] = "free" => \A m \in {"dump", "read"} \cap Runs[W(t)] : verdict[W(t)][m] # "none"

\* What the verdicts say of the process's sample.
Recorded(w) ==
    /\ verdict[w]["frames"] = "pass" /\ verdict[w]["free"] = "none" => Holds(w, Stack)
    /\ \A n \in Nodes : verdict[w][n] = "error" => disturbed[w]
    /\ verdict[w]["dump"] = "pass" => dumps[w] = "whole"
    /\ verdict[w]["free"] # "none" =>
          \A m \in {"dump", "read"} \cap Runs[w] : verdict[w][m] # "none"

SiftInv ==
    /\ FrameTypes /\ Unique
    /\ \A t \in Outer : Place(t) /\ Claims(t) /\ Begun(t)
    /\ \A w \in Workers : Recorded(w)

-----------------------------------------------------------------------------
LEMMA FrameFacts ==
    /\ \A t \in Outer : t \in Threads /\ Inner[t] \in Threads /\ Inner[t] \notin Outer /\ W(t) \in Workers
    /\ \A t, u \in Outer : Inner[t] = Inner[u] => t = u
    /\ Video # Stack /\ Stack # Encoded /\ Video # Encoded
    /\ Video \in Keys /\ Stack \in Keys /\ Encoded \in Keys
    /\ \A w \in Workers : Runs[w] \subseteq Nodes
BY FrameAssumption, RunsAssumption DEF W, Workers

\* What any step of thread t leaves alone: the other threads and what they
\* hold, but for its own node's verdict, the dump if it is the dumper, and the
\* stack if it frees it.
Only(t) ==
    /\ \A u \in Outer : u # t =>
          /\ at'[u] = at[u] /\ node'[u] = node[u]
          /\ pc'[u] = pc[u] /\ key'[u] = key[u]
          /\ pc'[Inner[u]] = pc[Inner[u]] /\ key'[Inner[u]] = key[Inner[u]]
    /\ node'[t] \in {node[t], "none"}
    /\ \A w \in Workers : disturbed[w] => disturbed'[w]
    /\ \A w \in Workers : dumps'[w] # dumps[w] => w = W(t) /\ node[t] = "dump"
    /\ \A w \in Busy : \A k : Holds(w, k) =>
          Holds(w, k)' \/ (w = W(t) /\ node[t] = "free" /\ node'[t] = "none" /\ k = Stack)

\* Thread t gives no answer in this step, or one that it may give.
Replies(t) ==
    \/ verdict' = verdict /\ node'[t] = node[t]
    \/ \E v \in {"pass", "error"} :
          /\ verdict' = [verdict EXCEPT ![W(t)][node[t]] = v]
          /\ node[t] # "none" /\ node'[t] = "none"
          /\ v = "error" => disturbed'[W(t)]
          /\ v = "pass" /\ node[t] = "frames" => Holds(W(t), Stack)'
          /\ v = "pass" /\ node[t] = "dump" => dumps'[W(t)] = "whole"

\* The verdicts after a step of thread t.
LEMMA NewVerdicts ==
    ASSUME SiftInv, NEW t \in Outer, Replies(t)
    PROVE  /\ verdict' \in [Workers -> [Nodes -> {"none", "pass", "error"}]]
           /\ \A w \in Workers : w # W(t) => verdict'[w] = verdict[w]
           /\ \A n \in Nodes : n # node[t] => verdict'[W(t)][n] = verdict[W(t)][n]
           /\ node'[t] = node[t] => verdict' = verdict
           /\ \A w \in Workers : \A n \in Nodes : verdict[w][n] # "none" => verdict'[w][n] = verdict[w][n]
<1>1. W(t) \in Workers
  BY FrameFacts
<1>2. CASE verdict' = verdict
  BY <1>2 DEF SiftInv, FrameTypes, Fields
<1>3. ASSUME NEW v \in {"pass", "error"}, verdict' = [verdict EXCEPT ![W(t)][node[t]] = v],
             node[t] # "none", node'[t] = "none"
      PROVE  /\ verdict' \in [Workers -> [Nodes -> {"none", "pass", "error"}]]
             /\ \A w \in Workers : w # W(t) => verdict'[w] = verdict[w]
             /\ \A n \in Nodes : n # node[t] => verdict'[W(t)][n] = verdict[W(t)][n]
             /\ node'[t] # node[t]
             /\ verdict[W(t)][node[t]] = "none"
  BY <1>1, <1>3 DEF SiftInv, FrameTypes, Fields, Begun
<1>4. CASE \E v \in {"pass", "error"} : verdict' = [verdict EXCEPT ![W(t)][node[t]] = v]
                                        /\ node[t] # "none" /\ node'[t] = "none"
  BY <1>1, <1>3, <1>4
<1> QED BY <1>2, <1>4 DEF Replies

LEMMA OtherThreadsStay ==
    ASSUME SiftInv, NEW t \in Outer, Only(t), Replies(t), NEW u \in Outer, u # t
    PROVE  Place(u)' /\ Claims(u)' /\ Begun(u)'
<1>1. /\ at'[u] = at[u] /\ node'[u] = node[u] /\ pc'[u] = pc[u] /\ key'[u] = key[u]
      /\ pc'[Inner[u]] = pc[Inner[u]] /\ key'[Inner[u]] = key[Inner[u]]
      /\ W(u) \in Workers
  BY FrameFacts DEF Only
<1>2. Place(u) /\ Claims(u) /\ Begun(u) /\ Begun(t)
  BY DEF SiftInv
<1>3. Place(u)'
  BY <1>1, <1>2 DEF Place, Fetching, Wanted
<1>4. node[u] # "none" /\ W(u) = W(t) => node[u] # node[t]
  BY DEF SiftInv, Unique
<1>5. node[u] # "none" => W(u) \in Busy
  BY <1>1, <1>2 DEF Busy, Place
<1>6. W(u) = W(t) /\ node[t] = "free" => node[u] \notin {"frames", "dump", "read"}
  BY <1>2 DEF Begun
<1>7. ASSUME node[u] # "none", NEW k, Holds(W(u), k), node[u] \in {"frames", "dump", "read"}
      PROVE  Holds(W(u), k)'
  BY <1>5, <1>6, <1>7 DEF Only
<1>8. Claims(u)'
  <2>1. disturbed[W(u)] => disturbed'[W(u)]
    BY <1>1 DEF Only
  <2>2. at[u] = "size" => dumps'[W(u)] = dumps[W(u)]
    BY <1>1, <1>2, <1>4 DEF Only, Place
  <2>3. Wanted(u)' = Wanted(u) /\ W(u)' = W(u)
    BY <1>1 DEF Wanted, W
  <2> QED BY <1>1, <1>2, <1>7, <2>1, <2>2, <2>3 DEF Claims, Place
<1>9. Begun(u)'
  <2>1. CASE W(u) # W(t)
    BY <1>1, <1>2, <2>1, NewVerdicts DEF Begun, W
  <2>2. CASE W(u) = W(t)
    <3>1. \A n \in Nodes : n # node[t] => verdict'[W(u)][n] = verdict[W(u)][n]
      BY <2>2, NewVerdicts
    <3>2. \A n \in Nodes : verdict[W(u)][n] # "none" => verdict'[W(u)][n] = verdict[W(u)][n]
      BY <1>1, NewVerdicts
    <3>3. node[u] \in Nodes \cup {"none"} /\ Runs[W(u)] \subseteq Nodes
      BY <1>1, FrameFacts DEF SiftInv, FrameTypes, Fields
    <3>4. node[u] \in {"dump", "read"} => node[t] # "free"
      BY <1>6, <2>2
    <3> QED BY <1>1, <1>2, <1>4, <2>2, <3>1, <3>2, <3>3, <3>4 DEF Begun, W, Nodes
  <2> QED BY <2>1, <2>2
<1> QED BY <1>3, <1>8, <1>9

LEMMA RecordsStay ==
    ASSUME SiftInv, NEW t \in Outer, Only(t), Replies(t), NEW w \in Workers
    PROVE  Recorded(w)'
<1>1. Recorded(w) /\ Begun(t) /\ Place(t) /\ FrameTypes
  BY DEF SiftInv
<1>2. \A n \in Nodes : verdict[w][n] # "none" => verdict'[w][n] = verdict[w][n] /\ w \in Busy
  BY NewVerdicts DEF Busy
<1>3. disturbed[w] => disturbed'[w]
  BY DEF Only
<1>4. CASE w # W(t)
  <2>1. verdict'[w] = verdict[w] /\ dumps'[w] = dumps[w]
    BY <1>4, NewVerdicts DEF Only
  <2>2. ASSUME verdict[w]["frames"] = "pass", Holds(w, Stack)
        PROVE  Holds(w, Stack)'
    BY <1>2, <1>4, <2>2 DEF Only, Nodes
  <2> QED BY <1>1, <1>3, <2>1, <2>2 DEF Recorded
<1>5. CASE w = W(t)
  <2>1. \A n \in Nodes : n # node[t] => verdict'[w][n] = verdict[w][n]
    BY <1>5, NewVerdicts
  <2>2. ASSUME verdict' # verdict
        PROVE  /\ node[t] # "none" /\ node'[t] = "none" /\ verdict'[w][node[t]] \in {"pass", "error"}
               /\ verdict'[w][node[t]] = "error" => disturbed'[w]
               /\ verdict'[w][node[t]] = "pass" /\ node[t] = "frames" => Holds(w, Stack)'
               /\ verdict'[w][node[t]] = "pass" /\ node[t] = "dump" => dumps'[w] = "whole"
    <3>1. PICK v \in {"pass", "error"} :
            /\ verdict' = [verdict EXCEPT ![W(t)][node[t]] = v]
            /\ node[t] # "none" /\ node'[t] = "none"
            /\ v = "error" => disturbed'[W(t)]
            /\ v = "pass" /\ node[t] = "frames" => Holds(W(t), Stack)'
            /\ v = "pass" /\ node[t] = "dump" => dumps'[W(t)] = "whole"
      BY <2>2 DEF Replies
    <3>2. node[t] \in Nodes
      BY <1>1, <3>1 DEF FrameTypes, Fields
    <3>3. verdict'[w][node[t]] = v
      BY <1>1, <1>5, <3>1, <3>2 DEF FrameTypes
    <3> QED BY <1>5, <3>1, <3>3
  <2>3. ASSUME verdict'[w]["frames"] = "pass", verdict'[w]["free"] = "none"
        PROVE  Holds(w, Stack)'
    <3>1. verdict[w]["free"] = "none"
      BY <1>2, <2>3 DEF Nodes
    <3>2. CASE node[t] = "frames" /\ verdict' # verdict
      BY <2>2, <2>3, <3>2
    <3>3. CASE node[t] # "frames" \/ verdict' = verdict
      <4>1. verdict[w]["frames"] = "pass"
        BY <2>1, <2>3, <3>3 DEF Nodes
      <4>2. Holds(w, Stack) /\ w \in Busy
        BY <1>1, <1>2, <3>1, <4>1 DEF Recorded, Nodes
      <4>3. ~(node[t] = "free" /\ node'[t] = "none")
        BY <1>1, <1>5, <2>3 DEF Replies, FrameTypes, Nodes
      <4> QED BY <4>2, <4>3 DEF Only
    <3> QED BY <3>2, <3>3
  <2>4. ASSUME NEW n \in Nodes, verdict'[w][n] = "error"
        PROVE  disturbed'[w]
    BY <1>1, <1>3, <2>1, <2>2, <2>4 DEF Recorded
  <2>5. verdict'[w]["dump"] = "pass" => dumps'[w] = "whole"
    <3>1. CASE node[t] = "dump"
      <4>1. verdict[w]["dump"] = "none"
        BY <1>1, <1>5, <3>1 DEF Begun
      <4> QED BY <2>2, <3>1, <4>1
    <3>2. CASE node[t] # "dump"
      BY <1>1, <2>1, <3>2 DEF Recorded, Only, Nodes
    <3> QED BY <3>1, <3>2
  <2>6. ASSUME verdict'[w]["free"] # "none", NEW m \in {"dump", "read"} \cap Runs[w]
        PROVE  verdict'[w][m] # "none"
    <3>1. verdict[w][m] # "none"
      BY <1>1, <1>5, <2>1, <2>6 DEF Begun, Recorded, Nodes
    <3> QED BY <1>2, <3>1 DEF Nodes
  <2> QED BY <2>3, <2>4, <2>5, <2>6 DEF Recorded
<1> QED BY <1>4, <1>5

\* A step of thread t keeps the invariant if it leaves t where it may be.
LEMMA StepOf ==
    ASSUME SiftInv, NEW t \in Outer, Only(t), Replies(t), Fields', Place(t)', Claims(t)'
    PROVE  SiftInv'
<1>1. FrameTypes'
  BY NewVerdicts DEF FrameTypes, Workers, Nodes
<1>2. Unique'
  <2>1. \A u \in Outer : node'[u] \in {node[u], "none"}
    BY DEF Only
  <2> QED BY <2>1 DEF SiftInv, Unique, W, Outer
<1>3. Begun(t)'
  <2>1. node'[t] # "none" => node'[t] = node[t] /\ verdict' = verdict
    BY DEF Replies
  <2>2. Begun(t)
    BY DEF SiftInv
  <2> QED BY <2>1, <2>2 DEF Begun, W
<1>4. \A u \in Outer : Place(u)' /\ Claims(u)' /\ Begun(u)'
  BY <1>3, OtherThreadsStay
<1>5. \A w \in Workers : Recorded(w)'
  BY RecordsStay
<1> QED BY <1>1, <1>2, <1>4, <1>5 DEF SiftInv, Outer, Workers

-----------------------------------------------------------------------------
(* The calls of materialize *)

\* A step of frame f's call that is not its fetch: where it leads, and that
\* a path it is about to return is there when it found it or put it there.
LEMMA CallSteps ==
    ASSUME Fields, NEW f \in Threads, CallStep(f)
    PROVE  /\ pc' \in [Threads -> Steps] /\ key' \in [Threads -> Keys \cup {NoKey}]
           /\ \A g \in Threads : g # f => pc'[g] = pc[g] /\ key'[g] = key[g]
           /\ pc[f] \notin {"idle", "fetch", "write"} /\ pc'[f] \notin {"write", "cleanup"}
           /\ pc'[f] # "idle" => key'[f] = key[f]
           /\ pc'[f] = "idle" => pc[f] \in {"touch", "touch_locked", "evict", "cleanup"}
           /\ pc[f] = "cleanup" => pc'[f] = "idle"
           /\ pc'[f] \in {"touch", "touch_locked"} => key[f] \in DOMAIN files'
           /\ pc'[f] \in {"list", "evict"} => key[f] \in DOMAIN files' \/ pc[f] \in {"list", "evict"}
<1> USE DEF Fields, Steps, Goto, Leave
<1>1. CASE Probe(f)
  BY <1>1 DEF Probe, Cached
<1>2. CASE Acquire(f)
  BY <1>2 DEF Acquire
<1>3. CASE Recheck(f)
  BY <1>3 DEF Recheck, AfterRecheck, Cached
<1>4. CASE Touch(f)
  BY <1>4 DEF Touch
<1>5. CASE Replace(f)
  <2> DEFINE e == [k \in {key[f]} |->
                     [mtime |-> parts[f].mtime, whole |-> parts[f].whole, by |-> Worker[f]]]
  <2>1. files' = Override(files, e) /\ key[f] \in DOMAIN e
    BY <1>5 DEF Replace
  <2> HIDE DEF e
  <2>2. DOMAIN Override(files, e) = DOMAIN files \cup DOMAIN e
    BY OverrideDomain
  <2>3. key[f] \in DOMAIN files'
    BY <2>1, <2>2
  <2> QED BY <1>5, <2>3 DEF Replace
<1>6. CASE Cleanup(f)
  BY <1>6 DEF Cleanup
<1>7. CASE List(f)
  BY <1>7 DEF List
<1>8. CASE Stat(f)
  BY <1>8 DEF Stat
<1>9. CASE Drop(f)
  BY <1>9 DEF Drop
<1>10. CASE Evicted(f)
  BY <1>10 DEF Evicted
<1> QED BY <1>1, <1>2, <1>3, <1>4, <1>5, <1>6, <1>7, <1>8, <1>9, <1>10 DEF CallStep

\* The download itself: its part file is written, or it fails.
LEMMA Downloads ==
    ASSUME Fields, NEW f \in Threads, FetchBegins(f) \/ FetchReturns(f) \/ Fails(f)
    PROVE  /\ pc' \in [Threads -> Steps] /\ key' = key /\ files' = files
           /\ \A g \in Threads : g # f => pc'[g] = pc[g]
           /\ FetchBegins(f) => pc[f] = "fetch" /\ pc'[f] = "write"
           /\ FetchReturns(f) => pc[f] = "write" /\ pc'[f] = "replace"
           /\ Fails(f) => pc[f] \in {"fetch", "write", "replace"} /\ pc'[f] = "cleanup"
BY DEF Fields, Steps, Goto, FetchBegins, FetchReturns, Fails

\* A call is entered.
LEMMA Enters ==
    ASSUME Fields, NEW f \in Threads, NEW k \in Keys, Enter(f, k)
    PROVE  /\ pc' \in [Threads -> Steps] /\ key' \in [Threads -> Keys \cup {NoKey}]
           /\ \A g \in Threads : g # f => pc'[g] = pc[g] /\ key'[g] = key[g]
           /\ pc'[f] = "probe" /\ key'[f] = k /\ files' = files
BY DEF Fields, Steps, Enter

\* Whoever misses an entry has been disturbed.
LEMMA MissingDisturbs ==
    ASSUME Fields, Disturb(IF Removes THEN Busy ELSE {})
    PROVE  /\ disturbed' \in [Workers -> BOOLEAN]
           /\ \A w \in Workers : disturbed[w] => disturbed'[w]
           /\ \A w \in Busy : \A k : Holds(w, k) => Holds(w, k)'
<1>1. disturbed' = [w \in Workers |-> disturbed[w] \/ w \in IF Removes THEN Busy ELSE {}]
  BY DEF Disturb
<1>2. disturbed' \in [Workers -> BOOLEAN] /\ \A w \in Workers : disturbed[w] => disturbed'[w]
  BY <1>1 DEF Fields
<1>3. Busy \subseteq Workers
  BY DEF Busy
<1>4. ASSUME NEW w \in Busy, NEW k, Holds(w, k)
      PROVE  Holds(w, k)'
  BY <1>1, <1>2, <1>3, <1>4 DEF Holds, Removes
<1> QED BY <1>2, <1>4

LEMMA FaultDisturbs ==
    ASSUME Fields, NEW t \in Outer, Fault(t)
    PROVE  /\ disturbed' \in [Workers -> BOOLEAN] /\ disturbed'[W(t)]
           /\ \A w \in Workers : disturbed[w] => disturbed'[w]
BY FrameFacts DEF Fault, Disturb, Fields

\* A thread that is not idle keeps its process busy.
LEMMA BusyFacts ==
    ASSUME NEW t \in Outer, at[t] # "idle"
    PROVE  W(t) \in Busy
BY FrameFacts DEF Busy

-----------------------------------------------------------------------------
(* The steps that leave the cache alone *)

\* A step of thread t that neither calls the cache nor loses an entry.
Calm(t) ==
    /\ files' = files /\ pc' = pc /\ key' = key
    /\ at' \in [Outer -> Places] /\ node' \in [Outer -> Nodes \cup {"none"}]
    /\ \A u \in Outer : u # t => at'[u] = at[u] /\ node'[u] = node[u]
    /\ node'[t] \in {node[t], "none"}
    /\ disturbed' \in [Workers -> BOOLEAN]
    /\ \A w \in Workers : disturbed[w] => disturbed'[w]
    /\ dumps' \in [Workers -> {"none", "truncated", "whole"}]
    /\ \A w \in Workers : dumps'[w] # dumps[w] => w = W(t) /\ node[t] = "dump"

LEMMA CalmSteps ==
    ASSUME SiftInv, NEW t \in Outer, Calm(t)
    PROVE  Only(t) /\ Fields'
<1>1. Busy \subseteq Workers
  BY DEF Busy
<1>2. \A w \in Busy : \A k : Holds(w, k) => Holds(w, k)'
  BY <1>1 DEF Calm, Holds
<1>3. Only(t)
  BY <1>2 DEF Only, Calm
<1>4. Fields'
  BY DEF Calm, Fields, SiftInv, FrameTypes, Outer, Workers
<1> QED BY <1>3, <1>4

\* What is known of thread t before its step.
LEMMA Known ==
    ASSUME SiftInv, NEW t \in Outer
    PROVE  Fields /\ Place(t) /\ Claims(t) /\ Begun(t) /\ W(t) \in Workers /\ Recorded(W(t))
BY FrameFacts DEF SiftInv, FrameTypes

LEMMA HeaderKeeps ==
    ASSUME SiftInv, NEW t \in Outer, ReadHeader(t) \/ ReadHeaderFails(t)
    PROVE  SiftInv'
<1> USE Known DEF To, Answers
<1>1. CASE ReadHeader(t)
  <2>1. Calm(t)
    BY <1>1 DEF ReadHeader, vars, Fields, Calm, Places
  <2>2. Replies(t)
    BY <1>1 DEF ReadHeader, Replies
  <2>3. Place(t)' /\ Claims(t)'
    BY <1>1 DEF ReadHeader, Place, Claims, Fetching, Fields
  <2> QED BY <2>1, <2>2, <2>3, CalmSteps, StepOf
<1>2. CASE ReadHeaderFails(t)
  <2>1. Calm(t)
    BY <1>2, FaultDisturbs DEF ReadHeaderFails, vars, Fields, Calm, Places
  <2>2. Replies(t)
    BY <1>2, FaultDisturbs DEF ReadHeaderFails, Replies, Fields, Place
  <2>3. Place(t)' /\ Claims(t)'
    BY <1>2 DEF ReadHeaderFails, Place, Claims, Fetching, Fields
  <2> QED BY <2>1, <2>2, <2>3, CalmSteps, StepOf
<1> QED BY <1>1, <1>2

LEMMA OpenKeeps ==
    ASSUME SiftInv, NEW t \in Outer, Open(t)
    PROVE  SiftInv'
<1> USE Known DEF To, Answers
<1>1. Calm(t)
  BY DEF Open, vars, Fields, Calm, Places
<1>2. Replies(t)
  BY DEF Open, Replies, Fields, Place, vars
<1>3. Place(t)' /\ Claims(t)'
  BY DEF Open, vars, Place, Claims, Fetching, Fields, Holds, Wanted, W, Decoded
<1> QED BY <1>1, <1>2, <1>3, CalmSteps, StepOf

LEMMA RaisesKeeps ==
    ASSUME SiftInv, NEW t \in Outer, Raises(t)
    PROVE  SiftInv'
<1> USE Known DEF To, Answers
<1>1. Calm(t)
  BY DEF Raises, vars, Fields, Calm, Places
<1>2. Replies(t)
  BY DEF Raises, Replies, Fields, Place, Claims, vars
<1>3. Place(t)' /\ Claims(t)'
  BY DEF Raises, vars, Place, Claims, Fetching, Fields, Holds, Wanted, W, Decoded
<1> QED BY <1>1, <1>2, <1>3, CalmSteps, StepOf

LEMMA StatStackKeeps ==
    ASSUME SiftInv, NEW t \in Outer, StatStack(t)
    PROVE  SiftInv'
<1> USE Known DEF To, Answers
<1>1. Calm(t)
  BY DEF StatStack, vars, Fields, Calm, Places
<1>2. Replies(t)
  <2>1. node[t] = "frames" /\ node'[t] = "none" /\ Holds(W(t), Stack)
    BY DEF StatStack, Place, Claims, Fields
  <2>2. files' = files /\ disturbed' = disturbed
    BY DEF StatStack, vars
  <2>3. CASE Stack \in DOMAIN files
    BY <2>1, <2>2, <2>3 DEF StatStack, Replies, Holds
  <2>4. CASE Stack \notin DOMAIN files
    BY <2>1, <2>2, <2>4 DEF StatStack, Replies, Holds
  <2> QED BY <2>3, <2>4
<1>3. Place(t)' /\ Claims(t)'
  BY DEF StatStack, vars, Place, Claims, Fetching, Fields, Holds, Wanted, W, Decoded
<1> QED BY <1>1, <1>2, <1>3, CalmSteps, StepOf

LEMMA HoldKeeps ==
    ASSUME SiftInv, NEW t \in Outer, Hold(t)
    PROVE  SiftInv'
<1> USE Known DEF To, Answers
<1>1. Calm(t)
  BY DEF Hold, vars, Fields, Calm, Places
<1>2. Replies(t)
  BY DEF Hold, Replies, Fields, Place, vars
<1>3. Place(t)' /\ Claims(t)'
  BY DEF Hold, vars, Place, Claims, Fetching, Fields, Holds, Wanted, W, Decoded
<1> QED BY <1>1, <1>2, <1>3, CalmSteps, StepOf

LEMMA DecodeKeeps ==
    ASSUME SiftInv, NEW t \in Outer, Decode(t)
    PROVE  SiftInv'
<1> USE Known DEF To, Answers
<1>1. Calm(t)
  BY DEF Decode, vars, Fields, Calm, Places, Decoded, Place
<1>2. Replies(t)
  BY DEF Decode, Replies, Fields, Place, vars, Decoded
<1>3. Place(t)' /\ Claims(t)'
  BY DEF Decode, vars, Place, Claims, Fetching, Fields, Holds, Wanted, W, Decoded
<1> QED BY <1>1, <1>2, <1>3, CalmSteps, StepOf

LEMMA CopyBeginsKeeps ==
    ASSUME SiftInv, NEW t \in Outer, CopyBegins(t)
    PROVE  SiftInv'
<1> USE Known DEF To, Answers
<1>1. Calm(t)
  BY DEF CopyBegins, vars, Fields, Calm, Places, Place
<1>2. Replies(t)
  BY DEF CopyBegins, Replies, Fields, Place, vars, Claims, Holds
<1>3. Place(t)' /\ Claims(t)'
  BY DEF CopyBegins, vars, Place, Claims, Fetching, Fields, Holds, Wanted, W, Decoded
<1> QED BY <1>1, <1>2, <1>3, CalmSteps, StepOf

LEMMA CopiedKeeps ==
    ASSUME SiftInv, NEW t \in Outer, Copied(t)
    PROVE  SiftInv'
<1> USE Known DEF To, Answers
<1>1. Calm(t)
  BY DEF Copied, vars, Fields, Calm, Places, Place
<1>2. Replies(t)
  BY DEF Copied, Replies, Fields, Place, vars
<1>3. Place(t)' /\ Claims(t)'
  BY DEF Copied, vars, Place, Claims, Fetching, Fields, Holds, Wanted, W, Decoded
<1> QED BY <1>1, <1>2, <1>3, CalmSteps, StepOf

LEMMA CopyFailsKeeps ==
    ASSUME SiftInv, NEW t \in Outer, CopyFails(t)
    PROVE  SiftInv'
<1> USE Known DEF To, Answers
<1>1. Calm(t)
  BY FaultDisturbs DEF CopyFails, vars, Fields, Calm, Places
<1>2. Replies(t)
  BY FaultDisturbs DEF CopyFails, Replies, Fields, Place, vars
<1>3. Place(t)' /\ Claims(t)'
  BY DEF CopyFails, vars, Place, Claims, Fetching, Fields, Holds, Wanted, W, Decoded
<1> QED BY <1>1, <1>2, <1>3, CalmSteps, StepOf

LEMMA StatEncodedKeeps ==
    ASSUME SiftInv, NEW t \in Outer, StatEncoded(t)
    PROVE  SiftInv'
<1> USE Known DEF To, Answers
<1>1. Calm(t)
  BY DEF StatEncoded, vars, Fields, Calm, Places
<1>2. Replies(t)
  BY DEF StatEncoded, Replies, Fields, Place, vars, Claims, Holds
<1>3. Place(t)' /\ Claims(t)'
  BY DEF StatEncoded, vars, Place, Claims, Fetching, Fields, Holds, Wanted, W, Decoded
<1> QED BY <1>1, <1>2, <1>3, CalmSteps, StepOf

LEMMA DecodeFailsKeeps ==
    ASSUME SiftInv, NEW t \in Outer, DecodeFails(t)
    PROVE  SiftInv'
<1> USE Known DEF To, Answers
<1>1. Calm(t)
  BY DEF DecodeFails, vars, Fields, Calm, Places
<1>2. disturbed[W(t)]
  <2>1. verdict[W(t)]["frames"] = "pass" /\ verdict[W(t)]["free"] = "none"
    BY DEF DecodeFails, Place, Begun
  <2> QED BY <2>1 DEF DecodeFails, HandleEntry, Recorded, Holds
<1>3. disturbed' = disturbed
  BY DEF DecodeFails
<1>4. Replies(t)
  BY <1>2, <1>3 DEF DecodeFails, Replies, Fields, Place
<1>5. Place(t)' /\ Claims(t)'
  BY <1>2, <1>3 DEF DecodeFails, vars, Place, Claims, Fetching, Fields, Wanted, W
<1> QED BY <1>1, <1>4, <1>5, CalmSteps, StepOf

LEMMA SubmitKeeps ==
    ASSUME SiftInv, NEW t \in Outer, NEW n \in Nodes, Submit(t, n)
    PROVE  SiftInv'
<1> USE Known DEF To
<1>1. /\ files' = files /\ pc' = pc /\ key' = key /\ verdict' = verdict
      /\ dumps' = dumps /\ disturbed' = disturbed
      /\ node' = [node EXCEPT ![t] = n]
      /\ at[t] = "idle" /\ node[t] = "none" /\ n \in Runs[W(t)] /\ verdict[W(t)][n] = "none"
      /\ \A u \in Outer : W(u) = W(t) => node[u] # n
  BY DEF Submit, vars, Place
<1>2. /\ n = "frames" => at' = [at EXCEPT ![t] = "header"]
      /\ n = "dump" => at' = [at EXCEPT ![t] = "call"]
      /\ n = "read" => at' = [at EXCEPT ![t] = "decode"]
      /\ n = "free" => at' = [at EXCEPT ![t] = "forget"]
  BY DEF Submit
<1>3. FrameTypes'
  BY <1>1, <1>2 DEF SiftInv, FrameTypes, Fields, Places, Nodes, Outer, Workers
<1>4. Unique'
  BY <1>1 DEF SiftInv, Unique, FrameTypes, Fields, W, Outer
<1>5. Place(t)' /\ Claims(t)'
  BY <1>1, <1>2 DEF Place, Claims, Fetching, Fields, Nodes
<1>6. Begun(t)'
  <2>1. \A m \in Upstream[n] \cap Runs[W(t)] : verdict[W(t)][m] # "none"
    BY DEF Submit
  <2>2. n # "frames" => verdict[W(t)]["frames"] = "pass"
    <3>1. "frames" \in Runs[W(t)]
      BY RunsAssumption
    <3>2. n # "frames" => "frames" \in Upstream[n]
      BY DEF Upstream, Nodes
    <3>3. verdict[W(t)]["frames"] \in {"none", "pass", "error"}
      BY DEF SiftInv, FrameTypes, Nodes
    <3> QED BY <2>1, <3>1, <3>2, <3>3 DEF Submit
  <2>3. n \in {"dump", "read"} => verdict[W(t)]["free"] = "none"
    BY <1>1 DEF Recorded
  <2>4. n = "free" => {"dump", "read"} \subseteq Upstream[n]
    BY DEF Upstream
  <2>5. node'[t] = n
    BY <1>1 DEF Fields
  <2> QED BY <1>1, <2>1, <2>2, <2>3, <2>4, <2>5 DEF Begun, W, Nodes
<1>7. ASSUME NEW u \in Outer, u # t
      PROVE  Place(u)' /\ Claims(u)' /\ Begun(u)'
  <2>1. at'[u] = at[u] /\ node'[u] = node[u]
    BY <1>1, <1>2, <1>7 DEF Fields, Nodes
  <2>2. Place(u) /\ Claims(u) /\ Begun(u)
    BY DEF SiftInv
  <2> QED BY <1>1, <2>1, <2>2 DEF Place, Claims, Begun, Fetching, Wanted, Holds, W
<1>8. \A w \in Workers : Recorded(w)'
  BY <1>1 DEF SiftInv, Recorded, Holds
<1> QED BY <1>3, <1>4, <1>5, <1>6, <1>7, <1>8 DEF SiftInv, Outer, Workers

\* forget(handle.uri): whoever else has begun is disturbed.
LEMMA FreeStackKeeps ==
    ASSUME SiftInv, NEW t \in Outer, FreeStack(t)
    PROVE  SiftInv'
<1> USE Known DEF To, Answers
<1>1. /\ pc' = pc /\ key' = key /\ dumps' = dumps
      /\ files' = Without(files, {Stack})
      /\ disturbed' = [w \in Workers |-> disturbed[w] \/ w \in Busy \ {W(t)}]
      /\ at[t] = "forget" /\ node[t] = "free"
  BY DEF FreeStack, HandleEntry, Disturb, Place
<1>2. DOMAIN files' = DOMAIN files \ {Stack}
  BY <1>1, WithoutDomain
<1>3. Busy \subseteq Workers
  BY DEF Busy
<1>4. Fields'
  BY <1>1 DEF FreeStack, Fields, Places, Outer, Workers
<1>5. Only(t)
  <2>1. \A w \in Workers : disturbed[w] => disturbed'[w]
    BY <1>1
  <2>2. node'[t] = "none"
    BY DEF FreeStack, Fields
  <2>3. ASSUME NEW w \in Busy, NEW k, Holds(w, k)
        PROVE  Holds(w, k)' \/ (w = W(t) /\ node[t] = "free" /\ node'[t] = "none" /\ k = Stack)
    BY <1>1, <1>2, <1>3, <2>2, <2>3 DEF Holds
  <2>4. \A u \in Outer : u # t => at'[u] = at[u] /\ node'[u] = node[u]
    BY DEF FreeStack, Fields
  <2> QED BY <1>1, <2>1, <2>2, <2>3, <2>4 DEF Only
<1>6. Replies(t)
  BY <1>1 DEF FreeStack, Replies, Fields
<1>7. Place(t)' /\ Claims(t)'
  BY <1>1 DEF FreeStack, Place, Claims, Fetching, Fields
<1> QED BY <1>4, <1>5, <1>6, <1>7, StepOf

-----------------------------------------------------------------------------
(* The steps inside a call *)

\* A step inside a call of thread t, its own or its fetch's.
CallsOn(t) ==
    /\ pc' \in [Threads -> Steps] /\ key' \in [Threads -> Keys \cup {NoKey}]
    /\ \A g \in Threads \ {t, Inner[t]} : pc'[g] = pc[g] /\ key'[g] = key[g]
    /\ at' \in [Outer -> Places] /\ \A u \in Outer : u # t => at'[u] = at[u]
    /\ node' = node /\ verdict' = verdict /\ dumps' = dumps
    /\ disturbed' \in [Workers -> BOOLEAN]
    /\ \A w \in Workers : disturbed[w] => disturbed'[w]
    /\ \A w \in Busy : \A k : Holds(w, k) => Holds(w, k)'

LEMMA InCalls ==
    ASSUME SiftInv, NEW t \in Outer, CallsOn(t), Place(t)', Claims(t)'
    PROVE  SiftInv'
<1>1. \A u \in Outer : u # t => u \in Threads \ {t, Inner[t]} /\ Inner[u] \in Threads \ {t, Inner[t]}
  BY FrameFacts
<1>2. Only(t)
  BY <1>1 DEF Only, CallsOn
<1>3. Replies(t)
  BY DEF Replies, CallsOn
<1>4. Fields'
  BY Known DEF Fields, CallsOn, Outer, Workers
<1> QED BY <1>2, <1>3, <1>4, StepOf

LEMMA MaterializeKeeps ==
    ASSUME SiftInv, NEW t \in Outer, Materialize(t)
    PROVE  SiftInv'
<1> USE Known, FrameFacts DEF To
<1>1. /\ pc' \in [Threads -> Steps] /\ key' \in [Threads -> Keys \cup {NoKey}]
      /\ \A g \in Threads : g # t => pc'[g] = pc[g] /\ key'[g] = key[g]
      /\ pc'[t] = "probe" /\ key'[t] = Wanted(t) /\ files' = files
  <2>1. Wanted(t) \in Keys /\ Enter(t, Wanted(t))
    BY DEF Materialize, Wanted
  <2> HIDE DEF To
  <2> QED BY <2>1, Enters
<1>2. CallsOn(t)
  BY <1>1 DEF Materialize, CallsOn, Places, Fields, Holds
<1>3. Place(t)' /\ Claims(t)'
  BY <1>1 DEF Materialize, Place, Claims, Fetching, Fields, Wanted
<1> QED BY <1>2, <1>3, InCalls

LEMMA FetchCallsKeeps ==
    ASSUME SiftInv, NEW t \in Outer, FetchCalls(t)
    PROVE  SiftInv'
<1> USE Known, FrameFacts DEF To
<1>1. CASE node[t] = "frames"
  <2>1. /\ pc' \in [Threads -> Steps] /\ key' \in [Threads -> Keys \cup {NoKey}]
        /\ \A g \in Threads : g # Inner[t] => pc'[g] = pc[g] /\ key'[g] = key[g]
        /\ pc'[Inner[t]] = "probe" /\ key'[Inner[t]] = Video /\ files' = files
    BY <1>1, Enters DEF FetchCalls
  <2>2. CallsOn(t)
    BY <1>1, <2>1 DEF FetchCalls, CallsOn, Places, Fields, Holds
  <2>3. Place(t)' /\ Claims(t)'
    BY <1>1, <2>1 DEF FetchCalls, Place, Claims, Fetching, Fields, Wanted
  <2> QED BY <2>2, <2>3, InCalls
<1>2. CASE node[t] # "frames"
  <2>1. CallsOn(t)
    BY <1>2 DEF FetchCalls, vars, CallsOn, Places, Fields, Holds
  <2>2. Place(t)' /\ Claims(t)'
    BY <1>2 DEF FetchCalls, vars, Place, Claims, Fetching, Fields, Wanted
  <2> QED BY <2>1, <2>2, InCalls
<1> QED BY <1>1, <1>2

LEMMA OuterStepKeeps ==
    ASSUME SiftInv, NEW t \in Outer, OuterStep(t)
    PROVE  SiftInv'
<1> USE Known, FrameFacts DEF To
<1>1. /\ pc' \in [Threads -> Steps] /\ key' \in [Threads -> Keys \cup {NoKey}]
      /\ \A g \in Threads : g # t => pc'[g] = pc[g] /\ key'[g] = key[g]
      /\ pc[t] \notin {"idle", "fetch", "write"} /\ pc'[t] \notin {"write", "cleanup"}
      /\ pc'[t] # "idle" => key'[t] = key[t]
      /\ pc'[t] = "idle" => pc[t] \in {"touch", "touch_locked", "evict", "cleanup"}
      /\ pc[t] = "cleanup" => pc'[t] = "idle"
      /\ pc'[t] \in {"touch", "touch_locked"} => key[t] \in DOMAIN files'
      /\ pc'[t] \in {"list", "evict"} => key[t] \in DOMAIN files' \/ pc[t] \in {"list", "evict"}
  BY CallSteps DEF OuterStep
<1>2. /\ disturbed' \in [Workers -> BOOLEAN]
      /\ \A w \in Workers : disturbed[w] => disturbed'[w]
      /\ \A w \in Busy : \A k : Holds(w, k) => Holds(w, k)'
  BY MissingDisturbs DEF OuterStep
<1>3. at'[t] = IF pc'[t] = "idle" THEN AfterCall(t) ELSE at[t]
  BY DEF OuterStep, Fields
<1>4. CallsOn(t)
  BY <1>1, <1>2 DEF OuterStep, AfterCall, CallsOn, Places, Fields
<1>5. Place(t)'
  <2>1. node' = node /\ Wanted(t)' = Wanted(t)
    BY DEF OuterStep, Wanted
  <2>2. CASE pc'[t] = "idle"
    BY <1>1, <1>3, <2>1, <2>2 DEF OuterStep, AfterCall, Place, Fetching
  <2>3. CASE pc'[t] # "idle"
    BY <1>1, <1>3, <2>1, <2>3 DEF OuterStep, Place, Fetching
  <2> QED BY <2>2, <2>3
<1>6. Claims(t)'
  <2>1. node' = node /\ Wanted(t)' = Wanted(t) /\ W(t) \in Busy
    BY BusyFacts DEF OuterStep, Wanted
  <2>2. CASE pc'[t] = "idle"
    <3>1. CASE pc[t] = "cleanup"
      <4>1. at'[t] = "raise" /\ at[t] = "failed"
        BY <1>3, <2>2, <3>1 DEF OuterStep, AfterCall, Place
      <4> QED BY <1>2, <4>1 DEF Claims
    <3>2. CASE pc[t] # "cleanup"
      <4>1. at[t] = "cached" /\ Holds(W(t), Wanted(t))
        BY <1>1, <2>2, <3>2 DEF OuterStep, Place, Claims, Fetching
      <4>2. Holds(W(t), Wanted(t))'
        BY <1>2, <2>1, <4>1
      <4>3. node[t] \in {"frames", "dump"} /\ at'[t] = IF node[t] = "frames" THEN "stat" ELSE "copy"
        BY <1>3, <2>2, <3>2, <4>1 DEF AfterCall, Place
      <4>4. CASE node[t] = "frames"
        <5>1. Stack \in DOMAIN files' \/ disturbed'[W(t)]
          BY <2>1, <4>2, <4>4 DEF Wanted, Holds, W
        <5> QED BY <4>3, <4>4, <5>1 DEF Claims, Holds, W
      <4>5. CASE node[t] = "dump"
        <5>1. Encoded \in DOMAIN files' \/ disturbed'[W(t)]
          BY <2>1, <4>2, <4>5 DEF Wanted, Holds, W
        <5> QED BY <4>3, <4>5, <5>1 DEF Claims, Holds, W
      <4> QED BY <4>3, <4>4, <4>5
    <3> QED BY <3>1, <3>2
  <2>3. CASE pc'[t] # "idle"
    <3>1. at'[t] = at[t] /\ at[t] = "cached" /\ key[t] = Wanted(t)
      BY <1>1, <1>3, <2>3 DEF OuterStep, Place, Fetching
    <3>2. pc'[t] \in {"touch", "touch_locked", "list", "evict"} => Holds(W(t), Wanted(t))'
      BY <1>1, <1>2, <2>1, <2>3, <3>1 DEF Claims, Holds, W
    <3> QED BY <3>1, <3>2 DEF Claims, W, Holds
  <2> QED BY <2>2, <2>3
<1> QED BY <1>4, <1>5, <1>6, InCalls

\* Where the download of the video goes on, and what its path is then.
LEMMA InnerStepKeeps ==
    ASSUME SiftInv, NEW t \in Outer, InnerStep(t)
    PROVE  SiftInv'
<1> DEFINE f == Inner[t]
<1> USE Known, FrameFacts
<1>1. Fields /\ f \in Threads /\ f # t /\ at[t] = "video" /\ node[t] = "frames" /\ key[f] = Video
  BY DEF InnerStep, Place
<1>2. /\ pc' \in [Threads -> Steps] /\ key' \in [Threads -> Keys \cup {NoKey}]
      /\ \A g \in Threads : g # f => pc'[g] = pc[g] /\ key'[g] = key[g]
      /\ pc'[f] # "idle" => key'[f] = key[f]
      /\ pc'[f] = "idle" => pc[f] \in {"touch", "touch_locked", "evict", "cleanup"}
      /\ pc'[f] # "cleanup"
      /\ pc'[f] \in {"touch", "touch_locked"} => key[f] \in DOMAIN files'
      /\ pc'[f] \in {"list", "evict"} => key[f] \in DOMAIN files' \/ pc[f] \in {"list", "evict"}
  <2>1. CASE CallStep(f)
    BY <1>1, <2>1, CallSteps
  <2>2. CASE FetchBegins(f) \/ FetchReturns(f)
    BY <1>1, <2>2, Downloads DEF Fields
  <2> QED BY <2>1, <2>2 DEF InnerStep
<1>3. /\ disturbed' \in [Workers -> BOOLEAN]
      /\ \A w \in Workers : disturbed[w] => disturbed'[w]
      /\ \A w \in Busy : \A k : Holds(w, k) => Holds(w, k)'
  BY MissingDisturbs DEF InnerStep
<1>4. /\ at' = [at EXCEPT ![t] = at'[t]]
      /\ at'[t] = IF pc'[f] = "idle" THEN (IF pc[f] = "cleanup" THEN "failed" ELSE "open") ELSE "video"
      /\ node' = node /\ verdict' = verdict /\ dumps' = dumps
  BY <1>1 DEF InnerStep, To, Fields
<1>5. CallsOn(t)
  <2>1. at' \in [Outer -> Places] /\ \A u \in Outer : u # t => at'[u] = at[u]
    BY <1>1, <1>4 DEF Fields, Places
  <2> QED BY <1>2, <1>3, <1>4, <2>1 DEF CallsOn
<1>6. pc'[t] = pc[t] /\ key'[t] = key[t] /\ pc[t] = "fetch" /\ key[t] = Wanted(t)
  BY <1>1, <1>2 DEF Place, Fetching
<1>7. Place(t)'
  BY <1>1, <1>2, <1>4, <1>6 DEF Place, Fetching, Wanted
<1>8. Claims(t)'
  <2>1. W(t) \in Busy
    BY <1>1, BusyFacts
  <2>2. CASE pc'[f] = "idle"
    <3>1. pc[f] = "cleanup" => disturbed'[W(t)]
      BY <1>1, <1>3 DEF Claims
    <3>2. pc[f] # "cleanup" => Holds(W(t), Video)'
      BY <1>1, <1>2, <1>3, <2>1, <2>2 DEF Claims
    <3> QED BY <1>4, <2>2, <3>1, <3>2 DEF Claims, W, Holds
  <2>3. CASE pc'[f] # "idle"
    <3>1. pc'[f] \in {"touch", "touch_locked", "list", "evict"} => Holds(W(t), Video)'
      BY <1>1, <1>2, <1>3, <2>1, <2>3 DEF Claims, Holds, W
    <3> QED BY <1>2, <1>4, <2>3, <3>1 DEF Claims, W, Holds
  <2> QED BY <2>2, <2>3
<1> QED BY <1>5, <1>7, <1>8, InCalls

LEMMA InnerFailsKeeps ==
    ASSUME SiftInv, NEW t \in Outer, InnerFails(t)
    PROVE  SiftInv'
<1> DEFINE f == Inner[t]
<1> USE Known, FrameFacts
<1>1. Fields /\ f \in Threads /\ f # t /\ at[t] = "video" /\ node[t] = "frames" /\ key[f] = Video
  BY DEF InnerFails, Place
<1>2. /\ pc' \in [Threads -> Steps] /\ key' = key /\ files' = files
      /\ \A g \in Threads : g # f => pc'[g] = pc[g]
      /\ pc'[f] = "cleanup"
  BY <1>1, Downloads DEF InnerFails
<1>3. /\ disturbed' \in [Workers -> BOOLEAN] /\ disturbed'[W(t)]
      /\ \A w \in Workers : disturbed[w] => disturbed'[w]
  BY <1>1, FaultDisturbs DEF InnerFails
<1>4. node' = node /\ at' = at /\ verdict' = verdict /\ dumps' = dumps
  BY DEF InnerFails
<1>5. CallsOn(t)
  <2>1. \A w \in Busy : \A k : Holds(w, k) => Holds(w, k)'
    BY <1>2, <1>3 DEF Holds, Busy
  <2> QED BY <1>1, <1>2, <1>3, <1>4, <2>1 DEF CallsOn, Fields
<1>6. Place(t)'
  BY <1>1, <1>2, <1>4 DEF Place, Fetching, Wanted
<1>7. Claims(t)'
  BY <1>1, <1>2, <1>3, <1>4 DEF Claims, W
<1> QED BY <1>5, <1>6, <1>7, InCalls

\* The frames, or the packets, are written, or the fetch raises.
LEMMA RenderKeeps ==
    ASSUME SiftInv, NEW t \in Outer, Render(t) \/ RenderFails(t) \/ FetchRaises(t)
    PROVE  SiftInv'
<1> USE Known, FrameFacts
<1>1. /\ pc' \in [Threads -> Steps] /\ key' = key /\ files' = files
      /\ \A g \in Threads : g # t => pc'[g] = pc[g]
      /\ node' = node /\ verdict' = verdict /\ dumps' = dumps
      /\ key[t] = Wanted(t)
  BY Downloads DEF Render, RenderFails, FetchRaises, frameVars, Place, Fetching
<1>2. ASSUME disturbed' \in [Workers -> BOOLEAN],
             \A w \in Workers : disturbed[w] => disturbed'[w],
             at' \in [Outer -> Places] /\ \A u \in Outer : u # t => at'[u] = at[u]
      PROVE  CallsOn(t)
  <2>1. \A w \in Busy : \A k : Holds(w, k) => Holds(w, k)'
    BY <1>1, <1>2 DEF Holds, Busy
  <2> QED BY <1>1, <1>2, <2>1 DEF CallsOn, Fields
<1>3. CASE Render(t)
  <2>1. /\ at[t] = "render" /\ pc'[t] \in {"write", "replace"}
        /\ at'[t] = IF pc'[t] = "replace" THEN "cached" ELSE "render"
        /\ disturbed' = disturbed
    BY <1>3, Downloads DEF Render, To, Fields
  <2>2. at' \in [Outer -> Places] /\ \A u \in Outer : u # t => at'[u] = at[u]
    BY <1>3 DEF Render, To, Fields, Places
  <2>3. CallsOn(t)
    BY <1>2, <2>1, <2>2 DEF Fields
  <2>4. Place(t)' /\ Claims(t)'
    BY <1>1, <2>1 DEF Place, Claims, Fetching, Wanted
  <2> QED BY <2>3, <2>4, InCalls
<1>4. CASE RenderFails(t)
  <2>1. at[t] = "render" /\ pc'[t] = "cleanup" /\ at' = [at EXCEPT ![t] = "failed"]
    BY <1>4, Downloads DEF RenderFails, To
  <2>2. /\ disturbed' \in [Workers -> BOOLEAN] /\ disturbed'[W(t)]
        /\ \A w \in Workers : disturbed[w] => disturbed'[w]
    BY <1>4, FaultDisturbs DEF RenderFails
  <2>3. CallsOn(t)
    BY <1>2, <2>1, <2>2 DEF Fields, Places
  <2>4. Place(t)' /\ Claims(t)'
    BY <1>1, <2>1, <2>2 DEF Place, Claims, Fetching, Wanted, Fields, W
  <2> QED BY <2>3, <2>4, InCalls
<1>5. CASE FetchRaises(t)
  <2>1. at[t] = "failed" /\ pc'[t] = "cleanup" /\ at' = at /\ disturbed' = disturbed
    BY <1>5, Downloads DEF FetchRaises, frameVars
  <2>2. CallsOn(t)
    BY <1>2, <2>1 DEF Fields
  <2>3. Place(t)' /\ Claims(t)'
    BY <1>1, <2>1 DEF Place, Claims, Fetching, Wanted, W
  <2> QED BY <2>2, <2>3, InCalls
<1> QED BY <1>3, <1>4, <1>5

-----------------------------------------------------------------------------
\* Process w dies with its batch, the only one under way, and its job begins
\* again: every thread is idle and nothing has been answered.
LEMMA CrashKeeps ==
    ASSUME SiftInv, NEW w \in Workers, CrashAndRetry(w)
    PROVE  SiftInv'
<1> USE Known, FrameFacts
<1>1. \A t \in Outer : at'[t] = "idle" /\ node'[t] = "none"
  <2> SUFFICES ASSUME NEW t \in Outer PROVE at'[t] = "idle" /\ node'[t] = "none"
    OBVIOUS
  <2>1. CASE W(t) = w
    BY <2>1 DEF CrashAndRetry
  <2>2. CASE W(t) # w
    <3>1. at[t] = "idle" /\ node[t] = "none"
      BY <2>2, BusyFacts DEF CrashAndRetry, Place
    <3> QED BY <2>2, <3>1 DEF CrashAndRetry
  <2> QED BY <2>1, <2>2
<1>2. \A v \in Workers : \A n \in Nodes : verdict'[v][n] = "none"
  BY DEF CrashAndRetry, Busy, SiftInv, FrameTypes
<1>3. FrameTypes'
  <2>1. pc' \in [Threads -> Steps] /\ key' \in [Threads -> Keys \cup {NoKey}]
    BY DEF CrashAndRetry, Crash, SiftInv, FrameTypes, Fields, Steps
  <2>2. at' \in [Outer -> Places] /\ node' \in [Outer -> Nodes \cup {"none"}]
    BY <1>1 DEF CrashAndRetry, Places
  <2>3. verdict' \in [Workers -> [Nodes -> {"none", "pass", "error"}]]
    BY DEF CrashAndRetry, SiftInv, FrameTypes
  <2>4. dumps' = dumps /\ disturbed' \in [Workers -> BOOLEAN]
    BY DEF CrashAndRetry, SiftInv, FrameTypes, Fields
  <2> QED BY <2>1, <2>2, <2>3, <2>4 DEF FrameTypes, Fields, SiftInv, Outer, Workers
<1>4. Unique'
  BY <1>1 DEF Unique, Outer
<1>5. \A t \in Outer : Place(t)' /\ Claims(t)' /\ Begun(t)'
  BY <1>1 DEF Place, Claims, Begun, Fetching
<1>6. \A v \in Workers : Recorded(v)'
  BY <1>2 DEF Recorded, Nodes
<1> QED BY <1>3, <1>4, <1>5, <1>6 DEF SiftInv, Outer, Workers

-----------------------------------------------------------------------------
LEMMA SiftInit == FrameInit => SiftInv
<1> SUFFICES ASSUME FrameInit PROVE SiftInv
  OBVIOUS
<1> USE FrameFacts DEF FrameInit, Init
<1>1. FrameTypes
  BY DEF FrameTypes, Fields, Steps, Places
<1>2. Unique
  BY DEF Unique
<1>3. \A t \in Outer : Place(t) /\ Claims(t) /\ Begun(t)
  BY DEF Place, Claims, Begun, Fetching
<1>4. \A w \in Workers : Recorded(w)
  BY DEF Recorded, Nodes
<1> QED BY <1>1, <1>2, <1>3, <1>4 DEF SiftInv

LEMMA SiftKept == SiftInv /\ [FrameNext]_allVars => SiftInv'
<1> SUFFICES ASSUME SiftInv, [FrameNext]_allVars PROVE SiftInv'
  OBVIOUS
<1>1. ASSUME NEW t \in Outer, SiftStep(t)
      PROVE  SiftInv'
  <2>1. CASE ReadHeader(t)
    BY <2>1, HeaderKeeps
  <2>2. CASE Materialize(t)
    BY <2>2, MaterializeKeeps
  <2>3. CASE OuterStep(t)
    BY <2>3, OuterStepKeeps
  <2>4. CASE FetchCalls(t)
    BY <2>4, FetchCallsKeeps
  <2>5. CASE InnerStep(t)
    BY <2>5, InnerStepKeeps
  <2>6. CASE Open(t)
    BY <2>6, OpenKeeps
  <2>7. CASE Render(t) \/ FetchRaises(t)
    BY <2>7, RenderKeeps
  <2>8. CASE Raises(t)
    BY <2>8, RaisesKeeps
  <2>9. CASE StatStack(t)
    BY <2>9, StatStackKeeps
  <2>10. CASE Hold(t)
    BY <2>10, HoldKeeps
  <2>11. CASE Decode(t)
    BY <2>11, DecodeKeeps
  <2>12. CASE DecodeFails(t)
    BY <2>12, DecodeFailsKeeps
  <2>13. CASE CopyBegins(t)
    BY <2>13, CopyBeginsKeeps
  <2>14. CASE Copied(t)
    BY <2>14, CopiedKeeps
  <2>15. CASE StatEncoded(t)
    BY <2>15, StatEncodedKeeps
  <2>16. CASE FreeStack(t)
    BY <2>16, FreeStackKeeps
  <2> QED BY <1>1, <2>1, <2>2, <2>3, <2>4, <2>5, <2>6, <2>7, <2>8, <2>9, <2>10, <2>11, <2>12,
             <2>13, <2>14, <2>15, <2>16 DEF SiftStep
<1>2. ASSUME NEW t \in Outer, Breaks(t)
      PROVE  SiftInv'
  BY <1>2, HeaderKeeps, InnerFailsKeeps, RenderKeeps, CopyFailsKeeps DEF Breaks
<1>3. ASSUME NEW t \in Outer, NEW n \in Nodes, Submit(t, n)
      PROVE  SiftInv'
  BY <1>3, SubmitKeeps
<1>4. ASSUME NEW w \in Workers, CrashAndRetry(w)
      PROVE  SiftInv'
  BY <1>4, CrashKeeps
<1>5. CASE UNCHANGED allVars
  BY <1>5 DEF allVars, vars, frameVars, SiftInv, FrameTypes, Fields, Unique, Place, Claims, Begun,
              Recorded, Fetching, Wanted, Holds, W, Outer, Workers
<1> QED BY <1>1, <1>2, <1>3, <1>4, <1>5 DEF FrameNext

\* frames.py 77-79, video.py 79-81: whatever the interleaving of the threads,
\* the evictions, the frees, the crashes and the retries, an error of a kernel
\* that shares frames has a cause outside of it.
THEOREM ErrorsAreCaused == FrameSpec => []ErrorsHaveACause
<1>1. SiftInv => ErrorsHaveACause
  BY DEF SiftInv, Recorded, ErrorsHaveACause
<1> QED BY <1>1, SiftInit, SiftKept, PTL DEF FrameSpec

\* video.py 87-103, _dump.py 108: a dump that passed is whole, also when an
\* attempt that died or failed had left a truncated file at its path.
THEOREM PassedDumpsAreWhole == FrameSpec => []PassedDumpIsWhole
<1>1. SiftInv => PassedDumpIsWhole
  BY DEF SiftInv, Recorded, PassedDumpIsWhole
<1> QED BY <1>1, SiftInit, SiftKept, PTL DEF FrameSpec
=============================================================================
