----------------------------- MODULE DiskCache -----------------------------
(***************************************************************************)
(* The worker-global disk cache of cache.py: one directory, shared by the  *)
(* threads of every worker process that was given the same root.  A call   *)
(* of materialize is a sequence of steps, each one system call or lock     *)
(* operation, so that calls of other threads and other processes run in    *)
(* between.  Locks are per process and per key; the directory is what the  *)
(* processes share.                                                        *)
(*                                                                         *)
(* A download is atomic in no sense but the last: it writes a part file,   *)
(* which only os.replace turns into an entry.  mtime, the LRU clock, is    *)
(* the value of a counter that every download and every touch advances.    *)
(***************************************************************************)
EXTENDS Integers, FiniteSetsExt, Maps

CONSTANTS
    Threads,
    Keys,         \* the cache keys of the URIs asked for
    Worker,       \* Worker[t]: the process thread t belongs to
    Size,         \* Size[k]: the bytes of the object behind key k
    Capacity,     \* capacity_bytes
    MaxCalls,     \* bound: calls of materialize and forget
    MaxCrashes,   \* bound: processes that die
    NoKey         \* the key of a thread that is in no call

ASSUME CacheAssumption ==
    /\ Size \in [Keys -> Nat] /\ Capacity \in Nat
    /\ Worker \in [Threads -> Range(Worker)]
    /\ MaxCalls \in Nat /\ MaxCrashes \in Nat
    /\ NoKey \notin Keys

VARIABLES
    files,      \* the entries of the directory: key -> [mtime, whole, by]
    parts,      \* the part files of running downloads: thread -> [mtime, whole]
    pc,         \* where each thread is in materialize
    key,        \* the key it asked for
    locked,     \* the locks held: pairs <<process, key>>
    unseen,     \* evict: what iterdir listed and stat has not looked at
    entries,    \* evict: what stat saw, as [mtime, key]
    total,      \* evict: total - freed
    clock,
    calls,
    crashes

vars == <<files, parts, pc, key, locked, unseen, entries, total, clock, calls, crashes>>

evictVars == <<unseen, entries, total>>
counters  == <<clock, calls, crashes>>

Steps == {"idle", "probe", "touch", "lock", "recheck", "touch_locked",
          "fetch", "write", "replace", "cleanup", "list", "evict"}

Init ==
    /\ files = EmptyMap
    /\ parts = EmptyMap
    /\ pc = [t \in Threads |-> "idle"]
    /\ key = [t \in Threads |-> NoKey]
    /\ locked = {}
    /\ unseen = [t \in Threads |-> {}]
    /\ entries = [t \in Threads |-> {}]
    /\ total = [t \in Threads |-> 0]
    /\ clock = 0 /\ calls = 0 /\ crashes = 0

-----------------------------------------------------------------------------
(* materialize *)

Goto(t, step) == /\ pc' = [pc EXCEPT ![t] = step]
                 /\ UNCHANGED key

\* The call returns or raises.
Leave(t) == /\ pc' = [pc EXCEPT ![t] = "idle"]
            /\ key' = [key EXCEPT ![t] = NoKey]

Cached(t) == key[t] \in DOMAIN files

Lock(t) == <<Worker[t], key[t]>>

\* A kernel asks for the path of k.
Call(t, k) ==
    /\ pc[t] = "idle" /\ calls < MaxCalls
    /\ pc' = [pc EXCEPT ![t] = "probe"]
    /\ key' = [key EXCEPT ![t] = k]
    /\ calls' = calls + 1
    /\ UNCHANGED <<files, parts, locked, evictVars, clock, crashes>>

\* path.exists(), without the lock.
Probe(t) ==
    /\ pc[t] = "probe"
    /\ Goto(t, IF Cached(t) THEN "touch" ELSE "lock")
    /\ UNCHANGED <<files, parts, locked, evictVars, counters>>

Acquire(t) ==
    /\ pc[t] = "lock" /\ Lock(t) \notin locked
    /\ locked' = locked \cup {Lock(t)}
    /\ Goto(t, "recheck")
    /\ UNCHANGED <<files, parts, evictVars, counters>>

NoRecheck(t) == "fetch"    \* bug: the lock's winner is not looked for

\* path.exists() again: another thread may have won the race.
AfterRecheck(t) == IF Cached(t) THEN "touch_locked" ELSE "fetch"

Recheck(t) ==
    /\ pc[t] = "recheck"
    /\ Goto(t, AfterRecheck(t))
    /\ UNCHANGED <<files, parts, locked, evictVars, counters>>

\* _touch, which forgives an entry that has gone; then the path is returned.
Touch(t) ==
    /\ pc[t] \in {"touch", "touch_locked"}
    /\ IF Cached(t)
       THEN /\ files' = [files EXCEPT ![key[t]].mtime = clock + 1]
            /\ clock' = clock + 1
       ELSE UNCHANGED <<files, clock>>
    /\ locked' = IF pc[t] = "touch_locked" THEN locked \ {Lock(t)} ELSE locked
    /\ Leave(t)
    /\ UNCHANGED <<parts, evictVars, calls, crashes>>

\* fetch(part) creates the part file ...
FetchBegins(t) ==
    /\ pc[t] = "fetch"
    /\ parts' = Override(parts, [u \in {t} |-> [mtime |-> clock, whole |-> FALSE]])
    /\ Goto(t, "write")
    /\ UNCHANGED <<files, locked, evictVars, counters>>

\* ... and returns once the whole object is in it.
FetchReturns(t) ==
    /\ pc[t] = "write"
    /\ parts' = [parts EXCEPT ![t] = [mtime |-> clock + 1, whole |-> TRUE]]
    /\ clock' = clock + 1
    /\ Goto(t, "replace")
    /\ UNCHANGED <<files, locked, evictVars, calls, crashes>>

FailsIntoPlace(t) ==    \* bug: the rename is in the finally
    /\ pc[t] = "write"
    /\ Goto(t, "replace")
    /\ UNCHANGED <<files, parts, locked, evictVars, counters>>

\* The fetch raises, before it wrote anything or in the middle, or the rename
\* does.
Fails(t) ==
    /\ pc[t] \in {"fetch", "write", "replace"}
    /\ Goto(t, "cleanup")
    /\ UNCHANGED <<files, parts, locked, evictVars, counters>>

ReplacesUnevicted(t) ==    \* bug: evict does not follow the insertion
    /\ pc[t] = "replace"
    /\ files' = Override(files, [k \in {key[t]} |->
                   [mtime |-> parts[t].mtime, whole |-> parts[t].whole, by |-> Worker[t]]])
    /\ parts' = Without(parts, {t})
    /\ locked' = locked \ {Lock(t)}
    /\ Leave(t)
    /\ UNCHANGED <<evictVars, counters>>

\* os.replace, and the lock is released.
Replace(t) ==
    /\ pc[t] = "replace"
    /\ files' = Override(files, [k \in {key[t]} |->
                   [mtime |-> parts[t].mtime, whole |-> parts[t].whole, by |-> Worker[t]]])
    /\ parts' = Without(parts, {t})
    /\ locked' = locked \ {Lock(t)}
    /\ Goto(t, "list")
    /\ UNCHANGED <<evictVars, counters>>

LeavesPart(t) ==    \* bug: the part file of a failed download stays
    /\ pc[t] = "cleanup"
    /\ locked' = locked \ {Lock(t)}
    /\ Leave(t)
    /\ UNCHANGED <<files, parts, evictVars, counters>>

\* finally: the part goes, and so does the lock; the exception leaves the call.
Cleanup(t) ==
    /\ pc[t] = "cleanup"
    /\ parts' = Without(parts, {t})
    /\ locked' = locked \ {Lock(t)}
    /\ Leave(t)
    /\ UNCHANGED <<files, evictVars, counters>>

-----------------------------------------------------------------------------
(* evict, which runs after every insertion and without a lock *)

\* The names iterdir lists and the loop does not skip: no part file.
Listed == DOMAIN files

List(t) ==
    /\ pc[t] = "list"
    /\ unseen' = [unseen EXCEPT ![t] = Listed]
    /\ Goto(t, "evict")
    /\ UNCHANGED <<files, parts, locked, entries, total, counters>>

\* stat of one listed entry; one that has gone is skipped.
Stat(t) ==
    /\ pc[t] = "evict"
    /\ \E k \in unseen[t] :
         /\ unseen' = [unseen EXCEPT ![t] = @ \ {k}]
         /\ IF k \in DOMAIN files
            THEN /\ entries' = [entries EXCEPT ![t] =
                                  @ \cup {[mtime |-> files[k].mtime, key |-> k]}]
                 /\ total' = [total EXCEPT ![t] = @ + Size[k]]
            ELSE UNCHANGED <<entries, total>>
    /\ UNCHANGED <<files, parts, pc, key, locked, counters>>

\* The loop is left: under capacity, or nothing is left to drop.
UnderCapacity(t) == total[t] <= Capacity \/ entries[t] = {}

Oldest(t) == CHOOSE e \in entries[t] : \A f \in entries[t] : e.mtime <= f.mtime

\* unlink of the least recently used entry left.  One that has gone frees
\* nothing; one that was written again since stat goes all the same.
Drop(t) ==
    /\ pc[t] = "evict" /\ unseen[t] = {} /\ ~UnderCapacity(t)
    /\ LET k == Oldest(t).key
       IN  /\ files' = Without(files, {k})
           /\ total' = [total EXCEPT ![t] =
                          IF k \in DOMAIN files THEN @ - Size[k] ELSE @]
    /\ entries' = [entries EXCEPT ![t] = @ \ {Oldest(t)}]
    /\ UNCHANGED <<parts, pc, key, locked, unseen, counters>>

\* evict returns, and so does materialize.
Evicted(t) ==
    /\ pc[t] = "evict" /\ unseen[t] = {} /\ UnderCapacity(t)
    /\ entries' = [entries EXCEPT ![t] = {}]
    /\ total' = [total EXCEPT ![t] = 0]
    /\ Leave(t)
    /\ UNCHANGED <<files, parts, locked, unseen, counters>>

-----------------------------------------------------------------------------
\* forget(k), by an archiver that frees an artifact; where there is no entry
\* it does nothing.
Forget(t, k) ==
    /\ pc[t] = "idle" /\ calls < MaxCalls
    /\ k \in DOMAIN files
    /\ files' = Without(files, {k})
    /\ calls' = calls + 1
    /\ UNCHANGED <<parts, pc, key, locked, evictVars, clock, crashes>>

\* Process w dies and is started again.  Its locks die with it; the part
\* files it leaves carry a pid no process has, so no step ever meets them.
Crash(w) ==
    /\ crashes < MaxCrashes
    /\ LET dead == {t \in Threads : Worker[t] = w}
       IN  /\ pc' = [t \in Threads |-> IF t \in dead THEN "idle" ELSE pc[t]]
           /\ key' = [t \in Threads |-> IF t \in dead THEN NoKey ELSE key[t]]
           /\ parts' = Without(parts, dead)
           /\ locked' = {l \in locked : l[1] # w}
           /\ unseen' = [t \in Threads |-> IF t \in dead THEN {} ELSE unseen[t]]
           /\ entries' = [t \in Threads |-> IF t \in dead THEN {} ELSE entries[t]]
           /\ total' = [t \in Threads |-> IF t \in dead THEN 0 ELSE total[t]]
    /\ crashes' = crashes + 1
    /\ UNCHANGED <<files, clock, calls>>

\* A step of a call that is under way.
Step(t) ==
    \/ Probe(t) \/ Acquire(t) \/ Recheck(t) \/ Touch(t)
    \/ FetchBegins(t) \/ FetchReturns(t) \/ Fails(t) \/ Replace(t) \/ Cleanup(t)
    \/ List(t) \/ Stat(t) \/ Drop(t) \/ Evicted(t)

Next == \/ \E t \in Threads : Step(t) \/ \E k \in Keys : Call(t, k) \/ Forget(t, k)
        \/ \E w \in Range(Worker) : Crash(w)

\* A thread that can run does; a fetch returns or raises.
Fairness == \A t \in Threads : WF_vars(Step(t))

Spec == Init /\ [][Next]_vars /\ Fairness

-----------------------------------------------------------------------------
Downloading(t) == pc[t] \in {"fetch", "write", "replace"}

TypeOK ==
    /\ IsMap(files, Keys, [mtime : 0 .. clock, whole : BOOLEAN, by : Range(Worker)])
    /\ IsMap(parts, Threads, [mtime : 0 .. clock, whole : BOOLEAN])
    /\ pc \in [Threads -> Steps]
    /\ key \in [Threads -> Keys \cup {NoKey}]
    /\ locked \subseteq Range(Worker) \X Keys
    /\ unseen \in [Threads -> SUBSET Keys]
    /\ \A t \in Threads : entries[t] \subseteq [mtime : 0 .. clock, key : Keys]
    /\ total \in [Threads -> Nat]
    /\ clock \in Nat /\ calls \in 0 .. MaxCalls /\ crashes \in 0 .. MaxCrashes

\* cache.py 63-66, "a crashed or concurrent worker can never expose a
\* truncated file": every entry is a whole object.
NoTruncatedFile == \A k \in DOMAIN files : files[k].whole

\* cache.py 8-9 and lazyraw-cache.md, "N threads asking for the same video
\* download it once": two threads of one process never download one key at
\* the same time, and no thread downloads what its process has put there.
DownloadOnce ==
    \A t \in Threads : Downloading(t) =>
        /\ Cached(t) => files[key[t]].by # Worker[t]
        /\ \A u \in Threads \ {t} : Downloading(u) => Lock(u) # Lock(t)

\* cache.py 80-82: a part file belongs to a thread that is downloading or
\* cleaning up; a call that has ended, well or not, leaves none.
PartsAreCleaned ==
    \A t \in DOMAIN parts : pc[t] \in {"write", "replace", "cleanup"}

\* cache.py 87, "until under capacity": whatever insertions, evictions and
\* frees ran side by side, once the last insertion has been followed by its
\* eviction the directory is within its capacity.
SettlesUnderCapacity ==
    crashes = 0 /\ (\A t \in Threads : pc[t] \notin {"list", "evict"})
        => MapThenSumSet(LAMBDA k : Size[k], DOMAIN files) <= Capacity

\* cache.py 72-82: no call waits for a lock forever; each returns or raises.
EveryCallReturns ==
    \A t \in Threads : pc[t] # "idle" ~> pc[t] = "idle"

-----------------------------------------------------------------------------
\* Thread t's call returns a path, in this step.
Returns(t) == /\ pc[t] \in {"touch", "touch_locked", "evict"}
              /\ pc'[t] = "idle" /\ crashes' = crashes

\* cache.py 61, "Return a local path holding uri": at the step in which
\* materialize returns, the path exists.
ReturnedPathHolds ==
    [][\A t \in Threads : Returns(t) => key[t] \in DOMAIN files']_vars
=============================================================================
