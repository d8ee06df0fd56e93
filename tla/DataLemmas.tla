----------------------------- MODULE DataLemmas -----------------------------
(***************************************************************************)
(* What the operators on dicts, unions and reports keep: where an artifact *)
(* or a verdict of a join comes from, what becomes of each of the inputs', *)
(* and that the cached status of a sample stays the worst of its checks;   *)
(* and facts about the first and the last position of a set.               *)
(***************************************************************************)
EXTENDS ArtifactUnion, Report, WellFoundedInduction, TLAPS

-----------------------------------------------------------------------------
(* Dicts *)

\* d.update(e) holds the keys of both.
LEMMA OverrideDomain ==
    ASSUME NEW d, NEW e
    PROVE  DOMAIN Override(d, e) = DOMAIN d \cup DOMAIN e
BY DEF Override

\* d.update(e): an entry of e wins, any other is d's.
LEMMA OverrideValue ==
    ASSUME NEW d, NEW e, NEW k \in DOMAIN d \cup DOMAIN e
    PROVE  Override(d, e)[k] = IF k \in DOMAIN e THEN e[k] ELSE d[k]
BY DEF Override

\* What is removed is gone, and nothing else is.
LEMMA WithoutDomain ==
    ASSUME NEW d, NEW K
    PROVE  DOMAIN Without(d, K) = DOMAIN d \ K
BY DEF Without, Restrict

LEMMA WithoutValue ==
    ASSUME NEW d, NEW K, NEW k \in DOMAIN d \ K
    PROVE  Without(d, K)[k] = d[k]
BY DEF Without, Restrict

LEMMA EmptyDomain == DOMAIN EmptyMap = {}
BY DEF EmptyMap

\* Updates and removals keep a dict in its type.
LEMMA OverrideIsMap ==
    ASSUME NEW d, NEW e, NEW K, NEW V, IsMap(d, K, V), IsMap(e, K, V)
    PROVE  IsMap(Override(d, e), K, V)
BY DEF Override, IsMap

LEMMA WithoutIsMap ==
    ASSUME NEW d, NEW D, NEW K, NEW V, IsMap(d, K, V)
    PROVE  IsMap(Without(d, D), K, V)
BY DEF Without, Restrict, IsMap

LEMMA EmptyIsMap == ASSUME NEW K, NEW V PROVE IsMap(EmptyMap, K, V)
BY DEF EmptyMap, IsMap

-----------------------------------------------------------------------------
(* Positions *)

\* A set of numbers has a least one.
LEMMA LeastPosition ==
    ASSUME NEW S, S \subseteq Nat, S # {}
    PROVE  \E i \in S : \A j \in S : i <= j
<1>1. PICK i \in S : \A j \in S : ~ (<<j, i>> \in OpToRel(<, Nat))
  BY NatLessThanWellFounded, WFMin
<1>2. \A j \in S : j < i => <<j, i>> \in OpToRel(<, Nat)
  BY DEF OpToRel
<1>3. \A j \in S : i \in Nat /\ j \in Nat /\ ~(j < i)
  BY <1>1, <1>2
<1>4. \A j \in S : i <= j
  BY <1>3
<1> QED BY <1>4

\* A set of numbers up to n has a greatest one.
LEMMA GreatestPosition ==
    ASSUME NEW n \in Nat, NEW S, S \subseteq 0 .. n, S # {}
    PROVE  \E i \in S : \A j \in S : j <= i
<1> DEFINE T == {n - i : i \in S}
<1>1. PICK m \in T : \A x \in T : m <= x
  <2>1. \A i \in S : i \in Nat /\ n - i \in Nat
    OBVIOUS
  <2>2. T \subseteq Nat
    BY <2>1
  <2>3. T # {}
    OBVIOUS
  <2> QED BY <2>2, <2>3, LeastPosition
<1>2. PICK i \in S : m = n - i
  BY <1>1
<1>3. \A j \in S : n - i <= n - j
  BY <1>1, <1>2
<1> QED BY <1>3

-----------------------------------------------------------------------------
(* Unions *)

\* union: an artifact of the other side wins, one of this side stays, unless
\* either side freed it.
LEMMA UnionDomain ==
    ASSUME NEW u, NEW v
    PROVE  /\ Union(u, v).deleted = u.deleted \cup v.deleted
           /\ DOMAIN Union(u, v).data
                = (DOMAIN u.data \cup DOMAIN v.data) \ (u.deleted \cup v.deleted)
           /\ \A k \in DOMAIN Union(u, v).data :
                 Union(u, v).data[k] = IF k \in DOMAIN v.data THEN v.data[k] ELSE u.data[k]
<1> DEFINE freed == u.deleted \cup v.deleted
           both == Override(u.data, v.data)
<1>1. Union(u, v) = [data |-> Without(both, freed), deleted |-> freed]
  BY DEF Union
<1>2. DOMAIN both = DOMAIN u.data \cup DOMAIN v.data
  BY DEF Override
<1>3. \A k \in DOMAIN both : both[k] = IF k \in DOMAIN v.data THEN v.data[k] ELSE u.data[k]
  BY DEF Override
<1> HIDE DEF both, freed
<1>4. DOMAIN Without(both, freed) = DOMAIN both \ freed
  BY WithoutDomain
<1>5. \A k \in DOMAIN both \ freed : Without(both, freed)[k] = both[k]
  BY WithoutValue
<1> QED BY <1>1, <1>2, <1>3, <1>4, <1>5 DEF freed

\* The keys a join frees are those its inputs freed.
LEMMA JoinAllDeleted ==
    ASSUME NEW us
    PROVE  /\ \A i \in DOMAIN us : us[i].deleted \subseteq JoinAll(us).deleted
           /\ \A k \in JoinAll(us).deleted : \E i \in DOMAIN us : k \in us[i].deleted
BY DEF JoinAll, FreedAt

\* Every artifact of a join is an input's, and nobody freed it.
LEMMA JoinAllOrigin ==
    ASSUME NEW us, NEW k \in DOMAIN JoinAll(us).data
    PROVE  /\ k \notin JoinAll(us).deleted
           /\ \E i \in DOMAIN us : k \in DOMAIN us[i].data
                                   /\ JoinAll(us).data[k] = us[i].data[k]
<1> DEFINE freed == FreedAt(us, DOMAIN us)
           keys == (UNION {DOMAIN us[i].data : i \in DOMAIN us}) \ freed
           at(x) == CHOOSE i \in DOMAIN us : x \in DOMAIN us[i].data
           d == [x \in keys |-> us[at(x)].data[x]]
<1>1. JoinAll(us) = [data |-> d, deleted |-> freed]
  BY DEF JoinAll
<1>2. k \in keys
  BY <1>1
<1>3. at(k) \in DOMAIN us /\ k \in DOMAIN us[at(k)].data
  BY <1>2
<1>4. d[k] = us[at(k)].data[k]
  BY <1>2
<1> HIDE DEF d, at
<1> QED BY <1>1, <1>2, <1>3, <1>4

\* What no input freed is in the join, and unless they conflict it is what
\* each of the inputs has.
LEMMA JoinAllKeeps ==
    ASSUME NEW us, DOMAIN us \subseteq Int, ~JoinConflict(us),
           NEW i \in DOMAIN us, NEW k \in DOMAIN us[i].data, k \notin JoinAll(us).deleted
    PROVE  k \in DOMAIN JoinAll(us).data /\ JoinAll(us).data[k] = us[i].data[k]
<1> DEFINE freed == FreedAt(us, DOMAIN us)
           keys == (UNION {DOMAIN us[j].data : j \in DOMAIN us}) \ freed
           at(x) == CHOOSE j \in DOMAIN us : x \in DOMAIN us[j].data
           d == [x \in keys |-> us[at(x)].data[x]]
<1>1. JoinAll(us) = [data |-> d, deleted |-> freed]
  BY DEF JoinAll
<1>2. k \in keys
  BY <1>1
<1> HIDE DEF d
<1>3. k \in DOMAIN JoinAll(us).data
  BY <1>1, <1>2 DEF d
<1>4. PICK j \in DOMAIN us : k \in DOMAIN us[j].data /\ JoinAll(us).data[k] = us[j].data[k]
  BY <1>3, JoinAllOrigin
<1>5. \A l \in Int : k \notin FreedAt(us, 1 .. l - 1)
  BY <1>2 DEF FreedAt
<1>6. us[i].data[k] = us[j].data[k]
  <2>1. CASE i < j
    BY <1>4, <1>5, <2>1 DEF JoinConflict
  <2>2. CASE j < i
    BY <1>4, <1>5, <2>2 DEF JoinConflict
  <2>3. i \in Int /\ j \in Int
    OBVIOUS
  <2> QED BY <2>1, <2>2, <2>3
<1> QED BY <1>3, <1>4, <1>6

\* without_transients: everything but the Batch stays.
LEMMA WithoutTransientsKeeps ==
    ASSUME NEW u, u = [data |-> u.data, deleted |-> u.deleted]
    PROVE  /\ WithoutTransients(u).deleted = u.deleted
           /\ DOMAIN WithoutTransients(u).data = DOMAIN u.data \ BatchKeys(u)
           /\ \A k \in DOMAIN WithoutTransients(u).data :
                 WithoutTransients(u).data[k] = u.data[k]
<1> DEFINE d == Without(u.data, BatchKeys(u))
<1>1. WithoutTransients(u) = [data |-> d, deleted |-> u.deleted]
  BY DEF WithoutTransients
<1>2. DOMAIN d = DOMAIN u.data \ BatchKeys(u)
  BY WithoutDomain
<1>3. \A k \in DOMAIN d : d[k] = u.data[k]
  BY <1>2, WithoutValue
<1> HIDE DEF d
<1> QED BY <1>1, <1>2, <1>3

-----------------------------------------------------------------------------
(* Reports *)

\* worst: a status, and an error wins over everything.
LEMMA WorstFacts ==
    ASSUME NEW S \in SUBSET Statuses
    PROVE  Worst(S) \in Statuses /\ (Worst(S) = "error" <=> "error" \in S)
<1> DEFINE T == S \cup {"pass"}
           IsWorst(s) == \A t \in T : Rank[t] <= Rank[s]
<1>1. /\ Rank["pass"] = 0 /\ Rank["warn"] = 1 /\ Rank["fail"] = 2 /\ Rank["error"] = 3
  BY DEF Rank, Statuses
<1>2. \A t \in T : t \in {"pass", "warn", "fail", "error"}
  BY DEF Statuses
<1>3. \E s \in T : IsWorst(s)
  <2>1. CASE "error" \in T
    BY <2>1, <1>1, <1>2
  <2>2. CASE "error" \notin T /\ "fail" \in T
    BY <2>2, <1>1, <1>2
  <2>3. CASE "error" \notin T /\ "fail" \notin T /\ "warn" \in T
    BY <2>3, <1>1, <1>2
  <2>4. CASE "error" \notin T /\ "fail" \notin T /\ "warn" \notin T
    BY <2>4, <1>1, <1>2
  <2> QED BY <2>1, <2>2, <2>3, <2>4
<1>4. Worst(S) \in T /\ IsWorst(Worst(S))
  BY <1>3 DEF Worst
<1>5. Worst(S) \in Statuses
  BY <1>4 DEF Statuses
<1> QED BY <1>1, <1>2, <1>4, <1>5

\* is_alive of a fresh report: nobody gave the sample an error.
LEMMA DeadIsCondemned ==
    ASSUME NEW r, Fresh(r), \A k \in DOMAIN r.check : r.check[k] \in Statuses, NEW s
    PROVE  ~IsAlive(r, s) <=> \E k \in DOMAIN r.check : k[1] = s /\ r.check[k] = "error"
<1>1. ChecksOf(r.check, s) \in SUBSET Statuses
  BY DEF ChecksOf
<1>2. (\E k \in DOMAIN r.check : k[1] = s /\ r.check[k] = "error")
        <=> s \in SamplesOf(r.check) /\ "error" \in ChecksOf(r.check, s)
  BY DEF SamplesOf, ChecksOf
<1>3. DOMAIN r.status = SamplesOf(r.check)
  BY DEF Fresh
<1>4. s \in SamplesOf(r.check) => r.status[s] = Worst(ChecksOf(r.check, s))
  BY DEF Fresh
<1> QED BY <1>1, <1>2, <1>3, <1>4, WorstFacts DEF IsAlive

LEMMA EmptyIsFresh == Fresh(EmptyReport) /\ DOMAIN EmptyReport.check = {}
<1>1. DOMAIN EmptyReport.check = {}
  BY EmptyDomain DEF EmptyReport
<1>2. SamplesOf(EmptyReport.check) = {}
  BY <1>1 DEF SamplesOf
<1> QED BY <1>1, <1>2 DEF Fresh, EmptyReport, EmptyMap

\* The checks of a fragment, under their node's name.
LEMMA NamespacedDomain ==
    ASSUME NEW n, NEW ext
    PROVE  /\ DOMAIN Namespaced(n, ext) = {<<k[1], n, k[2]>> : k \in DOMAIN ext.checks}
           /\ \A k \in DOMAIN Namespaced(n, ext) :
                 k[2] = n /\ Namespaced(n, ext)[k] = ext.checks[<<k[1], k[3]>>]
BY DEF Namespaced

\* apply: they are in the report, beside everything else that was there.
LEMMA ApplyCheck ==
    ASSUME NEW r, NEW n, NEW ext, NEW q, q = Apply(r, n, ext)
    PROVE  /\ DOMAIN q.check = DOMAIN r.check \cup DOMAIN Namespaced(n, ext)
           /\ \A k \in DOMAIN q.check :
                 q.check[k] = IF k \in DOMAIN Namespaced(n, ext)
                              THEN Namespaced(n, ext)[k] ELSE r.check[k]
<1>1. q.check = Override(r.check, Namespaced(n, ext))
  BY DEF Apply
<1> QED BY <1>1 DEF Override

\* apply re-aggregates every sample it touches.
LEMMA ApplyIsFresh ==
    ASSUME NEW r, Fresh(r), NEW n, NEW ext
    PROVE  Fresh(Apply(r, n, ext))
<1> DEFINE check == Override(r.check, Namespaced(n, ext))
           agg == [s \in Judged(ext) |-> Worst(ChecksOf(check, s))]
           new == Apply(r, n, ext)
           W(s) == Worst(ChecksOf(check, s))
<1>1. new.check = check /\ new.status = Override(r.status, agg)
  BY DEF Apply
<1>2. DOMAIN check = DOMAIN r.check \cup DOMAIN Namespaced(n, ext)
  BY OverrideDomain
<1>3. /\ \A k \in DOMAIN Namespaced(n, ext) : k[1] \in Judged(ext)
      /\ \A s \in Judged(ext) : \E k \in DOMAIN Namespaced(n, ext) : k[1] = s
  <2>1. DOMAIN Namespaced(n, ext) = {<<k[1], n, k[2]>> : k \in DOMAIN ext.checks}
    BY DEF Namespaced
  <2>2. \A j \in DOMAIN ext.checks : <<j[1], n, j[2]>>[1] = j[1]
    OBVIOUS
  <2> QED BY <2>1, <2>2 DEF Judged
<1>4. SamplesOf(check) = SamplesOf(r.check) \cup Judged(ext)
  BY <1>2, <1>3 DEF SamplesOf
<1>5. ASSUME NEW s \in SamplesOf(r.check), s \notin Judged(ext)
      PROVE  r.status[s] = W(s)
  <2>1. \A k \in DOMAIN check : k[1] = s => k \in DOMAIN r.check /\ check[k] = r.check[k]
    BY <1>2, <1>3, <1>5, OverrideValue
  <2>2. \A k \in DOMAIN r.check : k \in DOMAIN check
    BY <1>2
  <2> HIDE DEF check
  <2>3. ChecksOf(check, s) = ChecksOf(r.check, s)
    BY <2>1, <2>2 DEF ChecksOf
  <2> QED BY <2>3 DEF Fresh
<1>6. DOMAIN r.status = SamplesOf(r.check)
  BY DEF Fresh
<1> HIDE DEF check, W
<1>7. Override(r.status, agg)
        = [s \in SamplesOf(check) |-> IF s \in Judged(ext) THEN W(s) ELSE r.status[s]]
  BY <1>4, <1>6 DEF Override, W
<1>8. \A s \in SamplesOf(check) : (IF s \in Judged(ext) THEN W(s) ELSE r.status[s]) = W(s)
  BY <1>4, <1>5
<1>9. Override(r.status, agg) = [s \in SamplesOf(check) |-> W(s)]
  BY <1>7, <1>8
<1> QED BY <1>1, <1>9 DEF Fresh, W

\* merge: the checks of both, and of a check both have the other's.
LEMMA MergeIsFresh ==
    ASSUME NEW r, Fresh(r), NEW o, Fresh(o)
    PROVE  Fresh(Merge(r, o))
<1> DEFINE check == Override(r.check, o.check)
           R == SamplesOf(r.check)
           O == SamplesOf(o.check)
           W(s) == Worst(ChecksOf(check, s))
           merged(s) == IF s \in O \ R THEN o.status[s]
                        ELSE IF s \in O THEN W(s) ELSE r.status[s]
<1>1. DOMAIN r.status = R /\ DOMAIN o.status = O
  BY DEF Fresh
<1>2. Merge(r, o).check = check /\ Merge(r, o).status = [s \in R \cup O |-> merged(s)]
  BY <1>1 DEF Merge
<1>3. DOMAIN check = DOMAIN r.check \cup DOMAIN o.check
  BY OverrideDomain
<1>4. SamplesOf(check) = R \cup O
  BY <1>3 DEF SamplesOf
<1>5. ASSUME NEW s \in O \ R PROVE o.status[s] = W(s)
  <2>1. \A k \in DOMAIN check : k[1] = s => k \in DOMAIN o.check /\ check[k] = o.check[k]
    BY <1>3, <1>5, OverrideValue DEF SamplesOf
  <2>2. \A k \in DOMAIN o.check : k \in DOMAIN check
    BY <1>3
  <2> HIDE DEF check
  <2>3. ChecksOf(check, s) = ChecksOf(o.check, s)
    BY <2>1, <2>2 DEF ChecksOf
  <2> QED BY <2>3 DEF Fresh
<1>6. ASSUME NEW s \in R \ O PROVE r.status[s] = W(s)
  <2>1. \A k \in DOMAIN check : k[1] = s => k \in DOMAIN r.check /\ check[k] = r.check[k]
    BY <1>3, <1>6, OverrideValue DEF SamplesOf
  <2>2. \A k \in DOMAIN r.check : k \in DOMAIN check
    BY <1>3
  <2> HIDE DEF check
  <2>3. ChecksOf(check, s) = ChecksOf(r.check, s)
    BY <2>1, <2>2 DEF ChecksOf
  <2> QED BY <2>3 DEF Fresh
<1> HIDE DEF check, W, R, O
<1>7. \A s \in R \cup O : merged(s) = W(s)
  BY <1>5, <1>6
<1>8. [s \in R \cup O |-> merged(s)] = [s \in R \cup O |-> W(s)]
  BY <1>7
<1> QED BY <1>2, <1>4, <1>8 DEF Fresh, W

\* The checks of the join of reports at positions up to N: each is the one of
\* the last report that has it.
LEMMA MergeAllCheck ==
    ASSUME NEW N \in Nat, NEW rs, DOMAIN rs \subseteq 0 .. N
    PROVE  /\ DOMAIN MergeAll(rs).check = UNION {DOMAIN rs[i].check : i \in DOMAIN rs}
           /\ \A k \in DOMAIN MergeAll(rs).check : \E i \in DOMAIN rs :
                 /\ k \in DOMAIN rs[i].check
                 /\ MergeAll(rs).check[k] = rs[i].check[k]
                 /\ \A j \in DOMAIN rs : k \in DOMAIN rs[j].check => j <= i
<1> DEFINE keys == UNION {DOMAIN rs[i].check : i \in DOMAIN rs}
           last(k) == LastWith(rs, LAMBDA r : k \in DOMAIN r.check)
           check == [k \in keys |-> rs[last(k)].check[k]]
<1>1. MergeAll(rs).check = check
  BY DEF MergeAll
<1>2. ASSUME NEW k \in keys
      PROVE  /\ last(k) \in DOMAIN rs /\ k \in DOMAIN rs[last(k)].check
             /\ \A j \in DOMAIN rs : k \in DOMAIN rs[j].check => j <= last(k)
  <2> DEFINE holders == {i \in DOMAIN rs : k \in DOMAIN rs[i].check}
  <2>1. PICK i \in holders : \A j \in holders : j <= i
    <3>1. holders \subseteq 0 .. N /\ holders # {}
      OBVIOUS
    <3> HIDE DEF holders
    <3> QED BY <3>1, GreatestPosition
  <2> QED BY <2>1 DEF LastWith
<1>3. \A k \in keys : check[k] = rs[last(k)].check[k]
  OBVIOUS
<1>4. DOMAIN check = keys
  OBVIOUS
<1> HIDE DEF last, check
<1> QED BY <1>1, <1>2, <1>3, <1>4

\* The join of fresh reports is fresh: a status that is copied is that of the
\* only report which knows the sample.
LEMMA MergeAllIsFresh ==
    ASSUME NEW N \in Nat, NEW rs, DOMAIN rs \subseteq 0 .. N, \A i \in DOMAIN rs : Fresh(rs[i])
    PROVE  Fresh(MergeAll(rs))
<1> DEFINE check == MergeAll(rs).check
           W(s) == Worst(ChecksOf(check, s))
           with(s) == {i \in DOMAIN rs : s \in DOMAIN rs[i].status}
           samples == UNION {DOMAIN rs[i].status : i \in DOMAIN rs}
<1>1. MergeAll(rs).status = [s \in samples |-> MergedStatus(rs, check, s)]
  BY DEF MergeAll
<1>2. \A i \in DOMAIN rs : DOMAIN rs[i].status = SamplesOf(rs[i].check)
  BY DEF Fresh
<1> HIDE DEF check
<1>3. samples = SamplesOf(check)
  <2>1. DOMAIN check = UNION {DOMAIN rs[i].check : i \in DOMAIN rs}
    BY MergeAllCheck DEF check
  <2>2. \A s \in samples : s \in SamplesOf(check)
    BY <1>2, <2>1 DEF SamplesOf
  <2>3. \A s \in SamplesOf(check) : s \in samples
    BY <1>2, <2>1 DEF SamplesOf
  <2> QED BY <2>2, <2>3
<1>4. ASSUME NEW s \in samples, NEW i \in with(s), with(s) = {i}
      PROVE  rs[i].status[s] = W(s)
  <2>1. \A k \in DOMAIN check : k[1] = s =>
           k \in DOMAIN rs[i].check /\ check[k] = rs[i].check[k]
    <3> TAKE k \in DOMAIN check
    <3> HAVE k[1] = s
    <3>1. PICK j \in DOMAIN rs : k \in DOMAIN rs[j].check /\ check[k] = rs[j].check[k]
      BY MergeAllCheck DEF check
    <3>2. j \in with(s)
      BY <1>2, <3>1 DEF SamplesOf
    <3> QED BY <1>4, <3>1, <3>2
  <2>2. \A k \in DOMAIN rs[i].check : k \in DOMAIN check
    BY MergeAllCheck DEF check
  <2>3. ChecksOf(check, s) = ChecksOf(rs[i].check, s)
    BY <2>1, <2>2 DEF ChecksOf
  <2>4. Fresh(rs[i]) /\ s \in DOMAIN rs[i].status
    OBVIOUS
  <2>5. rs[i].status[s] = Worst(ChecksOf(rs[i].check, s))
    BY <2>4 DEF Fresh
  <2> QED BY <2>3, <2>5
<1>5. ASSUME NEW s \in samples PROVE MergedStatus(rs, check, s) = W(s)
  <2>1. CASE \E i \in with(s) : with(s) = {i}
    <3>1. (CHOOSE i \in with(s) : TRUE) \in with(s)
      BY <2>1
    <3>2. MergedStatus(rs, check, s) = rs[CHOOSE i \in with(s) : TRUE].status[s]
      BY <2>1 DEF MergedStatus
    <3>3. with(s) = {CHOOSE i \in with(s) : TRUE}
      BY <2>1, <3>1
    <3> HIDE DEF with, W
    <3> QED BY <1>4, <3>1, <3>2, <3>3
  <2>2. CASE ~(\E i \in with(s) : with(s) = {i})
    BY <2>2 DEF MergedStatus
  <2> QED BY <2>1, <2>2
<1> HIDE DEF W, samples
<1>6. [s \in samples |-> MergedStatus(rs, check, s)] = [s \in samples |-> W(s)]
  BY <1>5
<1> QED BY <1>1, <1>3, <1>6 DEF Fresh, W, check
=============================================================================
