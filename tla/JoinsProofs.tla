---------------------------- MODULE JoinsProofs ----------------------------
(***************************************************************************)
(* The loops of _union_of and _report_of compute the closed forms the      *)
(* executor's model uses, for any number of results: one turn of the loop  *)
(* takes the closed form of what it has folded to that of one result more. *)
(***************************************************************************)
EXTENDS Joins, DataLemmas

\* Every union of us but the last.
FrontOf(us, m) == [i \in 1 .. m |-> us[i]]

-----------------------------------------------------------------------------
(* One turn of the loop: unions *)

\* The turn raises exactly where the closed form of the conflict does.
LEMMA ConflictGrows ==
    ASSUME NEW m \in Nat, NEW us, DOMAIN us = 1 .. m + 1, ~JoinConflict(FrontOf(us, m))
    PROVE  JoinConflict(us) <=> UnionConflict(JoinAll(FrontOf(us, m)), us[m + 1])
<1> DEFINE ws == FrontOf(us, m)
           v == us[m + 1]
<1>1. DOMAIN ws = 1 .. m /\ \A i \in 1 .. m : ws[i] = us[i]
  BY DEF FrontOf
<1>2. \A l \in 1 .. m + 1 : FreedAt(us, 1 .. l - 1) = FreedAt(ws, 1 .. l - 1)
  <2>1. \A l \in 1 .. m + 1 : DOMAIN us \cap (1 .. l - 1) = DOMAIN ws \cap (1 .. l - 1)
    BY <1>1
  <2> HIDE DEF ws
  <2> QED BY <1>1, <2>1 DEF FreedAt
<1>3. JoinAll(ws).deleted = FreedAt(ws, 1 .. m)
  <2>1. JoinAll(ws).deleted = FreedAt(ws, DOMAIN ws)
    BY DEF JoinAll
  <2> QED BY <1>1, <2>1
<1> HIDE DEF ws
<1>4. ASSUME JoinConflict(us) PROVE UnionConflict(JoinAll(ws), v)
  <2>0. PICK i \in DOMAIN us, j \in DOMAIN us :
          i < j /\ \E k \in DOMAIN us[i].data \cap DOMAIN us[j].data :
                      us[i].data[k] # us[j].data[k] /\ k \notin FreedAt(us, 1 .. j - 1)
    BY <1>4 DEF JoinConflict
  <2>1. PICK k \in DOMAIN us[i].data \cap DOMAIN us[j].data :
          i < j /\ us[i].data[k] # us[j].data[k] /\ k \notin FreedAt(us, 1 .. j - 1)
    BY <2>0
  <2>2. j = m + 1
    <3> SUFFICES ASSUME j # m + 1 PROVE FALSE
      OBVIOUS
    <3>1. i \in 1 .. m /\ j \in 1 .. m
      BY <2>1
    <3> QED BY <1>1, <1>2, <2>1, <3>1 DEF JoinConflict, ws
  <2>3. i \in 1 .. m /\ k \notin JoinAll(ws).deleted
    BY <1>2, <1>3, <2>1, <2>2
  <2>4. k \in DOMAIN JoinAll(ws).data /\ JoinAll(ws).data[k] = us[i].data[k]
    BY <1>1, <2>1, <2>3, JoinAllKeeps DEF ws
  <2> QED BY <2>1, <2>2, <2>4 DEF UnionConflict
<1>5. ASSUME UnionConflict(JoinAll(ws), v) PROVE JoinConflict(us)
  <2>1. PICK k \in DOMAIN JoinAll(ws).data \cap DOMAIN v.data : JoinAll(ws).data[k] # v.data[k]
    BY <1>5 DEF UnionConflict
  <2>2. PICK i \in DOMAIN ws : k \in DOMAIN ws[i].data /\ JoinAll(ws).data[k] = ws[i].data[k]
    BY <2>1, JoinAllOrigin
  <2>3. k \notin FreedAt(us, 1 .. (m + 1) - 1)
    BY <1>2, <1>3, <2>1, JoinAllOrigin
  <2>4. i \in DOMAIN us /\ i < m + 1 /\ m + 1 \in DOMAIN us
    BY <1>1, <2>2
  <2> QED BY <1>1, <2>1, <2>2, <2>3, <2>4 DEF JoinConflict
<1> QED BY <1>4, <1>5 DEF ws

\* Two unions with the same artifacts that freed the same keys.
LEMMA SameUnion ==
    ASSUME NEW u, u = [data |-> u.data, deleted |-> u.deleted],
           NEW v, v = [data |-> v.data, deleted |-> v.deleted],
           u.deleted = v.deleted, DOMAIN u.data = DOMAIN v.data,
           u.data = [k \in DOMAIN u.data |-> u.data[k]],
           v.data = [k \in DOMAIN v.data |-> v.data[k]],
           \A k \in DOMAIN u.data : u.data[k] = v.data[k]
    PROVE  u = v
<1>1. [k \in DOMAIN u.data |-> u.data[k]] = [k \in DOMAIN v.data |-> v.data[k]]
  OBVIOUS
<1>2. u.data = v.data
  BY <1>1
<1> QED BY <1>2

\* A join's artifacts are a function, as are those of a union of two.
LEMMA JoinAllShape ==
    ASSUME NEW us
    PROVE  /\ JoinAll(us) = [data |-> JoinAll(us).data, deleted |-> JoinAll(us).deleted]
           /\ JoinAll(us).data
                = [k \in DOMAIN JoinAll(us).data |-> JoinAll(us).data[k]]
           /\ DOMAIN JoinAll(us).data
                = (UNION {DOMAIN us[i].data : i \in DOMAIN us}) \ JoinAll(us).deleted
           /\ JoinAll(us).deleted = UNION {us[i].deleted : i \in DOMAIN us}
<1> DEFINE freed == FreedAt(us, DOMAIN us)
           keys == (UNION {DOMAIN us[i].data : i \in DOMAIN us}) \ freed
           at(x) == CHOOSE i \in DOMAIN us : x \in DOMAIN us[i].data
           d == [x \in keys |-> us[at(x)].data[x]]
<1>1. JoinAll(us) = [data |-> d, deleted |-> freed]
  BY DEF JoinAll
<1>2. DOMAIN d = keys
  OBVIOUS
<1>3. d = [k \in DOMAIN d |-> d[k]]
  OBVIOUS
<1>4. freed = UNION {us[i].deleted : i \in DOMAIN us}
  BY DEF FreedAt
<1> HIDE DEF d, freed
<1> QED BY <1>1, <1>2, <1>3, <1>4

LEMMA UnionShape ==
    ASSUME NEW u, NEW v
    PROVE  /\ Union(u, v) = [data |-> Union(u, v).data, deleted |-> Union(u, v).deleted]
           /\ Union(u, v).data = [k \in DOMAIN Union(u, v).data |-> Union(u, v).data[k]]
<1> DEFINE freed == u.deleted \cup v.deleted
           d == Without(Override(u.data, v.data), freed)
<1>1. Union(u, v) = [data |-> d, deleted |-> freed]
  BY DEF Union
<1>2. d = [k \in DOMAIN d |-> d[k]]
  BY DEF Without, Restrict
<1> HIDE DEF d
<1> QED BY <1>1, <1>2

\* And otherwise its union is the closed form of the join.
LEMMA JoinGrows ==
    ASSUME NEW m \in Nat, NEW us, DOMAIN us = 1 .. m + 1, ~JoinConflict(FrontOf(us, m)),
           ~UnionConflict(JoinAll(FrontOf(us, m)), us[m + 1])
    PROVE  Union(JoinAll(FrontOf(us, m)), us[m + 1]) = JoinAll(us)
<1> DEFINE ws == FrontOf(us, m)
           v == us[m + 1]
           a == JoinAll(ws)
           b == JoinAll(us)
           c == Union(a, v)
<1>1. DOMAIN ws = 1 .. m /\ \A i \in 1 .. m : ws[i] = us[i]
  BY DEF FrontOf
<1>2. ~JoinConflict(us)
  BY ConflictGrows
<1>3. \A i \in DOMAIN us : i \in DOMAIN ws \/ i = m + 1
  BY <1>1
<1>4. /\ c.deleted = a.deleted \cup v.deleted
      /\ DOMAIN c.data = (DOMAIN a.data \cup DOMAIN v.data) \ (a.deleted \cup v.deleted)
      /\ \A k \in DOMAIN c.data :
            c.data[k] = IF k \in DOMAIN v.data THEN v.data[k] ELSE a.data[k]
  BY UnionDomain
<1>5. /\ b = [data |-> b.data, deleted |-> b.deleted]
      /\ c = [data |-> c.data, deleted |-> c.deleted]
      /\ b.data = [k \in DOMAIN b.data |-> b.data[k]]
      /\ c.data = [k \in DOMAIN c.data |-> c.data[k]]
  BY JoinAllShape, UnionShape
<1>6. /\ a.deleted = UNION {ws[i].deleted : i \in DOMAIN ws}
      /\ b.deleted = UNION {us[i].deleted : i \in DOMAIN us}
      /\ DOMAIN a.data = (UNION {DOMAIN ws[i].data : i \in DOMAIN ws}) \ a.deleted
      /\ DOMAIN b.data = (UNION {DOMAIN us[i].data : i \in DOMAIN us}) \ b.deleted
  BY JoinAllShape
<1>7. m + 1 \in DOMAIN us /\ DOMAIN ws \subseteq DOMAIN us /\ DOMAIN us \subseteq Int
  BY <1>1
<1>8. \A i \in DOMAIN us : \A k \in DOMAIN us[i].data : k \notin b.deleted =>
         k \in DOMAIN b.data /\ b.data[k] = us[i].data[k]
  BY <1>2, <1>7, JoinAllKeeps
<1>9. \A k \in DOMAIN a.data : \E i \in DOMAIN ws :
         k \in DOMAIN ws[i].data /\ a.data[k] = ws[i].data[k]
  BY JoinAllOrigin
<1> HIDE DEF ws, v, a, b, c
<1>10. c.deleted = b.deleted
  BY <1>1, <1>3, <1>4, <1>6, <1>7 DEF v
<1>11. DOMAIN c.data = DOMAIN b.data
  BY <1>1, <1>3, <1>4, <1>6, <1>7, <1>10 DEF v
<1>12. ASSUME NEW k \in DOMAIN c.data PROVE c.data[k] = b.data[k]
  <2>1. k \notin b.deleted
    BY <1>4, <1>10
  <2>2. CASE k \in DOMAIN v.data
    BY <1>4, <1>7, <1>8, <2>1, <2>2 DEF v
  <2>3. CASE k \notin DOMAIN v.data
    BY <1>1, <1>4, <1>7, <1>8, <1>9, <2>1, <2>3
  <2> QED BY <2>2, <2>3
<1>13. c = b
  BY <1>5, <1>10, <1>11, <1>12, SameUnion
<1> QED BY <1>13 DEF a, b, c, v, ws

-----------------------------------------------------------------------------
(* One turn of the loop: reports *)

\* A fresh report of the given parts is its checks and summaries.
LEMMA SameReport ==
    ASSUME NEW r, Fresh(r), r = [check |-> r.check, status |-> r.status, summary |-> r.summary],
           NEW q, Fresh(q), q = [check |-> q.check, status |-> q.status, summary |-> q.summary],
           r.check = [k \in DOMAIN r.check |-> r.check[k]],
           q.check = [k \in DOMAIN q.check |-> q.check[k]],
           DOMAIN r.check = DOMAIN q.check, r.summary = q.summary,
           \A k \in DOMAIN r.check : r.check[k] = q.check[k]
    PROVE  r = q
<1>1. [k \in DOMAIN r.check |-> r.check[k]] = [k \in DOMAIN q.check |-> q.check[k]]
  OBVIOUS
<1>2. r.check = q.check
  BY <1>1
<1>3. r.status = q.status
  BY <1>2 DEF Fresh
<1> QED BY <1>2, <1>3

LEMMA MergeAllShape ==
    ASSUME NEW rs
    PROVE  LET q == MergeAll(rs)
           IN  /\ q = [check |-> q.check, status |-> q.status, summary |-> q.summary]
               /\ q.check = [k \in DOMAIN q.check |-> q.check[k]]
               /\ q.summary = UNION {rs[i].summary : i \in DOMAIN rs}
<1> DEFINE keys == UNION {DOMAIN rs[i].check : i \in DOMAIN rs}
           check == [k \in keys |-> rs[LastWith(rs, LAMBDA r : k \in DOMAIN r.check)].check[k]]
           samples == UNION {DOMAIN rs[i].status : i \in DOMAIN rs}
           status == [s \in samples |-> MergedStatus(rs, check, s)]
<1>1. MergeAll(rs) = [check |-> check, status |-> status,
                      summary |-> UNION {rs[i].summary : i \in DOMAIN rs}]
  BY DEF MergeAll
<1>2. check = [k \in DOMAIN check |-> check[k]]
  OBVIOUS
<1> HIDE DEF check, status
<1> QED BY <1>1, <1>2

LEMMA MergeShape ==
    ASSUME NEW r, NEW o
    PROVE  LET q == Merge(r, o)
           IN  /\ q = [check |-> q.check, status |-> q.status, summary |-> q.summary]
               /\ q.check = [k \in DOMAIN q.check |-> q.check[k]]
               /\ q.summary = r.summary \cup o.summary
               /\ DOMAIN q.check = DOMAIN r.check \cup DOMAIN o.check
               /\ \A k \in DOMAIN q.check :
                     q.check[k] = IF k \in DOMAIN o.check THEN o.check[k] ELSE r.check[k]
<1> DEFINE q == Merge(r, o)
<1>1. /\ q = [check |-> q.check, status |-> q.status, summary |-> q.summary]
      /\ q.check = Override(r.check, o.check)
      /\ q.summary = r.summary \cup o.summary
  BY DEF Merge
<1> DEFINE w == Override(r.check, o.check)
<1>2. w = [k \in DOMAIN w |-> w[k]]
  BY DEF Override
<1>3. DOMAIN w = DOMAIN r.check \cup DOMAIN o.check
  BY OverrideDomain
<1>4. \A k \in DOMAIN w : w[k] = IF k \in DOMAIN o.check THEN o.check[k] ELSE r.check[k]
  BY <1>3, OverrideValue
<1> HIDE DEF q, w
<1>5. q.check = w
  BY <1>1 DEF w
<1> QED BY <1>1, <1>2, <1>3, <1>4, <1>5 DEF q

\* The turn merges the reports as the closed form does.
LEMMA MergeGrows ==
    ASSUME NEW m \in Nat, NEW rs, DOMAIN rs = 1 .. m + 1, \A i \in DOMAIN rs : Fresh(rs[i])
    PROVE  Merge(MergeAll(FrontOf(rs, m)), rs[m + 1]) = MergeAll(rs)
<1> DEFINE ws == FrontOf(rs, m)
           o == rs[m + 1]
           a == MergeAll(ws)
           b == MergeAll(rs)
           c == Merge(a, o)
<1>1. DOMAIN ws = 1 .. m /\ \A i \in 1 .. m : ws[i] = rs[i]
  BY DEF FrontOf
<1>2. \A i \in DOMAIN rs : i \in DOMAIN ws \/ i = m + 1
  BY <1>1
<1>3. /\ DOMAIN ws \subseteq 0 .. m + 1 /\ DOMAIN rs \subseteq 0 .. m + 1 /\ m + 1 \in Nat
      /\ DOMAIN ws \subseteq DOMAIN rs /\ m + 1 \in DOMAIN rs
      /\ \A i \in DOMAIN ws : i < m + 1
  BY <1>1
<1>4. \A i \in DOMAIN ws : Fresh(ws[i])
  BY <1>1, <1>3
<1>5. Fresh(a) /\ Fresh(b)
  BY <1>3, <1>4, MergeAllIsFresh
<1>6. Fresh(c)
  BY <1>3, <1>5, MergeIsFresh
<1>7. /\ c = [check |-> c.check, status |-> c.status, summary |-> c.summary]
      /\ c.check = [k \in DOMAIN c.check |-> c.check[k]]
      /\ c.summary = a.summary \cup o.summary
      /\ DOMAIN c.check = DOMAIN a.check \cup DOMAIN o.check
      /\ \A k \in DOMAIN c.check :
            c.check[k] = IF k \in DOMAIN o.check THEN o.check[k] ELSE a.check[k]
  BY MergeShape
<1>8. /\ b = [check |-> b.check, status |-> b.status, summary |-> b.summary]
      /\ b.check = [k \in DOMAIN b.check |-> b.check[k]]
      /\ b.summary = UNION {rs[i].summary : i \in DOMAIN rs}
      /\ a.summary = UNION {ws[i].summary : i \in DOMAIN ws}
  BY MergeAllShape
<1>9. /\ DOMAIN a.check = UNION {DOMAIN ws[i].check : i \in DOMAIN ws}
      /\ \A k \in DOMAIN a.check : \E i \in DOMAIN ws :
            /\ k \in DOMAIN ws[i].check /\ a.check[k] = ws[i].check[k]
            /\ \A j \in DOMAIN ws : k \in DOMAIN ws[j].check => j <= i
  BY <1>3, MergeAllCheck
<1>10. /\ DOMAIN b.check = UNION {DOMAIN rs[i].check : i \in DOMAIN rs}
       /\ \A k \in DOMAIN b.check : \E i \in DOMAIN rs :
            /\ k \in DOMAIN rs[i].check /\ b.check[k] = rs[i].check[k]
            /\ \A j \in DOMAIN rs : k \in DOMAIN rs[j].check => j <= i
  BY <1>3, MergeAllCheck
<1> HIDE DEF ws, o, a, b, c
<1>11. c.summary = b.summary
  BY <1>1, <1>2, <1>3, <1>7, <1>8 DEF o
<1>12. DOMAIN c.check = DOMAIN b.check
  BY <1>1, <1>2, <1>3, <1>7, <1>9, <1>10 DEF o
<1>13. ASSUME NEW k \in DOMAIN c.check PROVE c.check[k] = b.check[k]
  <2>1. PICK j \in DOMAIN rs : /\ k \in DOMAIN rs[j].check /\ b.check[k] = rs[j].check[k]
                               /\ \A l \in DOMAIN rs : k \in DOMAIN rs[l].check => l <= j
    BY <1>10, <1>12
  <2>2. CASE k \in DOMAIN o.check
    <3>1. j = m + 1
      BY <1>2, <1>3, <2>1, <2>2 DEF o
    <3> QED BY <1>7, <2>1, <2>2, <3>1 DEF o
  <2>3. CASE k \notin DOMAIN o.check
    <3>1. PICK i \in DOMAIN ws : /\ k \in DOMAIN ws[i].check /\ a.check[k] = ws[i].check[k]
                                 /\ \A l \in DOMAIN ws : k \in DOMAIN ws[l].check => l <= i
      BY <1>7, <1>9, <2>3
    <3>2. j \in DOMAIN ws
      BY <1>2, <2>1, <2>3 DEF o
    <3>3. i \in Int /\ j \in Int /\ i <= j /\ j <= i
      BY <1>1, <1>3, <2>1, <3>1, <3>2
    <3>4. i = j
      BY <3>3
    <3> QED BY <1>1, <1>7, <2>1, <2>3, <3>1, <3>2, <3>4
  <2> QED BY <2>2, <2>3
<1>14. c = b
  BY <1>5, <1>6, <1>7, <1>8, <1>11, <1>12, <1>13, SameReport
<1> QED BY <1>14 DEF a, b, c, o, ws

-----------------------------------------------------------------------------
(* The loop *)

LEMMA InputFacts ==
    ASSUME NEW is \in InputSeqs
    PROVE  /\ Len(is) \in Nat /\ DOMAIN is = 1 .. Len(is)
           /\ \A i \in DOMAIN is : Fresh(is[i].rep)
           /\ \A i \in DOMAIN is : \A k \in DOMAIN is[i].rep.check :
                 is[i].rep.check[k] \in Statuses
BY ResultsAssumption

\* The unions and the reports of the first m inputs.
LEMMA FirstInputs ==
    ASSUME NEW is \in InputSeqs, NEW m \in 0 .. Len(is)
    PROVE  /\ SubSeq(is, 1, m) = [i \in 1 .. m |-> is[i]]
           /\ Arts(SubSeq(is, 1, m)) = [i \in 1 .. m |-> is[i].art]
           /\ Reps(SubSeq(is, 1, m)) = [i \in 1 .. m |-> is[i].rep]
<1>1. SubSeq(is, 1, m) = [i \in 1 .. m |-> is[i]]
  <2>1. Len(is) \in Nat
    BY InputFacts
  <2>2. SubSeq(is, 1, m) = [i \in 1 .. (1 + m - 1) |-> is[i + 1 - 1]]
    BY <2>1, InputFacts DEF SubSeq
  <2>3. \A i \in 1 .. m : i + 1 - 1 = i
    BY <2>1
  <2>4. 1 + m - 1 = m
    BY <2>1
  <2>5. [i \in 1 .. m |-> is[i + 1 - 1]] = [i \in 1 .. m |-> is[i]]
    BY <2>3
  <2> QED BY <2>2, <2>4, <2>5
<1> DEFINE ws == SubSeq(is, 1, m)
<1>2. DOMAIN ws = 1 .. m /\ \A i \in 1 .. m : ws[i] = is[i]
  BY <1>1
<1> HIDE DEF ws
<1>3. Arts(ws) = [i \in 1 .. m |-> is[i].art]
  BY <1>2 DEF Arts
<1>4. Reps(ws) = [i \in 1 .. m |-> is[i].rep]
  BY <1>2 DEF Reps
<1> QED BY <1>1, <1>3, <1>4 DEF ws

\* Nothing joined yet: the empty union and the empty report.
LEMMA NothingJoined ==
    ASSUME NEW us, DOMAIN us = {}
    PROVE  JoinAll(us) = EmptyUnion /\ MergeAll(us) = EmptyReport /\ ~JoinConflict(us)
<1>1. JoinAll(us) = EmptyUnion
  <2>1. JoinAll(us).deleted = {} /\ DOMAIN JoinAll(us).data = {}
    BY JoinAllDeleted, JoinAllOrigin
  <2>2. EmptyUnion.deleted = {} /\ DOMAIN EmptyUnion.data = {}
    BY EmptyDomain DEF EmptyUnion
  <2>3. /\ EmptyUnion = [data |-> EmptyUnion.data, deleted |-> EmptyUnion.deleted]
        /\ EmptyUnion.data = [k \in DOMAIN EmptyUnion.data |-> EmptyUnion.data[k]]
    BY DEF EmptyUnion, EmptyMap
  <2> QED BY <2>1, <2>2, <2>3, JoinAllShape, SameUnion
<1>2. MergeAll(us) = EmptyReport
  <2>1. DOMAIN MergeAll(us).check = {} /\ MergeAll(us).summary = {} /\ Fresh(MergeAll(us))
    <3>1. DOMAIN us \subseteq 0 .. 0
      OBVIOUS
    <3>2. DOMAIN MergeAll(us).check = {}
      BY <3>1, MergeAllCheck
    <3>3. {us[i].summary : i \in DOMAIN us} = {}
      OBVIOUS
    <3>4. MergeAll(us).summary = {}
      BY <3>3, MergeAllShape
    <3> QED BY <3>1, <3>2, <3>4, MergeAllIsFresh
  <2>2. /\ DOMAIN EmptyReport.check = {} /\ EmptyReport.summary = {} /\ Fresh(EmptyReport)
        /\ EmptyReport = [check |-> EmptyReport.check, status |-> EmptyReport.status,
                          summary |-> EmptyReport.summary]
        /\ EmptyReport.check = [k \in DOMAIN EmptyReport.check |-> EmptyReport.check[k]]
    BY EmptyIsFresh DEF EmptyReport, EmptyMap
  <2> HIDE DEF EmptyReport
  <2>3. LET q == MergeAll(us)
        IN  /\ q = [check |-> q.check, status |-> q.status, summary |-> q.summary]
            /\ q.check = [k \in DOMAIN q.check |-> q.check[k]]
    BY MergeAllShape
  <2> QED BY <2>1, <2>2, <2>3, SameReport
<1> QED BY <1>1, <1>2 DEF JoinConflict

\* The invariant of the loop.
LoopInv ==
    /\ inputs \in InputSeqs
    /\ next \in 1 .. Len(inputs) + 1
    /\ raised \in BOOLEAN
    /\ raised => next \in DOMAIN inputs
    /\ ClosedForms

LEMMA InitLoop == ASSUME Init PROVE LoopInv
<1>1. /\ inputs \in InputSeqs /\ next = 1 /\ art = EmptyUnion /\ rep = EmptyReport
      /\ raised = FALSE
  BY DEF Init
<1>2. Len(inputs) \in Nat
  BY <1>1, InputFacts
<1>3. Prefix = SubSeq(inputs, 1, 0) /\ 0 \in 0 .. Len(inputs)
  BY <1>1, <1>2 DEF Prefix
<1>4. DOMAIN Arts(Prefix) = {} /\ DOMAIN Reps(Prefix) = {}
  <2>1. /\ Arts(Prefix) = [i \in 1 .. 0 |-> inputs[i].art]
        /\ Reps(Prefix) = [i \in 1 .. 0 |-> inputs[i].rep]
    BY <1>1, <1>3, FirstInputs
  <2> QED BY <2>1
<1>5. ClosedForms
  BY <1>1, <1>4, NothingJoined DEF ClosedForms
<1>6. next \in 1 .. Len(inputs) + 1
  BY <1>1, <1>2
<1> QED BY <1>1, <1>5, <1>6 DEF LoopInv

LEMMA LoopStep == ASSUME LoopInv, [Next]_vars PROVE LoopInv'
<1>1. /\ Len(inputs) \in Nat /\ DOMAIN inputs = 1 .. Len(inputs)
      /\ next \in Nat /\ next - 1 \in 0 .. Len(inputs)
  BY InputFacts DEF LoopInv
<1> DEFINE m == next - 1
           us == Arts(SubSeq(inputs, 1, next))
           rs == Reps(SubSeq(inputs, 1, next))
<1>2. ASSUME next \in DOMAIN inputs
      PROVE  /\ m \in Nat /\ m + 1 = next
             /\ DOMAIN us = 1 .. m + 1 /\ us[m + 1] = inputs[next].art
             /\ DOMAIN rs = 1 .. m + 1 /\ rs[m + 1] = inputs[next].rep
             /\ FrontOf(us, m) = Arts(Prefix) /\ FrontOf(rs, m) = Reps(Prefix)
             /\ \A i \in DOMAIN rs : Fresh(rs[i])
  <2>1. m \in 0 .. Len(inputs) /\ next \in 0 .. Len(inputs) /\ m \in Nat /\ m + 1 = next
    BY <1>1, <1>2
  <2>2. /\ us = [i \in 1 .. next |-> inputs[i].art]
        /\ rs = [i \in 1 .. next |-> inputs[i].rep]
    BY <2>1, FirstInputs DEF LoopInv
  <2>3. /\ Arts(Prefix) = [i \in 1 .. m |-> inputs[i].art]
        /\ Reps(Prefix) = [i \in 1 .. m |-> inputs[i].rep]
    BY <2>1, FirstInputs DEF LoopInv, Prefix
  <2>4. next \in 1 .. next /\ 1 .. m \subseteq 1 .. next /\ 1 .. next \subseteq DOMAIN inputs
    BY <1>1, <1>2, <2>1
  <2> HIDE DEF us, rs, m
  <2>5. FrontOf(us, m) = Arts(Prefix)
    BY <2>2, <2>3, <2>4 DEF FrontOf
  <2>6. FrontOf(rs, m) = Reps(Prefix)
    BY <2>2, <2>3, <2>4 DEF FrontOf
  <2>7. \A i \in DOMAIN rs : Fresh(rs[i])
    BY <2>2, <2>4, InputFacts DEF LoopInv
  <2> QED BY <2>1, <2>2, <2>4, <2>5, <2>6, <2>7
<1>3. CASE Fold
  <2>1. /\ next \in DOMAIN inputs /\ ~UnionConflict(art, inputs[next].art)
        /\ art' = Union(art, inputs[next].art) /\ rep' = Merge(rep, inputs[next].rep)
        /\ next' = next + 1 /\ inputs' = inputs /\ raised' = FALSE
    BY <1>3 DEF Fold, LoopInv
  <2>2. /\ art = JoinAll(FrontOf(us, m)) /\ rep = MergeAll(FrontOf(rs, m))
        /\ ~JoinConflict(FrontOf(us, m))
    BY <1>2, <2>1 DEF LoopInv, ClosedForms
  <2> HIDE DEF us, rs, m
  <2>3. art' = JoinAll(us) /\ ~JoinConflict(us)
    BY <1>2, <2>1, <2>2, ConflictGrows, JoinGrows
  <2>4. rep' = MergeAll(rs)
    BY <1>2, <2>1, <2>2, MergeGrows
  <2>5. Prefix' = SubSeq(inputs, 1, next)
    <3>1. next' - 1 = next
      BY <1>1, <2>1
    <3> QED BY <2>1, <3>1 DEF Prefix
  <2>6. ClosedForms'
    BY <2>1, <2>3, <2>4, <2>5 DEF ClosedForms, us, rs
  <2>7. next' \in 1 .. Len(inputs') + 1
    BY <1>1, <2>1
  <2> QED BY <2>1, <2>6, <2>7 DEF LoopInv
<1>4. CASE Raise
  <2>1. /\ next \in DOMAIN inputs /\ UnionConflict(art, inputs[next].art)
        /\ raised' = TRUE /\ UNCHANGED <<inputs, next, art, rep>>
    BY <1>4 DEF Raise
  <2>2. art = JoinAll(FrontOf(us, m)) /\ ~JoinConflict(FrontOf(us, m))
    BY <1>2, <2>1 DEF LoopInv, ClosedForms
  <2> HIDE DEF us, rs, m
  <2>3. JoinConflict(us)
    BY <1>2, <2>1, <2>2, ConflictGrows
  <2>4. ClosedForms'
    BY <2>1, <2>3 DEF LoopInv, ClosedForms, Prefix, us
  <2> QED BY <2>1, <2>4 DEF LoopInv
<1>5. CASE UNCHANGED vars
  BY <1>5 DEF vars, LoopInv, ClosedForms, Prefix
<1> QED BY <1>3, <1>4, <1>5 DEF Next

LEMMA LoopInvariant == Spec => []LoopInv
BY InitLoop, LoopStep, PTL DEF Spec

-----------------------------------------------------------------------------
\* executor.py 255-266: the loops of _union_of and _report_of compute the
\* closed forms the executor's model uses, and the first raises exactly where
\* JoinConflict says so, however many results they join.
THEOREM LoopsAreClosedForms == Spec => []ClosedForms
BY LoopInvariant, PTL DEF LoopInv

\* The inputs that have been folded, and what the loop has made of them.
LEMMA FoldedFacts ==
    ASSUME LoopInv
    PROVE  LET us == Arts(Prefix)
               rs == Reps(Prefix)
           IN  /\ next - 1 \in 0 .. Len(inputs) /\ next - 1 \in Nat
               /\ DOMAIN us = Folded /\ DOMAIN rs = Folded
               /\ Folded \subseteq DOMAIN inputs /\ Folded \subseteq 0 .. next - 1
               /\ \A i \in Folded : us[i] = inputs[i].art /\ rs[i] = inputs[i].rep
               /\ art = JoinAll(us) /\ rep = MergeAll(rs) /\ ~JoinConflict(us)
               /\ \A i \in Folded : /\ Fresh(rs[i])
                                    /\ \A k \in DOMAIN rs[i].check : rs[i].check[k] \in Statuses
<1>1. /\ Len(inputs) \in Nat /\ DOMAIN inputs = 1 .. Len(inputs)
      /\ next \in Nat /\ next - 1 \in 0 .. Len(inputs) /\ next - 1 \in Nat
  BY InputFacts DEF LoopInv
<1>2. /\ Arts(Prefix) = [i \in 1 .. next - 1 |-> inputs[i].art]
      /\ Reps(Prefix) = [i \in 1 .. next - 1 |-> inputs[i].rep]
  BY <1>1, FirstInputs DEF LoopInv, Prefix
<1>3. Folded = 1 .. next - 1 /\ Folded \subseteq DOMAIN inputs /\ Folded \subseteq 0 .. next - 1
  BY <1>1 DEF Folded
<1>4. art = JoinAll(Arts(Prefix)) /\ rep = MergeAll(Reps(Prefix)) /\ ~JoinConflict(Arts(Prefix))
  BY DEF LoopInv, ClosedForms
<1> QED BY <1>1, <1>2, <1>3, <1>4, InputFacts DEF LoopInv

\* data.py 82-84 and 185-198: no union in the join brings back what another
\* one freed, and none of the other artifacts is lost.
THEOREM JoinsAreUnions == Spec => []JoinIsUnion
<1>1. LoopInv => JoinIsUnion
  <2> SUFFICES ASSUME LoopInv PROVE JoinIsUnion
    OBVIOUS
  <2> DEFINE us == Arts(Prefix)
             freed == UNION {inputs[i].art.deleted : i \in Folded}
  <2>1. /\ DOMAIN us = Folded /\ Folded \subseteq 0 .. next - 1
        /\ \A i \in Folded : us[i] = inputs[i].art
        /\ art = JoinAll(us) /\ ~JoinConflict(us)
    BY FoldedFacts
  <2>2. DOMAIN us \subseteq Int
    BY <2>1
  <2>3. art.deleted = UNION {us[i].deleted : i \in DOMAIN us}
    BY <2>1, JoinAllShape
  <2>4. DOMAIN art.data \cap art.deleted = {}
    BY <2>1, JoinAllShape
  <2> HIDE DEF us
  <2>5. ASSUME NEW i \in DOMAIN us, NEW k \in DOMAIN us[i].data, k \notin art.deleted
        PROVE  k \in DOMAIN art.data /\ art.data[k] = us[i].data[k]
    <3>1. k \notin JoinAll(us).deleted /\ ~JoinConflict(us)
      BY <2>1, <2>5
    <3>2. k \in DOMAIN JoinAll(us).data /\ JoinAll(us).data[k] = us[i].data[k]
      BY <2>2, <3>1, JoinAllKeeps
    <3> QED BY <2>1, <3>2
  <2>6. art.deleted = freed
    BY <2>1, <2>3
  <2> QED BY <2>1, <2>4, <2>5, <2>6 DEF JoinIsUnion
<1> QED BY <1>1, LoopInvariant, PTL

\* report.py 218-234: the join of a batch's reports knows of every death.
THEOREM NobodyRises == Spec => []DeathSurvivesTheJoin
<1>1. LoopInv => DeathSurvivesTheJoin
  <2> SUFFICES ASSUME LoopInv, OneVerdictEach,
                      NEW i \in Folded, NEW s \in DOMAIN inputs[i].rep.status,
                      ~IsAlive(inputs[i].rep, s)
               PROVE  ~IsAlive(rep, s)
    BY DEF DeathSurvivesTheJoin
  <2> DEFINE rs == Reps(Prefix)
             n == next - 1
  <2>1. /\ n \in Nat /\ DOMAIN rs = Folded /\ Folded \subseteq 0 .. n
        /\ \A j \in Folded : rs[j] = inputs[j].rep
        /\ rep = MergeAll(rs)
        /\ \A j \in Folded : /\ Fresh(rs[j])
                             /\ \A k \in DOMAIN rs[j].check : rs[j].check[k] \in Statuses
    BY FoldedFacts
  <2> HIDE DEF rs, n
  <2>2. PICK k \in DOMAIN rs[i].check : k[1] = s /\ rs[i].check[k] = "error"
    BY <2>1, DeadIsCondemned
  <2>3. Fresh(rep)
    BY <2>1, MergeAllIsFresh
  <2>4. /\ DOMAIN rep.check = UNION {DOMAIN rs[j].check : j \in DOMAIN rs}
        /\ \A l \in DOMAIN rep.check : \E j \in Folded :
              l \in DOMAIN rs[j].check /\ rep.check[l] = rs[j].check[l]
    <3>1. DOMAIN rs \subseteq 0 .. n
      BY <2>1
    <3>2. /\ DOMAIN MergeAll(rs).check = UNION {DOMAIN rs[j].check : j \in DOMAIN rs}
          /\ \A l \in DOMAIN MergeAll(rs).check : \E j \in DOMAIN rs :
                /\ l \in DOMAIN rs[j].check
                /\ MergeAll(rs).check[l] = rs[j].check[l]
                /\ \A h \in DOMAIN rs : l \in DOMAIN rs[h].check => h <= j
      BY <2>1, <3>1, MergeAllCheck
    <3> QED BY <2>1, <3>2
  <2>5. k \in DOMAIN rep.check
    BY <2>1, <2>4
  <2>6. rep.check[k] = "error"
    BY <2>1, <2>2, <2>4, <2>5 DEF OneVerdictEach
  <2>7. \A l \in DOMAIN rep.check : rep.check[l] \in Statuses
    BY <2>1, <2>4
  <2> QED BY <2>2, <2>3, <2>5, <2>6, <2>7, DeadIsCondemned
<1> QED BY <1>1, LoopInvariant, PTL

-----------------------------------------------------------------------------
(* The order of the inputs *)

\* The inputs listed the other way round.
LEMMA Reversed ==
    ASSUME LoopInv
    PROVE  LET m == next - 1
               back == Backwards(Prefix)
           IN  /\ Arts(back) = [i \in 1 .. m |-> Arts(Prefix)[m + 1 - i]]
               /\ Reps(back) = [i \in 1 .. m |-> Reps(Prefix)[m + 1 - i]]
<1> DEFINE m == next - 1
           back == Backwards(Prefix)
<1>1. m \in 0 .. Len(inputs) /\ m \in Nat
  BY FoldedFacts
<1>2. Prefix = [i \in 1 .. m |-> inputs[i]]
  BY <1>1, FirstInputs DEF LoopInv, Prefix
<1>3. Len(Prefix) = m /\ DOMAIN Prefix = 1 .. m
  <2>1. Prefix \in Seq({inputs[i] : i \in 1 .. m})
    BY <1>1, <1>2
  <2> QED BY <1>1, <1>2, <2>1
<1>4. \A i \in 1 .. m : m + 1 - i \in 1 .. m
  BY <1>1
<1>5. back = [i \in 1 .. m |-> Prefix[m + 1 - i]]
  BY <1>3 DEF Backwards
<1>6. /\ \A i \in 1 .. m : Arts(Prefix)[i] = Prefix[i].art
      /\ \A i \in 1 .. m : Reps(Prefix)[i] = Prefix[i].rep
  BY <1>3 DEF Arts, Reps
<1> HIDE DEF m, back
<1>7. Arts(back) = [i \in 1 .. m |-> Prefix[m + 1 - i].art]
  BY <1>5 DEF Arts
<1>8. Reps(back) = [i \in 1 .. m |-> Prefix[m + 1 - i].rep]
  BY <1>5 DEF Reps
<1>9. Arts(back) = [i \in 1 .. m |-> Arts(Prefix)[m + 1 - i]]
  BY <1>4, <1>6, <1>7
<1>10. Reps(back) = [i \in 1 .. m |-> Reps(Prefix)[m + 1 - i]]
  BY <1>4, <1>6, <1>8
<1> QED BY <1>9, <1>10 DEF m, back

\* Two sequences of the same members.
SameMembers(us, vs) == /\ \A i \in DOMAIN us : \E j \in DOMAIN vs : us[i] = vs[j]
                       /\ \A j \in DOMAIN vs : \E i \in DOMAIN us : us[i] = vs[j]

LEMMA ReversedMembers ==
    ASSUME NEW m \in Nat, NEW us, DOMAIN us = 1 .. m,
           NEW vs, vs = [i \in 1 .. m |-> us[m + 1 - i]]
    PROVE  SameMembers(us, vs) /\ DOMAIN vs = 1 .. m
<1>1. \A i \in 1 .. m : m + 1 - i \in 1 .. m /\ m + 1 - (m + 1 - i) = i
  OBVIOUS
<1>2. DOMAIN vs = 1 .. m /\ \A i \in 1 .. m : vs[i] = us[m + 1 - i]
  OBVIOUS
<1>3. \A i \in 1 .. m : us[i] = vs[m + 1 - i]
  BY <1>1, <1>2
<1> QED BY <1>1, <1>2, <1>3 DEF SameMembers

\* Unions that do not conflict have one join, in whichever order.
LEMMA ReverseJoin ==
    ASSUME NEW us, DOMAIN us \subseteq Int, ~JoinConflict(us),
           NEW vs, DOMAIN vs \subseteq Int, ~JoinConflict(vs), SameMembers(us, vs)
    PROVE  JoinAll(us) = JoinAll(vs)
<1> DEFINE a == JoinAll(us)
           b == JoinAll(vs)
<1>1. /\ a = [data |-> a.data, deleted |-> a.deleted]
      /\ a.data = [k \in DOMAIN a.data |-> a.data[k]]
      /\ DOMAIN a.data = (UNION {DOMAIN us[i].data : i \in DOMAIN us}) \ a.deleted
      /\ a.deleted = UNION {us[i].deleted : i \in DOMAIN us}
  BY JoinAllShape
<1>2. /\ b = [data |-> b.data, deleted |-> b.deleted]
      /\ b.data = [k \in DOMAIN b.data |-> b.data[k]]
      /\ DOMAIN b.data = (UNION {DOMAIN vs[i].data : i \in DOMAIN vs}) \ b.deleted
      /\ b.deleted = UNION {vs[i].deleted : i \in DOMAIN vs}
  BY JoinAllShape
<1>3. \A i \in DOMAIN us : \A k \in DOMAIN us[i].data : k \notin a.deleted =>
         a.data[k] = us[i].data[k]
  BY JoinAllKeeps
<1>4. \A k \in DOMAIN b.data : \E j \in DOMAIN vs :
         k \in DOMAIN vs[j].data /\ b.data[k] = vs[j].data[k]
  BY JoinAllOrigin
<1>5. /\ {us[i].deleted : i \in DOMAIN us} = {vs[i].deleted : i \in DOMAIN vs}
      /\ {DOMAIN us[i].data : i \in DOMAIN us} = {DOMAIN vs[i].data : i \in DOMAIN vs}
  BY DEF SameMembers
<1> HIDE DEF a, b
<1>6. a.deleted = b.deleted
  BY <1>1, <1>2, <1>5
<1>7. DOMAIN a.data = DOMAIN b.data
  BY <1>1, <1>2, <1>5, <1>6
<1>8. ASSUME NEW k \in DOMAIN a.data PROVE a.data[k] = b.data[k]
  <2>1. PICK j \in DOMAIN vs : k \in DOMAIN vs[j].data /\ b.data[k] = vs[j].data[k]
    BY <1>4, <1>7
  <2>2. PICK i \in DOMAIN us : us[i] = vs[j]
    BY DEF SameMembers
  <2> QED BY <1>1, <1>3, <2>1, <2>2
<1>9. a = b
  <2>1. [k \in DOMAIN a.data |-> a.data[k]] = [k \in DOMAIN b.data |-> b.data[k]]
    BY <1>7, <1>8
  <2>2. a.data = b.data
    BY <1>1, <1>2, <2>1
  <2> QED BY <1>1, <1>2, <1>6, <2>2
<1> QED BY <1>9 DEF a, b

\* Reports that agree on the checks they share have one join.
LEMMA ReverseMerge ==
    ASSUME NEW m \in Nat, NEW rs, DOMAIN rs \subseteq 0 .. m, \A i \in DOMAIN rs : Fresh(rs[i]),
           NEW qs, DOMAIN qs \subseteq 0 .. m, SameMembers(rs, qs),
           \A i, j \in DOMAIN rs : \A k \in DOMAIN rs[i].check \cap DOMAIN rs[j].check :
              rs[i].check[k] = rs[j].check[k]
    PROVE  MergeAll(rs) = MergeAll(qs)
<1> DEFINE a == MergeAll(rs)
           b == MergeAll(qs)
<1>1. Fresh(a) /\ Fresh(b)
  <2>1. \A j \in DOMAIN qs : Fresh(qs[j])
    BY DEF SameMembers
  <2> QED BY <2>1, MergeAllIsFresh
<1>2. /\ a = [check |-> a.check, status |-> a.status, summary |-> a.summary]
      /\ a.check = [k \in DOMAIN a.check |-> a.check[k]]
      /\ a.summary = UNION {rs[i].summary : i \in DOMAIN rs}
  BY MergeAllShape
<1>3. /\ b = [check |-> b.check, status |-> b.status, summary |-> b.summary]
      /\ b.check = [k \in DOMAIN b.check |-> b.check[k]]
      /\ b.summary = UNION {qs[i].summary : i \in DOMAIN qs}
  BY MergeAllShape
<1>4. /\ DOMAIN a.check = UNION {DOMAIN rs[i].check : i \in DOMAIN rs}
      /\ \A k \in DOMAIN a.check : \E i \in DOMAIN rs :
            /\ k \in DOMAIN rs[i].check /\ a.check[k] = rs[i].check[k]
            /\ \A j \in DOMAIN rs : k \in DOMAIN rs[j].check => j <= i
  BY MergeAllCheck
<1>5. /\ DOMAIN b.check = UNION {DOMAIN qs[i].check : i \in DOMAIN qs}
      /\ \A k \in DOMAIN b.check : \E i \in DOMAIN qs :
            /\ k \in DOMAIN qs[i].check /\ b.check[k] = qs[i].check[k]
            /\ \A j \in DOMAIN qs : k \in DOMAIN qs[j].check => j <= i
  BY MergeAllCheck
<1>6. /\ {rs[i].summary : i \in DOMAIN rs} = {qs[i].summary : i \in DOMAIN qs}
      /\ {DOMAIN rs[i].check : i \in DOMAIN rs} = {DOMAIN qs[i].check : i \in DOMAIN qs}
  BY DEF SameMembers
<1> HIDE DEF a, b
<1>7. a.summary = b.summary /\ DOMAIN a.check = DOMAIN b.check
  BY <1>2, <1>3, <1>4, <1>5, <1>6
<1>8. ASSUME NEW k \in DOMAIN a.check PROVE a.check[k] = b.check[k]
  <2>1. PICK i \in DOMAIN rs : k \in DOMAIN rs[i].check /\ a.check[k] = rs[i].check[k]
    BY <1>4
  <2>2. PICK j \in DOMAIN qs : k \in DOMAIN qs[j].check /\ b.check[k] = qs[j].check[k]
    BY <1>5, <1>7
  <2>3. PICK l \in DOMAIN rs : rs[l] = qs[j]
    BY DEF SameMembers
  <2>4. rs[i].check[k] = rs[l].check[k]
    BY <2>1, <2>2, <2>3
  <2> QED BY <2>1, <2>2, <2>3, <2>4
<1>9. a = b
  BY <1>1, <1>2, <1>3, <1>7, <1>8, SameReport
<1> QED BY <1>9 DEF a, b

\* executor.py 17-19: the order in which a node lists its inputs changes
\* neither the union nor the report it runs on.
THEOREM InputOrderDoesNotMatter == Spec => []OrderIrrelevant
<1>1. LoopInv => OrderIrrelevant
  <2> SUFFICES ASSUME LoopInv PROVE OrderIrrelevant
    OBVIOUS
  <2> DEFINE m == next - 1
             us == Arts(Prefix)
             rs == Reps(Prefix)
             vs == Arts(Backwards(Prefix))
             qs == Reps(Backwards(Prefix))
  <2>1. /\ m \in Nat /\ DOMAIN us = 1 .. m /\ DOMAIN rs = 1 .. m /\ Folded = 1 .. m
        /\ \A i \in Folded : rs[i] = inputs[i].rep /\ Fresh(rs[i])
        /\ art = JoinAll(us) /\ rep = MergeAll(rs) /\ ~JoinConflict(us)
    BY FoldedFacts DEF Folded
  <2>2. vs = [i \in 1 .. m |-> us[m + 1 - i]] /\ qs = [i \in 1 .. m |-> rs[m + 1 - i]]
    BY Reversed
  <2> HIDE DEF m, us, rs, vs, qs
  <2>3. /\ SameMembers(us, vs) /\ SameMembers(rs, qs)
        /\ DOMAIN us \subseteq 0 .. m /\ DOMAIN vs \subseteq 0 .. m
        /\ DOMAIN rs \subseteq 0 .. m /\ DOMAIN qs \subseteq 0 .. m
    BY <2>1, <2>2, ReversedMembers
  <2>4. ASSUME ~JoinConflict(vs) PROVE art = JoinAll(vs)
    <3>1. DOMAIN us \subseteq Int /\ DOMAIN vs \subseteq Int
      BY <2>1, <2>3
    <3> QED BY <2>1, <2>3, <2>4, <3>1, ReverseJoin
  <2>5. ASSUME OneVerdictEach PROVE rep = MergeAll(qs)
    <3>1. \A i, j \in DOMAIN rs : \A k \in DOMAIN rs[i].check \cap DOMAIN rs[j].check :
             rs[i].check[k] = rs[j].check[k]
      BY <2>1, <2>5 DEF OneVerdictEach
    <3>2. \A i \in DOMAIN rs : Fresh(rs[i])
      BY <2>1
    <3> QED BY <2>1, <2>3, <3>1, <3>2, ReverseMerge
  <2> QED BY <2>4, <2>5 DEF OrderIrrelevant, vs, qs
<1> QED BY <1>1, LoopInvariant, PTL
=============================================================================
