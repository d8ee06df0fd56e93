--------------------------- MODULE DumpTreeProofs ---------------------------
(***************************************************************************)
(* What any number of attempts leave in the dump tree, whatever was        *)
(* edited, failed or killed in between.  The argument is about paths: two  *)
(* writes of one attempt never share one, two attempts share one only when *)
(* they are of one definition, and the tree holds no path that is not of   *)
(* some attempt.                                                           *)
(***************************************************************************)
EXTENDS DumpTree, DataLemmas, SequenceTheorems

\* flat_name keeps apart what one node writes in one run, and gives no object
\* the name of a document.  _dump.py does not see to it: the keys a/b and a__b
\* flatten to one segment.
NamesApart == \A d \in Defs : \A i, j \in DOMAIN Objects[d] :
    /\ i # j /\ Objects[d][i][1] = Objects[d][j][1]
          => FlatName[Objects[d][i][2]] # FlatName[Objects[d][j][2]]
    /\ Objects[d][i][1] = "archive" => FlatName[Objects[d][i][2]] \notin Range(Documents)

Attempts == [def : Defs, started : Nat, attempt : Nat, next : Nat,
             open : BOOLEAN, failed : BOOLEAN]

\* Write w is on disk, all of it, by attempt a.
Stands(w, a) == /\ w.path \in DOMAIN tree
                /\ tree[w.path].whole /\ tree[w.path].attempt = a /\ tree[w.path].of = w.of

Shape ==
    /\ yaml \in Defs /\ clock \in Nat /\ attempts \in Nat
    /\ finished \subseteq Attempts
    /\ run # NoRun => /\ run \in Attempts
                      /\ run.next \in 1 .. Len(Writes(run)) + 1
                      /\ run.open => run.next \in DOMAIN Writes(run)
    /\ run = NoRun => handles = {}
    /\ \A p \in DOMAIN tree : DOMAIN tree[p] = {"def", "attempt", "of", "whole"}

\* The file that is open is the attempt's.
Opened == run # NoRun /\ run.open =>
    /\ Current.path \in DOMAIN tree
    /\ tree[Current.path].attempt = run.attempt /\ tree[Current.path].of = Current.of

\* What the attempt has written so far stands, and so does what it has swapped
\* for a handle though another node failed.
InHand ==
    run # NoRun =>
        /\ ~run.failed => \A i \in 1 .. run.next - 1 : Stands(Writes(run)[i], run.attempt)
        /\ \A h \in handles : /\ \E i \in 1 .. run.next - 1 : h = Writes(run)[i]
                             /\ Stands(h, run.attempt)

\* Whatever is in the tree, some attempt of some definition writes there.
Traced == \A p \in DOMAIN tree :
    \E q \in Attempts : \E i \in DOMAIN Writes(q) : p = Writes(q)[i].path

\* What holds whatever flat_name does with the names; InHand takes NamesApart.
IInv == Shape /\ Opened /\ Traced

-----------------------------------------------------------------------------
(* Sequences of one and two *)

LEMMA Pairs ==
    ASSUME NEW S, NEW s \in Seq(S), NEW a \in S, NEW b \in S
    PROVE  /\ s \o <<a, b>> \in Seq(S) /\ Len(s \o <<a, b>>) = Len(s) + 2
           /\ \A i \in 1 .. Len(s) : (s \o <<a, b>>)[i] = s[i]
           /\ (s \o <<a, b>>)[Len(s) + 1] = a /\ (s \o <<a, b>>)[Len(s) + 2] = b
<1>1. <<a, b>> \in Seq(S) /\ Len(<<a, b>>) = 2 /\ <<a, b>>[1] = a /\ <<a, b>>[2] = b
  OBVIOUS
<1> DEFINE t == <<a, b>>
<1> HIDE DEF t
<1>2. t \in Seq(S) /\ Len(t) = 2 /\ t[1] = a /\ t[2] = b
  BY <1>1 DEF t
<1>3. /\ s \o t \in Seq(S) /\ Len(s \o t) = Len(s) + Len(t)
      /\ \A i \in 1 .. Len(s) + Len(t) :
            (s \o t)[i] = IF i <= Len(s) THEN s[i] ELSE t[i - Len(s)]
  BY <1>2, ConcatProperties
<1>4. Len(s) \in Nat
  OBVIOUS
<1> QED BY <1>2, <1>3, <1>4 DEF t

LEMMA Singles ==
    ASSUME NEW S, NEW s \in Seq(S), NEW a \in S
    PROVE  /\ s \o <<a>> \in Seq(S) /\ Len(s \o <<a>>) = Len(s) + 1
           /\ \A i \in 1 .. Len(s) : (s \o <<a>>)[i] = s[i]
           /\ (s \o <<a>>)[Len(s) + 1] = a
<1>1. <<a>> \in Seq(S) /\ Len(<<a>>) = 1 /\ <<a>>[1] = a
  OBVIOUS
<1> DEFINE t == <<a>>
<1> HIDE DEF t
<1>2. t \in Seq(S) /\ Len(t) = 1 /\ t[1] = a
  BY <1>1 DEF t
<1>3. /\ s \o t \in Seq(S) /\ Len(s \o t) = Len(s) + Len(t)
      /\ \A i \in 1 .. Len(s) + Len(t) :
            (s \o t)[i] = IF i <= Len(s) THEN s[i] ELSE t[i - Len(s)]
  BY <1>2, ConcatProperties
<1>4. Len(s) \in Nat
  OBVIOUS
<1> QED BY <1>2, <1>3, <1>4 DEF t

-----------------------------------------------------------------------------
(* Paths *)

\* Path p is that of file b of node a in run r.
InRun(r, p, a, b) ==
    /\ Len(p) = IF r.def \in Explicit THEN 4 ELSE 5
    /\ r.def \notin Explicit => p[3] = r.started
    /\ p[Len(p) - 1] = a /\ p[Len(p)] = b

\* Path p is that of a file beside the runs.
BesideRuns(p, a) == Len(p) = 3 /\ p[3] = a

\* Path p is below the directory of r's definition.
OfJob(r, p) == /\ \E T : p \in Seq(T)
               /\ Len(p) >= 3 /\ p[1] = "job" /\ p[2] = r.def

\* The start of a path is the run's, its end the file's.
LEMMA RunPath ==
    ASSUME NEW r, NEW a, NEW b
    PROVE  InRun(r, RunRoot(r) \o <<a, b>>, a, b) /\ OfJob(r, RunRoot(r) \o <<a, b>>)
<1> DEFINE S == {"job", r.def, r.started, a, b}
           d == JobDir(r)
           s == RunRoot(r)
           p == RunRoot(r) \o <<a, b>>
<1>1. d \in Seq(S) /\ Len(d) = 2 /\ d[1] = "job" /\ d[2] = r.def
  BY DEF JobDir
<1>2. s = IF r.def \in Explicit THEN d ELSE d \o <<r.started>>
  BY DEF RunRoot
<1>3. "job" \in S /\ r.def \in S /\ r.started \in S /\ a \in S /\ b \in S
  OBVIOUS
<1> HIDE DEF S, d
<1>4. /\ d \o <<r.started>> \in Seq(S) /\ Len(d \o <<r.started>>) = 3
      /\ (d \o <<r.started>>)[1] = "job" /\ (d \o <<r.started>>)[2] = r.def
      /\ (d \o <<r.started>>)[3] = r.started
  <2> DEFINE e == r.started
  <2> HIDE DEF e
  <2>1. e \in S
    BY <1>3 DEF e
  <2>2. /\ d \o <<e>> \in Seq(S) /\ Len(d \o <<e>>) = Len(d) + 1
        /\ \A i \in 1 .. Len(d) : (d \o <<e>>)[i] = d[i]
        /\ (d \o <<e>>)[Len(d) + 1] = e
    BY <1>1, <2>1, Singles
  <2>3. 1 \in 1 .. Len(d) /\ 2 \in 1 .. Len(d) /\ Len(d) + 1 = 3
    BY <1>1
  <2> QED BY <1>1, <2>2, <2>3 DEF e
<1> HIDE DEF s
<1>5. /\ s \in Seq(S) /\ Len(s) = (IF r.def \in Explicit THEN 2 ELSE 3)
      /\ s[1] = "job" /\ s[2] = r.def
      /\ r.def \notin Explicit => s[3] = r.started
  BY <1>1, <1>2, <1>4
<1>6. /\ s \o <<a, b>> \in Seq(S) /\ Len(s \o <<a, b>>) = Len(s) + 2
      /\ \A i \in 1 .. Len(s) : (s \o <<a, b>>)[i] = s[i]
      /\ (s \o <<a, b>>)[Len(s) + 1] = a /\ (s \o <<a, b>>)[Len(s) + 2] = b
  <2>1. s \in Seq(S)
    BY <1>5
  <2> QED BY <1>3, <2>1, Pairs
<1>7. p = s \o <<a, b>>
  BY DEF s
<1> HIDE DEF p
<1>8. InRun(r, p, a, b)
  BY <1>5, <1>6, <1>7 DEF InRun
<1>9. OfJob(r, p)
  BY <1>5, <1>6, <1>7 DEF OfJob
<1> QED BY <1>8, <1>9 DEF p

LEMMA ConfigPath ==
    ASSUME NEW r, NEW a
    PROVE  BesideRuns(JobDir(r) \o <<a>>, a) /\ OfJob(r, JobDir(r) \o <<a>>)
<1> DEFINE S == {"job", r.def, a}
           d == JobDir(r)
           p == JobDir(r) \o <<a>>
<1>1. d \in Seq(S) /\ Len(d) = 2 /\ d[1] = "job" /\ d[2] = r.def
  BY DEF JobDir
<1>2. a \in S /\ p = d \o <<a>>
  OBVIOUS
<1> HIDE DEF S, d, p
<1>3. /\ p \in Seq(S) /\ Len(p) = Len(d) + 1
      /\ \A i \in 1 .. Len(d) : p[i] = d[i]
      /\ p[Len(d) + 1] = a
  <2>1. /\ d \o <<a>> \in Seq(S) /\ Len(d \o <<a>>) = Len(d) + 1
        /\ \A i \in 1 .. Len(d) : (d \o <<a>>)[i] = d[i]
        /\ (d \o <<a>>)[Len(d) + 1] = a
    BY <1>1, <1>2, Singles
  <2> QED BY <1>2, <2>1
<1>4. Len(p) = 3 /\ p[1] = "job" /\ p[2] = r.def /\ p[3] = a
  BY <1>1, <1>3
<1> QED BY <1>3, <1>4 DEF BesideRuns, OfJob, p

-----------------------------------------------------------------------------
(* Writes *)

\* Write w is the i-th of run r.
IsWrite(r, i, w) ==
    LET n   == Len(Objects[r.def])
        doc == Documents[i - n]
    IN  IF i <= n
        THEN /\ w.of = Objects[r.def][i]
             /\ InRun(r, w.path, Objects[r.def][i][1], FlatName[Objects[r.def][i][2]])
        ELSE /\ w.of = <<"commit", doc>>
             /\ IF doc = "pipeline.yaml" THEN BesideRuns(w.path, doc)
                ELSE InRun(r, w.path, "archive", doc)

LEMMA WritesOf ==
    ASSUME NEW r, r.def \in Defs
    PROVE  /\ Len(Writes(r)) = Len(Objects[r.def]) + Len(Documents)
           /\ DOMAIN Writes(r) = 1 .. Len(Writes(r))
           /\ Len(Objects[r.def]) \in Nat /\ Len(Documents) \in Nat
           /\ \A i \in DOMAIN Writes(r) :
                 IsWrite(r, i, Writes(r)[i]) /\ OfJob(r, Writes(r)[i].path)
<1> DEFINE O == Objects[r.def]
           n == Len(O)
           m == Len(Documents)
           A == [i \in DOMAIN O |-> [path |-> PathFor(r, O[i][1], O[i][2]), of |-> O[i]]]
           B == [i \in DOMAIN Documents |-> [path |-> DocumentPath(r, Documents[i]),
                                             of |-> <<"commit", Documents[i]>>]]
<1>1. n \in Nat /\ DOMAIN O = 1 .. n /\ m \in Nat /\ DOMAIN Documents = 1 .. m
  BY DumpAssumption
<1>2. Writes(r) = A \o B
  BY DEF Writes
<1>3. PICK S : A \in Seq(S) /\ B \in Seq(S)
  <2> DEFINE S == {A[i] : i \in 1 .. n} \cup {B[i] : i \in 1 .. m}
  <2>1. A \in [1 .. n -> S] /\ B \in [1 .. m -> S]
    BY <1>1
  <2> HIDE DEF A, B, S, n, m
  <2>2. A \in Seq(S) /\ B \in Seq(S)
    BY <1>1, <2>1
  <2> QED BY <2>2
<1>4. Len(A) = n /\ Len(B) = m
  BY <1>1
<1>5. ASSUME NEW i \in 1 .. n PROVE IsWrite(r, i, A[i]) /\ OfJob(r, A[i].path)
  <2> DEFINE a == O[i][1]
             b == FlatName[O[i][2]]
             p == RunRoot(r) \o <<a, b>>
  <2>1. A[i].path = p /\ A[i].of = O[i]
    BY <1>1 DEF PathFor
  <2>2. InRun(r, p, a, b) /\ OfJob(r, p)
    <3> HIDE DEF a, b
    <3> QED BY RunPath
  <2> HIDE DEF p, A
  <2> QED BY <1>1, <2>1, <2>2 DEF IsWrite
<1>6. ASSUME NEW j \in 1 .. m PROVE IsWrite(r, n + j, B[j]) /\ OfJob(r, B[j].path)
  <2> DEFINE doc == Documents[j]
             p == DocumentPath(r, doc)
  <2>1. B[j].path = p /\ B[j].of = <<"commit", doc>>
    BY <1>1
  <2>2. IF doc = "pipeline.yaml" THEN BesideRuns(p, doc) ELSE InRun(r, p, "archive", doc)
    <3> HIDE DEF doc
    <3> QED BY RunPath, ConfigPath DEF DocumentPath
  <2>3. OfJob(r, p)
    <3> HIDE DEF doc
    <3> QED BY RunPath, ConfigPath DEF DocumentPath
  <2>4. ~(n + j <= n) /\ (n + j) - n = j
    BY <1>1
  <2> HIDE DEF p, B, doc, n
  <2>5. Documents[(n + j) - n] = doc
    BY <2>4 DEF doc
  <2> QED BY <2>1, <2>2, <2>3, <2>4, <2>5 DEF IsWrite, n
<1> HIDE DEF A, B
<1>7. /\ Len(A \o B) = n + m /\ A \o B \in Seq(S)
      /\ \A i \in 1 .. n + m : (A \o B)[i] = IF i <= n THEN A[i] ELSE B[i - n]
  <2> HIDE DEF n, m
  <2> QED BY <1>3, <1>4, ConcatProperties
<1>8. ASSUME NEW i \in 1 .. n + m
      PROVE  IsWrite(r, i, Writes(r)[i]) /\ OfJob(r, Writes(r)[i].path)
  <2>1. CASE i <= n
    BY <1>1, <1>2, <1>5, <1>7, <2>1
  <2>2. CASE i > n
    <3>1. i - n \in 1 .. m /\ n + (i - n) = i
      BY <1>1, <2>2
    <3>2. IsWrite(r, n + (i - n), B[i - n]) /\ OfJob(r, B[i - n].path)
      BY <1>6, <3>1
    <3>3. Writes(r)[i] = B[i - n]
      BY <1>1, <1>2, <1>7, <2>2
    <3> QED BY <3>1, <3>2, <3>3
  <2> QED BY <1>1, <2>1, <2>2
<1>9. DOMAIN (A \o B) = 1 .. n + m
  BY <1>7
<1> QED BY <1>1, <1>2, <1>7, <1>8, <1>9

\* Two runs of a definition with a target, or of one definition in one second,
\* write the same.
LEMMA SameWrites ==
    ASSUME NEW r, NEW q, r.def = q.def, r.def \in Explicit \/ r.started = q.started
    PROVE  Writes(r) = Writes(q)
<1>1. JobDir(r) = JobDir(q) /\ RunRoot(r) = RunRoot(q)
  BY DEF JobDir, RunRoot
<1> QED BY <1>1 DEF Writes, PathFor, DocumentPath

\* No two writes of an attempt go to one path.
LEMMA PathsDiffer ==
    ASSUME NamesApart, NEW r, r.def \in Defs,
           NEW i \in DOMAIN Writes(r), NEW j \in DOMAIN Writes(r),
           Writes(r)[i].path = Writes(r)[j].path
    PROVE  i = j
<1> DEFINE O == Objects[r.def]
           n == Len(O)
           p == Writes(r)[i].path
<1>1. /\ n \in Nat /\ DOMAIN O = 1 .. n
      /\ Len(Documents) \in Nat /\ DOMAIN Documents = 1 .. Len(Documents)
      /\ i \in 1 .. n + Len(Documents) /\ j \in 1 .. n + Len(Documents)
  BY WritesOf, DumpAssumption
<1>2. IsWrite(r, i, Writes(r)[i]) /\ IsWrite(r, j, Writes(r)[j])
  BY WritesOf
<1>3. CASE i <= n /\ j <= n
  <2>1. p[Len(p) - 1] = O[i][1] /\ p[Len(p)] = FlatName[O[i][2]]
    BY <1>2, <1>3 DEF IsWrite, InRun
  <2>2. p[Len(p) - 1] = O[j][1] /\ p[Len(p)] = FlatName[O[j][2]]
    BY <1>2, <1>3 DEF IsWrite, InRun
  <2>3. i \in DOMAIN O /\ j \in DOMAIN O
    BY <1>1, <1>3
  <2> QED BY <2>1, <2>2, <2>3 DEF NamesApart
<1>4. ASSUME NEW k \in DOMAIN Writes(r), NEW l \in DOMAIN Writes(r), k <= n, ~(l <= n),
             Writes(r)[k].path = Writes(r)[l].path
      PROVE  FALSE
  <2> DEFINE doc == Documents[l - n]
             q == Writes(r)[k].path
  <2>1. IsWrite(r, k, Writes(r)[k]) /\ IsWrite(r, l, Writes(r)[l])
    BY WritesOf
  <2>2. InRun(r, q, O[k][1], FlatName[O[k][2]])
    BY <1>4, <2>1 DEF IsWrite
  <2>3. IF doc = "pipeline.yaml" THEN BesideRuns(q, doc) ELSE InRun(r, q, "archive", doc)
    BY <1>4, <2>1 DEF IsWrite
  <2>4. O[k][1] = "archive" /\ FlatName[O[k][2]] = doc
    BY <2>2, <2>3 DEF InRun, BesideRuns
  <2>5. k \in DOMAIN O /\ l - n \in DOMAIN Documents
    <3>1. k \in 1 .. n + Len(Documents) /\ l \in 1 .. n + Len(Documents)
      BY WritesOf
    <3> HIDE DEF n, O
    <3> QED BY <1>1, <1>4, <3>1
  <2>6. doc \in Range(Documents)
    BY <2>5 DEF Range
  <2> QED BY <2>4, <2>5, <2>6 DEF NamesApart
<1>5. CASE ~(i <= n) /\ ~(j <= n)
  <2> DEFINE c == Documents[i - n]
             d == Documents[j - n]
  <2>1. IF c = "pipeline.yaml" THEN BesideRuns(p, c) ELSE InRun(r, p, "archive", c)
    BY <1>2, <1>5 DEF IsWrite
  <2>2. IF d = "pipeline.yaml" THEN BesideRuns(p, d) ELSE InRun(r, p, "archive", d)
    BY <1>2, <1>5 DEF IsWrite
  <2>3. c = d
    BY <2>1, <2>2 DEF InRun, BesideRuns
  <2>4. i - n \in DOMAIN Documents /\ j - n \in DOMAIN Documents
    <3> HIDE DEF n, O
    <3> QED BY <1>1, <1>5
  <2>5. i - n = j - n
    BY <2>3, <2>4, DumpAssumption
  <2> QED BY <1>1, <2>5
<1> QED BY <1>3, <1>4, <1>5

-----------------------------------------------------------------------------
(* The invariant *)

LEMMA InitInv == Init => IInv /\ InHand
<1> SUFFICES ASSUME Init PROVE IInv /\ InHand
  OBVIOUS
<1>1. DOMAIN tree = {}
  BY EmptyDomain DEF Init
<1> QED BY <1>1 DEF Init, IInv, Shape, Opened, InHand, Traced

\* The attempt under way, unfolded.
LEMMA RunFacts ==
    ASSUME IInv, run # NoRun
    PROVE  /\ run \in Attempts /\ run.def \in Defs
           /\ run.next \in 1 .. Len(Writes(run)) + 1
           /\ Len(Writes(run)) \in Nat /\ DOMAIN Writes(run) = 1 .. Len(Writes(run))
BY WritesOf DEF IInv, Shape, Attempts

\* What the attempt has still to do goes over none of its finished writes.
LEMMA StandsStill ==
    ASSUME NamesApart, IInv, run # NoRun, run.next \in DOMAIN Writes(run),
           NEW a, NEW w, \E i \in 1 .. run.next - 1 : w = Writes(run)[i], Stands(w, a),
           DOMAIN tree \subseteq DOMAIN tree',
           \A p \in DOMAIN tree : p # Current.path => tree'[p] = tree[p]
    PROVE  Stands(w, a)'
<1>1. PICK i \in 1 .. run.next - 1 : w = Writes(run)[i]
  OBVIOUS
<1>2. i \in DOMAIN Writes(run) /\ i # run.next
  BY RunFacts
<1>3. Writes(run)[i].path # Writes(run)[run.next].path
  BY <1>2, PathsDiffer, RunFacts
<1>4. w.path \in DOMAIN tree /\ w.path # Current.path
  BY <1>1, <1>3 DEF Stands, Current
<1>5. w.path \in DOMAIN tree' /\ tree'[w.path] = tree[w.path]
  BY <1>4
<1> QED BY <1>5 DEF Stands

\* An attempt that goes on writes what it was to write.
LEMMA SameRun ==
    ASSUME run'.def = run.def, run'.started = run.started
    PROVE  Writes(run)' = Writes(run)
BY SameWrites

\* Opening or closing the file at hand leaves everything before it.
LEMMA EarlierWrites ==
    ASSUME NamesApart, IInv, InHand, run # NoRun, run.next \in DOMAIN Writes(run),
           run'.def = run.def, run'.started = run.started,
           run'.attempt = run.attempt, run'.failed = run.failed,
           DOMAIN tree \subseteq DOMAIN tree',
           \A p \in DOMAIN tree : p # Current.path => tree'[p] = tree[p]
    PROVE  /\ ~run'.failed => \A i \in 1 .. run.next - 1 : Stands(Writes(run)[i], run.attempt)'
           /\ \A h \in handles : Stands(h, run.attempt)'
<1>1. ASSUME NEW w, \E i \in 1 .. run.next - 1 : w = Writes(run)[i], Stands(w, run.attempt)
      PROVE  Stands(w, run.attempt)'
  <2>1. Stands(w, run'.attempt)
    BY <1>1
  <2> QED BY <1>1, <2>1, StandsStill
<1>2. ASSUME ~run'.failed, NEW i \in 1 .. run.next - 1
      PROVE  Stands(Writes(run)[i], run.attempt)'
  <2> DEFINE w == Writes(run)[i]
  <2>1. Stands(w, run.attempt) /\ \E j \in 1 .. run.next - 1 : w = Writes(run)[j]
    BY <1>2 DEF InHand
  <2>2. w' = w
    BY SameRun
  <2> HIDE DEF w
  <2>3. \A x : x = w => (\E j \in 1 .. run.next - 1 : x = Writes(run)[j]) /\ Stands(x, run.attempt)
    BY <2>1
  <2>4. \A x : x = w => Stands(x, run.attempt)'
    BY <1>1, <2>3
  <2> QED BY <2>2, <2>4 DEF w, Stands
<1>3. ASSUME NEW h \in handles PROVE Stands(h, run.attempt)'
  <2>1. (\E i \in 1 .. run.next - 1 : h = Writes(run)[i]) /\ Stands(h, run.attempt)
    BY DEF InHand
  <2> QED BY <1>1, <2>1
<1> QED BY <1>2, <1>3

LEMMA OpenFileInv ==
    ASSUME IInv, OpenFile
    PROVE  IInv' /\ (NamesApart /\ InHand => InHand')
<1> DEFINE p == Current.path
           n == Len(Writes(run))
<1>1. /\ run # NoRun /\ run.next <= n /\ ~run.open /\ handles' = handles
      /\ run' = [run EXCEPT !.open = TRUE]
      /\ tree' = Override(tree, [q \in {p} |-> [def |-> Source(Current), attempt |-> run.attempt,
                                               of |-> Current.of, whole |-> FALSE]])
      /\ yaml' = yaml /\ clock' = clock /\ attempts' = attempts /\ finished' = finished
  BY DEF OpenFile
<1>2. /\ run' \in Attempts /\ run'.def = run.def /\ run'.started = run.started
      /\ run'.attempt = run.attempt /\ run'.next = run.next /\ run'.open /\ run'.failed = run.failed
  BY <1>1, RunFacts DEF Attempts
<1>3. Writes(run)' = Writes(run) /\ Current' = Current
  BY <1>2, SameRun DEF Current
<1>4. /\ DOMAIN tree' = DOMAIN tree \cup {p}
      /\ tree'[p] = [def |-> Source(Current), attempt |-> run.attempt, of |-> Current.of,
                     whole |-> FALSE]
      /\ \A q \in DOMAIN tree : q # p => tree'[q] = tree[q]
  <2> DEFINE left == [def |-> Source(Current), attempt |-> run.attempt,
                     of |-> Current.of, whole |-> FALSE]
             e == [q \in {p} |-> left]
  <2>1. DOMAIN e = {p} /\ e[p] = left /\ tree' = Override(tree, e)
    BY <1>1
  <2> HIDE DEF e, left, p
  <2>2. DOMAIN tree' = DOMAIN tree \cup {p} /\ tree'[p] = left
        /\ \A q \in DOMAIN tree : q # p => tree'[q] = tree[q]
    BY <2>1, OverrideDomain, OverrideValue
  <2> QED BY <2>2 DEF left
<1>5. run.next \in DOMAIN Writes(run)
  BY <1>1, RunFacts
<1>6. Shape'
  <2>1. \A q \in DOMAIN tree' : DOMAIN tree'[q] = {"def", "attempt", "of", "whole"}
    BY <1>4 DEF IInv, Shape
  <2>2. run' # NoRun
    BY <1>2, DumpAssumption DEF Attempts
  <2> QED BY <1>1, <1>2, <1>3, <1>5, <2>1, <2>2, RunFacts DEF IInv, Shape
<1>7. Opened'
  BY <1>2, <1>3, <1>4 DEF Opened
<1>8. ASSUME NamesApart, InHand PROVE InHand'
  <2>1. \A q \in DOMAIN tree : q # Current.path => tree'[q] = tree[q]
    BY <1>4
  <2>2. /\ ~run'.failed => \A i \in 1 .. run'.next - 1 : Stands(Writes(run)[i], run.attempt)'
        /\ \A h \in handles' : Stands(h, run.attempt)'
    BY <1>1, <1>2, <1>4, <1>5, <1>8, <2>1, EarlierWrites
  <2>3. \A h \in handles' : \E i \in 1 .. run'.next - 1 : h = Writes(run)'[i]
    BY <1>1, <1>2, <1>3, <1>8 DEF InHand
  <2> QED BY <1>2, <2>2, <2>3 DEF InHand
<1>9. Traced'
  <2>1. \E q \in Attempts : \E i \in DOMAIN Writes(q) : p = Writes(q)[i].path
    BY <1>1, <1>5, RunFacts DEF Current
  <2> QED BY <1>4, <2>1 DEF IInv, Traced
<1> QED BY <1>6, <1>7, <1>8, <1>9 DEF IInv

LEMMA CloseFileInv ==
    ASSUME IInv, CloseFile
    PROVE  IInv' /\ (NamesApart /\ InHand => InHand')
<1> DEFINE p == Current.path
           n == Len(Writes(run))
<1>1. /\ run # NoRun /\ run.open
      /\ run' = [run EXCEPT !.next = @ + 1, !.open = FALSE]
      /\ tree' = [tree EXCEPT ![p].whole = TRUE]
      /\ handles' = IF Committing THEN handles ELSE handles \cup {Current}
      /\ yaml' = yaml /\ clock' = clock /\ attempts' = attempts /\ finished' = finished
  BY DEF CloseFile
<1>2. /\ run.next \in DOMAIN Writes(run) /\ run.next \in Nat
      /\ p \in DOMAIN tree /\ tree[p].attempt = run.attempt /\ tree[p].of = Current.of
      /\ DOMAIN tree[p] = {"def", "attempt", "of", "whole"}
  BY <1>1, RunFacts DEF IInv, Shape, Opened
<1>3. /\ run' \in Attempts /\ run'.def = run.def /\ run'.started = run.started
      /\ run'.attempt = run.attempt /\ run'.next = run.next + 1 /\ ~run'.open
      /\ run'.failed = run.failed
  <2>1. run \in Attempts /\ run.next + 1 \in Nat
    BY <1>1, <1>2, RunFacts
  <2>2. run' = [[run EXCEPT !.next = run.next + 1] EXCEPT !.open = FALSE]
    BY <1>1, <2>1 DEF Attempts
  <2> QED BY <2>1, <2>2 DEF Attempts
<1>4. Writes(run)' = Writes(run)
  BY <1>3, SameRun
<1>5. /\ DOMAIN tree' = DOMAIN tree /\ DOMAIN tree'[p] = {"def", "attempt", "of", "whole"}
      /\ tree'[p].whole /\ tree'[p].attempt = run.attempt /\ tree'[p].of = Current.of
      /\ \A q \in DOMAIN tree : q # p => tree'[q] = tree[q]
  <2> HIDE DEF p
  <2>1. tree'[p] = [tree[p] EXCEPT !.whole = TRUE]
    BY <1>1, <1>2
  <2> QED BY <1>1, <1>2, <2>1
<1>6. Shape'
  <2>1. \A q \in DOMAIN tree' : DOMAIN tree'[q] = {"def", "attempt", "of", "whole"}
    BY <1>5 DEF IInv, Shape
  <2>2. run' # NoRun
    BY <1>3, DumpAssumption DEF Attempts
  <2>3. run'.next \in 1 .. Len(Writes(run)') + 1
    BY <1>2, <1>3, <1>4, RunFacts, <1>1
  <2> QED BY <1>1, <1>3, <2>1, <2>2, <2>3 DEF IInv, Shape
<1>7. Opened'
  BY <1>3 DEF Opened
<1>8. ASSUME NamesApart, InHand PROVE InHand'
  <2>1. \A q \in DOMAIN tree : q # Current.path => tree'[q] = tree[q]
    BY <1>5
  <2>2. /\ ~run'.failed => \A i \in 1 .. run.next - 1 : Stands(Writes(run)[i], run.attempt)'
        /\ \A h \in handles : Stands(h, run.attempt)'
    BY <1>1, <1>2, <1>3, <1>5, <1>8, <2>1, EarlierWrites
  <2>3. \A w : w = Writes(run)[run.next] => Stands(w, run.attempt)'
    BY <1>2, <1>3, <1>5 DEF Stands, Current
  <2>4. ASSUME ~run'.failed, NEW i \in 1 .. run'.next - 1
        PROVE  Stands(Writes(run)[i], run.attempt)'
    <3>1. CASE i = run.next
      BY <1>4, <2>3, <3>1 DEF Stands
    <3>2. CASE i # run.next
      BY <1>2, <1>3, <2>2, <2>4, <3>2
    <3> QED BY <3>1, <3>2
  <2>5. ASSUME NEW h \in handles'
        PROVE  (\E i \in 1 .. run'.next - 1 : h = Writes(run)'[i]) /\ Stands(h, run.attempt)'
    <3>1. CASE h \in handles
      <4>1. PICK i \in 1 .. run.next - 1 : h = Writes(run)[i]
        BY <1>1, <1>8, <3>1 DEF InHand
      <4>2. i \in 1 .. run'.next - 1
        BY <1>2, <1>3
      <4> QED BY <1>4, <2>2, <3>1, <4>1, <4>2
    <3>2. CASE h = Current
      <4>1. run.next \in 1 .. run'.next - 1
        BY <1>2, <1>3, RunFacts, <1>1
      <4> QED BY <1>4, <2>3, <3>2, <4>1 DEF Current
    <3> QED BY <1>1, <3>1, <3>2
  <2> QED BY <1>3, <2>4, <2>5 DEF InHand
<1>9. Traced'
  BY <1>5 DEF IInv, Traced
<1> QED BY <1>6, <1>7, <1>8, <1>9 DEF IInv

\* A node that fails keeps none of its handles, a sample that fails has none;
\* another write comes next.
LEMMA WriteFailsInv == ASSUME IInv, WriteFails PROVE IInv' /\ (InHand => InHand')
<1> DEFINE n == Len(Writes(run))
<1>1. /\ run # NoRun /\ run.open /\ tree' = tree
      /\ yaml' = yaml /\ clock' = clock /\ attempts' = attempts /\ finished' = finished
  BY DEF WriteFails
<1>2. CASE Committing
  BY <1>1, <1>2 DEF WriteFails, IInv, Shape, Opened, InHand, Traced
<1>3. CASE ~Committing
  <2>0. NextNode \in run.next + 1 .. n + 1
    <3> DEFINE I == {i \in run.next + 1 .. n + 1 :
                        i = n + 1 \/ Writes(run)[i].of[1] # Current.of[1]}
    <3>1. run.next \in 1 .. n /\ n \in Nat
      BY <1>1, RunFacts DEF IInv, Shape
    <3>2. n + 1 \in I /\ I \subseteq Nat
      BY <3>1
    <3>3. NextNode = Min(I)
      BY DEF NextNode
    <3> HIDE DEF I
    <3>4. \E i \in I : \A j \in I : i <= j
      BY <3>2, LeastPosition
    <3>5. Min(I) \in I
      BY <3>4 DEF Min
    <3> QED BY <3>3, <3>5 DEF I
  <2>1. PICK next \in run.next + 1 .. n + 1 :
           run' = [run EXCEPT !.next = next, !.open = FALSE, !.failed = TRUE]
    <3>1. run.next + 1 \in run.next + 1 .. n + 1
      BY <1>1, RunFacts DEF IInv, Shape
    <3> QED BY <1>3, <2>0, <3>1 DEF WriteFails
  <2>2. handles' \subseteq handles
    BY <1>3 DEF WriteFails
  <2>3. /\ run' \in Attempts /\ run'.def = run.def /\ run'.started = run.started
        /\ run'.attempt = run.attempt /\ run'.next = next /\ ~run'.open /\ run'.failed
    <3>1. run \in Attempts /\ next \in Nat
      BY <1>1, <2>1, RunFacts
    <3> QED BY <2>1, <3>1 DEF Attempts
  <2>4. Writes(run)' = Writes(run)
    BY <2>3, SameRun
  <2>5. Shape'
    <3>1. run' # NoRun
      BY <2>3, DumpAssumption DEF Attempts
    <3>2. run'.next \in 1 .. n + 1
      BY <1>1, <2>1, <2>3, RunFacts
    <3> QED BY <1>1, <2>3, <2>4, <3>1, <3>2 DEF IInv, Shape
  <2>6. ASSUME InHand, NEW h \in handles'
        PROVE  (\E i \in 1 .. run'.next - 1 : h = Writes(run)'[i]) /\ Stands(h, run.attempt)'
    <3>1. (\E i \in 1 .. run.next - 1 : h = Writes(run)[i]) /\ Stands(h, run.attempt)
      BY <1>1, <2>2, <2>6 DEF InHand
    <3>2. PICK i \in 1 .. run.next - 1 : h = Writes(run)[i]
      BY <3>1
    <3>3. i \in 1 .. run'.next - 1
      BY <1>1, <2>1, <2>3, RunFacts
    <3> QED BY <1>1, <2>3, <2>4, <3>1, <3>2, <3>3 DEF Stands
  <2>7. ASSUME InHand PROVE InHand'
    BY <2>3, <2>6, <2>7 DEF InHand
  <2>8. Traced' /\ Opened'
    BY <1>1, <2>3 DEF IInv, Traced, Opened
  <2> QED BY <2>5, <2>7, <2>8 DEF IInv
<1> QED BY <1>2, <1>3

LEMMA LaunchInv == ASSUME IInv, Launch PROVE IInv' /\ InHand'
<1>1. /\ run' = [def |-> yaml, started |-> clock, attempt |-> attempts + 1, next |-> 1,
                 open |-> FALSE, failed |-> FALSE]
      /\ handles' = {} /\ tree' = tree /\ attempts' = attempts + 1
      /\ yaml' = yaml /\ clock' = clock /\ finished' = finished
  BY DEF Launch
<1>2. /\ run' \in Attempts /\ run'.next = 1 /\ ~run'.open /\ run'.def \in Defs
      /\ attempts + 1 \in Nat
  BY <1>1 DEF IInv, Shape, Attempts
<1>3. Len(Writes(run)') \in Nat
  <2> DEFINE r == run'
  <2>1. r.def \in Defs
    BY <1>2
  <2> HIDE DEF r
  <2>2. Len(Writes(r)) \in Nat
    BY <2>1, WritesOf
  <2> QED BY <2>2 DEF r
<1>4. Shape'
  BY <1>1, <1>2, <1>3 DEF IInv, Shape
<1> QED BY <1>1, <1>2, <1>4 DEF IInv, Opened, InHand, Traced

\* Only the YAML changes, or nothing.
LEMMA StillInv ==
    ASSUME IInv, yaml' \in Defs, UNCHANGED <<clock, tree, run, handles, finished, attempts>>
    PROVE  IInv' /\ (InHand => InHand')
<1>1. Writes(run)' = Writes(run) /\ Current' = Current
  BY SameRun DEF Current
<1>2. Shape' /\ Opened'
  BY <1>1 DEF IInv, Shape, Opened
<1>3. InHand => InHand'
  BY <1>1 DEF InHand, Stands
<1>4. Traced'
  BY DEF IInv, Traced
<1> QED BY <1>2, <1>3, <1>4 DEF IInv

\* The attempt is over.
LEMMA OverInv ==
    ASSUME IInv, run' = NoRun, handles' = {}, tree' = tree, finished' \subseteq Attempts,
           UNCHANGED <<yaml, clock, attempts>>
    PROVE  IInv' /\ InHand'
BY DEF IInv, Shape, Opened, InHand, Traced

LEMMA StepInv == IInv /\ [Next]_vars => IInv' /\ (NamesApart /\ InHand => InHand')
<1> SUFFICES ASSUME IInv, [Next]_vars PROVE IInv' /\ (NamesApart /\ InHand => InHand')
  OBVIOUS
<1>1. CASE Finish
  BY <1>1, OverInv DEF Finish, IInv, Shape
<1>2. CASE Killed
  BY <1>2, OverInv DEF Killed, IInv, Shape
<1>3. CASE Tick
  <2>1. /\ run = NoRun /\ run' = NoRun /\ clock' = clock + 1
        /\ UNCHANGED <<yaml, tree, handles, finished, attempts>>
    BY <1>3 DEF Tick
  <2> QED BY <2>1 DEF IInv, Shape, Opened, InHand, Traced
<1>4. CASE \E d \in Defs : Edit(d)
  BY <1>4, StillInv DEF Edit
<1>5. CASE UNCHANGED vars
  BY <1>5, StillInv DEF vars, IInv, Shape
<1> QED BY <1>1, <1>2, <1>3, <1>4, <1>5, LaunchInv, OpenFileInv, CloseFileInv, WriteFailsInv
        DEF Next

LEMMA Inductive == Spec => []IInv
BY InitInv, StepInv, PTL DEF Spec

LEMMA WritesStand == ASSUME NamesApart PROVE Spec => []InHand
BY Inductive, InitInv, StepInv, PTL DEF Spec

-----------------------------------------------------------------------------
\* archiver.py 11-13: a handle names a whole file, of the object it replaced,
\* written by this attempt, whatever else failed, as long as no two objects of
\* the attempt have one path.
THEOREM HandlesAreGood ==
    ASSUME NamesApart
    PROVE  Spec => []HandlesReadBack
<1>1. IInv /\ InHand => HandlesReadBack
  BY DEF IInv, Shape, InHand, Stands, HandlesReadBack
<1> QED BY <1>1, Inductive, WritesStand, PTL

\* Only opening and closing a file touches the tree, and only at its path.
LEMMA TouchesCurrent ==
    ASSUME IInv, [Next]_vars, NEW p \in DOMAIN tree, tree'[p] # tree[p]
    PROVE  run # NoRun /\ run.next \in DOMAIN Writes(run) /\ p = Current.path
<1>1. CASE OpenFile
  <2> DEFINE e == [q \in {Current.path} |-> [def |-> Source(Current), attempt |-> run.attempt,
                                           of |-> Current.of, whole |-> FALSE]]
  <2>1. tree' = Override(tree, e) /\ DOMAIN e = {Current.path}
    BY <1>1 DEF OpenFile
  <2> HIDE DEF e
  <2>2. p \in DOMAIN e
    BY <2>1, OverrideValue
  <2> QED BY <1>1, <2>1, <2>2, RunFacts DEF OpenFile
<1>2. CASE CloseFile
  BY <1>2 DEF CloseFile, IInv, Shape
<1>3. CASE ~(OpenFile \/ CloseFile)
  BY <1>3 DEF Next, vars, Launch, WriteFails, Finish, Killed, Tick, Edit
<1> QED BY <1>1, <1>2, <1>3

\* _dump.py 50-55 and 78-81: what a finished run wrote, an attempt of another
\* definition never touches, nor, under the dated default, one of another
\* second.
THEOREM EvidenceIsKept == Spec => EvidenceStands
<1>1. ASSUME IInv, [Next]_vars, NEW r \in finished, NEW p \in PathsOf(r) \cap DOMAIN tree,
             tree'[p] # tree[p]
      PROVE  run.def = r.def /\ (r.def \notin Explicit => run.started = r.started)
  <2>1. run # NoRun /\ run.next \in DOMAIN Writes(run) /\ p = Current.path
    BY <1>1, TouchesCurrent
  <2>2. run.def \in Defs /\ r.def \in Defs
    BY <1>1, <2>1, RunFacts DEF IInv, Shape, Attempts
  <2>3. PICK w \in Range(Writes(r)) : w.of[2] # "pipeline.yaml" /\ p = w.path
    BY DEF PathsOf
  <2>4. PICK i \in DOMAIN Writes(r) : w = Writes(r)[i]
    BY <2>3 DEF Range
  <2>5. OfJob(r, p) /\ OfJob(run, p)
    BY <2>1, <2>2, <2>3, <2>4, WritesOf DEF Current
  <2>6. run.def = r.def
    BY <2>5 DEF OfJob
  <2>7. ASSUME r.def \notin Explicit PROVE run.started = r.started
    <3>1. Len(p) = 5 /\ p[3] = r.started
      <4>1. IsWrite(r, i, w)
        BY <2>2, <2>4, WritesOf
      <4> QED BY <2>3, <2>7, <4>1 DEF IsWrite, InRun
    <3>2. IsWrite(run, run.next, Current)
      BY <2>1, <2>2, WritesOf DEF Current
    <3> QED BY <2>1, <2>6, <2>7, <3>1, <3>2 DEF IsWrite, InRun, BesideRuns
  <2> QED BY <2>6, <2>7
<1>2. IInv /\ [Next]_vars =>
        [\A r \in finished : \A p \in PathsOf(r) \cap DOMAIN tree : tree'[p] # tree[p] =>
            /\ run.def = r.def
            /\ r.def \notin Explicit => run.started = r.started]_vars
  BY <1>1
<1> QED BY <1>2, Inductive, PTL DEF Spec, EvidenceStands

\* A path is below a job's directory when it begins as the directory does.
LEMMA JobPrefix ==
    ASSUME NEW r, NEW S, NEW p \in Seq(S), Len(p) >= 3
    PROVE  IsPrefix(JobDir(r), p) <=> p[1] = "job" /\ p[2] = r.def
<1> DEFINE d == JobDir(r)
           T == {"job", r.def}
<1>1. d \in Seq(T) /\ Len(d) = 2 /\ d[1] = "job" /\ d[2] = r.def
  BY DEF JobDir
<1> HIDE DEF d, T
<1>2. /\ Len(SubSeq(d, 1, 2)) = 2
      /\ \A i \in 1 .. 2 : SubSeq(d, 1, 2)[i] = d[i]
  BY <1>1
<1>3. /\ Len(SubSeq(p, 1, 2)) = 2
      /\ \A i \in 1 .. 2 : SubSeq(p, 1, 2)[i] = p[i]
  OBVIOUS
<1>4. SubSeq(d, 1, 2) = SubSeq(p, 1, 2) <=> d[1] = p[1] /\ d[2] = p[2]
  <2>1. /\ SubSeq(d, 1, 2) = [i \in 1 .. 2 |-> d[i]]
        /\ SubSeq(p, 1, 2) = [i \in 1 .. 2 |-> p[i]]
    BY <1>1
  <2> QED BY <2>1
<1>5. IsPrefix(d, p) <=> SubSeq(d, 1, 2) = SubSeq(p, 1, 2)
  BY <1>1 DEF IsPrefix
<1> QED BY <1>1, <1>4, <1>5 DEF d

\* _dump.py 5-7: an attempt that ends well has written everything, whatever the
\* ones before it left, and its definition's directory holds that alone.
THEOREM RetriesHeal ==
    ASSUME NamesApart
    PROVE  Spec => RetryHeals
<1>1. ASSUME IInv, InHand, [Next]_vars, NEW r \in finished' \ finished, ~r.failed
      PROVE  /\ \A w \in Range(Writes(r)) : Stands(w, r.attempt)
             /\ r.def \in Explicit =>
                  {p \in DOMAIN tree : IsPrefix(JobDir(r), p)} = {w.path : w \in Range(Writes(r))}
  <2>1. Finish /\ r = run /\ run # NoRun
    BY <1>1 DEF Next, vars, Launch, OpenFile, CloseFile, WriteFails, Finish, Killed, Tick, Edit
  <2>2. /\ r.next = Len(Writes(r)) + 1 /\ r.def \in Defs
        /\ Len(Writes(r)) \in Nat /\ DOMAIN Writes(r) = 1 .. Len(Writes(r))
    BY <1>1, <2>1, RunFacts DEF Finish
  <2>3. ASSUME NEW w \in Range(Writes(r)) PROVE Stands(w, r.attempt)
    <3>1. PICK i \in DOMAIN Writes(r) : w = Writes(r)[i]
      BY DEF Range
    <3>2. i \in 1 .. run.next - 1
      BY <2>1, <2>2
    <3> QED BY <1>1, <2>1, <3>1, <3>2 DEF InHand
  <2>4. ASSUME r.def \in Explicit, NEW p \in DOMAIN tree, IsPrefix(JobDir(r), p)
        PROVE  \E w \in Range(Writes(r)) : p = w.path
    <3>1. PICK q \in Attempts : \E i \in DOMAIN Writes(q) : p = Writes(q)[i].path
      BY <1>1 DEF IInv, Traced
    <3>2. PICK i \in DOMAIN Writes(q) : p = Writes(q)[i].path
      BY <3>1
    <3>3. q.def \in Defs
      BY DEF Attempts
    <3>4. OfJob(q, p)
      BY <3>2, <3>3, WritesOf
    <3>5. q.def = r.def
      BY <2>4, <3>4, JobPrefix DEF OfJob
    <3>6. Writes(q) = Writes(r)
      BY <2>4, <3>5, SameWrites
    <3> QED BY <3>2, <3>6 DEF Range
  <2>5. ASSUME NEW w \in Range(Writes(r))
        PROVE  w.path \in DOMAIN tree /\ IsPrefix(JobDir(r), w.path)
    <3>1. OfJob(r, w.path)
      BY <2>2, WritesOf DEF Range
    <3> QED BY <2>3, <3>1, JobPrefix DEF OfJob, Stands
  <2> QED BY <2>3, <2>4, <2>5
<1>2. IInv /\ InHand /\ [Next]_vars =>
        [\A r \in finished' \ finished : ~r.failed =>
          /\ \A w \in Range(Writes(r)) :
                /\ tree[w.path].whole /\ tree[w.path].attempt = r.attempt
                /\ tree[w.path].of = w.of
          /\ r.def \in Explicit =>
                {p \in DOMAIN tree : IsPrefix(JobDir(r), p)} = {w.path : w \in Range(Writes(r))}]_vars
  BY <1>1 DEF Stands
<1> QED BY <1>2, Inductive, WritesStand, PTL DEF Spec, RetryHeals
=============================================================================
