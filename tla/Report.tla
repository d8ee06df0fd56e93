------------------------------- MODULE Report -------------------------------
(***************************************************************************)
(* The report of report.py: per-sample checks with an aggregate status,    *)
(* and per-node summaries.                                                 *)
(*                                                                         *)
(*   check    <<sample, node, name>> -> status, the check "node/name" of   *)
(*            one sample (measurements, thresholds and details left out)   *)
(*   status   sample -> status, the entry's cached aggregate               *)
(*   summary  the pairs <<node, field>> some summary holds                 *)
(*                                                                         *)
(* A ReportExt is what one node contributes:                               *)
(*   checks   <<sample, name>> -> status       summary   a set of fields   *)
(***************************************************************************)
EXTENDS FiniteSets, Maps, Sequences

Statuses == {"pass", "warn", "fail", "error"}

Rank == [s \in Statuses |-> CASE s = "pass" -> 0 [] s = "warn" -> 1
                              [] s = "fail" -> 2 [] s = "error" -> 3]

\* worst(statuses): error > fail > warn > pass, and pass when there is none.
Worst(S) == CHOOSE s \in S \cup {"pass"} :
                \A t \in S \cup {"pass"} : Rank[t] <= Rank[s]

EmptyReport == [check |-> EmptyMap, status |-> EmptyMap, summary |-> {}]

EmptyExt == [checks |-> EmptyMap, summary |-> {}]

\* The statuses of one sample's checks in a check map.
ChecksOf(check, sid) == {check[k] : k \in {k \in DOMAIN check : k[1] = sid}}

\* The samples a check map is about.
SamplesOf(check) == {k[1] : k \in DOMAIN check}

\* The cached statuses of a report are what aggregating its checks gives.
Fresh(r) == r.status = [s \in SamplesOf(r.check) |-> Worst(ChecksOf(r.check, s))]

-----------------------------------------------------------------------------
(* Writes *)

\* The samples a ReportExt judges.
Judged(ext) == {k[1] : k \in DOMAIN ext.checks}

\* A ReportExt under its node's namespace.
Namespaced(node, ext) ==
    LET keys == {<<k[1], node, k[2]>> : k \in DOMAIN ext.checks}
    IN  [k \in keys |-> ext.checks[<<k[1], k[3]>>]]

\* apply(node, ext): fold one node's fragment in and re-aggregate the samples
\* it touches.
Apply(r, node, ext) ==
    LET check == Override(r.check, Namespaced(node, ext))
    IN  [check   |-> check,
         status  |-> Override(r.status,
                       [s \in Judged(ext) |-> Worst(ChecksOf(check, s))]),
         summary |-> r.summary \cup {<<node, f>> : f \in ext.summary}]

MergesLastStatus(r, o) ==    \* bug: an updated entry takes the other's aggregate
    [check   |-> Override(r.check, o.check),
     status  |-> Override(r.status, o.status),
     summary |-> r.summary \cup o.summary]

MergesNewOnly(r, o) ==    \* bug: an entry that is there is not updated
    LET fresh == {k \in DOMAIN o.check : k[1] \notin DOMAIN r.status}
    IN  [check   |-> Override(r.check, Restrict(o.check, fresh)),
         status  |-> Override(o.status, r.status),
         summary |-> r.summary \cup o.summary]

\* merge(other): an entry this report does not have is copied with its
\* status, one it has is updated and re-aggregated.
Merge(r, o) ==
    LET check == Override(r.check, o.check)
        fresh == DOMAIN o.status \ DOMAIN r.status
    IN  [check   |-> check,
         status  |-> [s \in DOMAIN r.status \cup DOMAIN o.status |->
                        IF s \in fresh THEN o.status[s]
                        ELSE IF s \in DOMAIN o.status THEN Worst(ChecksOf(check, s))
                        ELSE r.status[s]],
         summary |-> r.summary \cup o.summary]

-----------------------------------------------------------------------------
(* The fold of Merge over a sequence of reports, in closed form.  Module   *)
(* Joins runs the code's loop and checks that it computes this.            *)

\* Of the reports of rs that hold key k of the given part, the last one.
LastWith(rs, Holds(_)) ==
    CHOOSE i \in DOMAIN rs : Holds(rs[i]) /\ \A j \in DOMAIN rs : Holds(rs[j]) => j <= i

\* The status of sample s once its checks are merged: copied when one report
\* alone has an entry for s, aggregated again otherwise.
MergedStatus(rs, check, s) ==
    LET with == {i \in DOMAIN rs : s \in DOMAIN rs[i].status}
    IN  IF \E i \in with : with = {i}
        THEN rs[CHOOSE i \in with : TRUE].status[s]
        ELSE Worst(ChecksOf(check, s))

MergeAll(rs) ==
    LET keys    == UNION {DOMAIN rs[i].check : i \in DOMAIN rs}
        check   == [k \in keys |->
                      rs[LastWith(rs, LAMBDA r : k \in DOMAIN r.check)].check[k]]
        samples == UNION {DOMAIN rs[i].status : i \in DOMAIN rs}
    IN  [check   |-> check,
         status  |-> [s \in samples |-> MergedStatus(rs, check, s)],
         summary |-> UNION {rs[i].summary : i \in DOMAIN rs}]

-----------------------------------------------------------------------------
(* Reads *)

\* ReportView.is_alive: a sample with no entry has status None, which is alive.
IsAlive(r, sid) == ~(sid \in DOMAIN r.status /\ r.status[sid] = "error")

\* counts(): how many samples have each status.
Counts(r) == [s \in Statuses |-> Cardinality({x \in DOMAIN r.status : r.status[x] = s})]

=============================================================================
