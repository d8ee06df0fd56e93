------------------------------ MODULE LiveView ------------------------------
(***************************************************************************)
(* `abasift run --vis`: a running Executor, the LiveJob of vis/live.py     *)
(* that observes it, and a browser page that follows the LiveJob through   *)
(* the RunView of vis/server.py.                                           *)
(*                                                                         *)
(* The driver thread tells the observer what it does, one event at a time; *)
(* the server's threads read the LiveJob under its lock, at any moment in  *)
(* between.  The page keeps the version token of what it shows, asks for   *)
(* the current one over and over, and pulls new contents when the two      *)
(* differ.                                                                 *)
(***************************************************************************)
EXTENDS Executor

VARIABLES
    live,      \* LiveJob, but for the version
    version,   \* LiveJob._version
    due,       \* the nodes just folded whose node_finished is not emitted yet
    page       \* the browser page: [at, shown, token, asked]

watchVars == <<live, version, due, page>>

\* The verdicts of status s that node n reached in report r.
VerdictsOf(r, n, s) == Cardinality({k \in DOMAIN r.check : k[2] = n /\ r.check[k] = s})

WatchInit ==
    /\ Init
    /\ live = [started |-> FALSE, job |-> NotStamped, batches |-> 0, running |-> {},
               tally |-> [k \in Nodes \X Statuses |-> 0],
               judged |-> [n \in Nodes |-> {}], summary |-> {}, done |-> FALSE]
    /\ version = 0
    /\ due = {}
    /\ page = [at |-> "closed", shown |-> live, token |-> 0, asked |-> 0]

-----------------------------------------------------------------------------
(* The observer: every handler takes the lock and bumps the version *)

Becomes(state) == /\ live' = state
                  /\ version' = version + 1

OnJobStarted == Becomes([live EXCEPT !.started = TRUE])

OnBatchStarted == Becomes([live EXCEPT !.batches = batch'])

OnNodeStarted(n) == Becomes([live EXCEPT !.running = @ \cup {n}])

OnNodeFinished(n) == Becomes([live EXCEPT !.running = @ \ {n}])

RecountsTheJob(r) ==    \* bug: the job's report is added, not the batch's own
    Becomes([live EXCEPT
        !.tally = [k \in Nodes \X Statuses |-> @[k] + VerdictsOf(report', k[1], k[2])]])

\* The verdicts of the batch's own report are added to the counters.
OnBatchMerged(r) == Becomes([live EXCEPT
    !.tally  = [k \in Nodes \X Statuses |-> @[k] + VerdictsOf(r, k[1], k[2])],
    !.judged = [n \in Nodes |-> @[n] \cup {k[1] : k \in {k \in DOMAIN r.check : k[2] = n}}]])

FinishesUnannounced ==    \* bug: the version is not bumped
    /\ live' = [live EXCEPT !.job = stamp, !.summary = report.summary, !.running = {},
                            !.done = TRUE]
    /\ UNCHANGED version

OnJobFinished == Becomes([live EXCEPT
    !.job = stamp, !.summary = report.summary, !.running = {}, !.done = TRUE])

-----------------------------------------------------------------------------
(* The driver and the events it emits *)

\* The driver is in no handler: it goes on only then.
Quiet == live.started /\ due = {}

Unseen == UNCHANGED <<live, version>>

JobStarted == /\ ~live.started
              /\ OnJobStarted
              /\ UNCHANGED <<vars, due, page>>

EmitsFinished(n) == /\ n \in due
                    /\ OnNodeFinished(n)
                    /\ due' = due \ {n}
                    /\ UNCHANGED <<vars, page>>

WatchedFold(D) == /\ Quiet
                  /\ Fold(D)
                  /\ due' = D
                  /\ Unseen
                  /\ UNCHANGED page

\* A step that neither submits nor folds, nor ends a batch or the job, emits
\* nothing; nor does one that raises.
SilentStep == /\ Driver
              /\ UNCHANGED <<pending, task>>
              /\ phase' \notin {"source", "done"}
              /\ Unseen

WatchedStep ==
    /\ Quiet
    /\ \/ NextBatch /\ OnBatchStarted
       \/ \E n \in Downstream : Submit(n) /\ IF phase' = "dag" THEN OnNodeStarted(n) ELSE Unseen
       \/ MergeBatch /\ phase' = "source" /\ OnBatchMerged(MergeAll(LeafReports))
       \/ JobFinished /\ OnJobFinished
       \/ SilentStep
    /\ UNCHANGED <<due, page>>

WatchedDriver == \/ JobStarted
                 \/ \E n \in Downstream : EmitsFinished(n)
                 \/ \E D \in SUBSET Downstream : WatchedFold(D)
                 \/ WatchedStep

-----------------------------------------------------------------------------
(* The page *)

\* The server is a daemon thread: it ends with the process, which an
\* exception that leaves run() ends.
Serving == phase # "raised"

\* GET / takes a snapshot ...
Open == /\ Serving /\ page.at = "closed"
        /\ page' = [page EXCEPT !.at = "opening", !.shown = live]

\* ... and then, without the lock in between, the token.
Opened == /\ Serving /\ page.at = "opening"
          /\ page' = [page EXCEPT !.at = "polling", !.token = version]

\* GET /state, where the answer differs from the page's token.
Poll == /\ Serving /\ page.at = "polling"
        /\ version # page.token
        /\ page' = [page EXCEPT !.at = "pulling", !.asked = version]

\* GET /body: the page shows it under the token it was told before.
Pull == /\ Serving /\ page.at = "pulling"
        /\ page' = [page EXCEPT !.at = "polling", !.shown = live,
                                 !.token = page.asked, !.asked = 0]

\* The answer is lost: the page keeps what it has and polls again.
PullFails == /\ page.at = "pulling"
             /\ page' = [page EXCEPT !.at = "polling", !.asked = 0]

Browser == /\ Open \/ Opened \/ Poll \/ Pull \/ PullFails
           /\ UNCHANGED <<vars, live, version, due>>

-----------------------------------------------------------------------------
Pool(A) == A /\ UNCHANGED watchVars

WatchedEnd == Ended /\ UNCHANGED watchVars

WatchNext == \/ WatchedDriver
             \/ Pool(Start)
             \/ \E n \in Downstream : Pool(Run(n))
             \/ Browser
             \/ WatchedEnd

Page(A) == A /\ UNCHANGED <<vars, live, version, due>>

\* The executor's fairness; a request is answered or fails, the page polls for
\* as long as it is open, and not every answer is lost.
WatchFairness == /\ WF_<<vars, watchVars>>(WatchedDriver)
                 /\ WF_<<vars, watchVars>>(Pool(Start))
                 /\ \A n \in Downstream : WF_<<vars, watchVars>>(Pool(Run(n)))
                 /\ WF_<<vars, watchVars>>(Page(Opened))
                 /\ WF_<<vars, watchVars>>(Page(Poll))
                 /\ SF_<<vars, watchVars>>(Page(Pull))

WatchSpec == WatchInit /\ [][WatchNext]_<<vars, watchVars>> /\ WatchFairness

-----------------------------------------------------------------------------
\* live.py 11-13, "folding is a counter bump rather than a rescan": at every
\* moment the incremental counters are what counting the whole job report
\* would give, whatever batches, failures and branches it came from.
TallyIsReport ==
    \A n \in Nodes, s \in Statuses : live.tally[<<n, s>>] = VerdictsOf(report, n, s)

\* vis.js 150-160: a page that has found out once that it is behind ends up
\* showing the finished job, though answers get lost and events come in
\* between its requests.
PulledPageKeepsUp == page.at = "pulling" ~> [](phase = "done" => page.shown = live)

\* server.py 10-12, "an open page keeps up by itself [...] with the job".
OpenPageKeepsUp == page.at = "polling" ~> [](phase = "done" => page.shown = live)
=============================================================================
