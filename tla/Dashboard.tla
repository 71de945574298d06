----------------------------- MODULE Dashboard -----------------------------
(***************************************************************************)
(* The CI API of the webhook server (cmd/webhook/ci_api.go): builds, one   *)
(* build, repositories, badges and analytics.  Each request asks Temporal  *)
(* for runs, then reads a history for each: by workflow ID alone, which    *)
(* means the latest run of that ID at that moment.  Runs start and end in  *)
(* between.  A query over names is the set of workflow IDs it matches;     *)
(* pages are long enough; terminated runs, and what is counted or drawn    *)
(* from the rows, are left out.                                            *)
(***************************************************************************)
EXTENDS Naturals, SequencesExt

CONSTANTS
  Ids,      \* workflow IDs of CIPipeline
  Queries,  \* the sets of IDs that the prefixes asked for match
  MaxRuns   \* bound: runs of an ID

ASSUME DashOK == Queries \subseteq SUBSET Ids /\ MaxRuns \in Nat

VARIABLES
  runs,    \* Temporal: the runs of each ID
  rows     \* of the request under way: <<ID, number of the run>> -> row

dashVars == <<runs, rows>>

\* A pipeline that was cancelled or skipped is a completed run as well, unless
\* Temporal ended it.
Results == {"passed", "failed", "cancelled", "skipped"}

Closed == [status : {"completed"}, result : Results]
          \cup [status : {"failed", "cancelled", "timed_out"}, result : {"none"}]

Running == [status |-> "running", result |-> "none"]

DashInit == runs = [i \in Ids |-> <<>>] /\ rows = <<>>

----------------------------------------------------------------------------
(* Temporal: one open run of an ID at a time *)

Open(i) == runs[i] # <<>> /\ Last(runs[i]) = Running

StartRun(i) ==
  /\ Len(runs[i]) < MaxRuns /\ ~Open(i)
  /\ runs' = [runs EXCEPT ![i] = Append(@, Running)]
  /\ UNCHANGED rows

EndRun(i) ==
  /\ Open(i)
  /\ \E outcome \in Closed : runs' = [runs EXCEPT ![i][Len(runs[i])] = outcome]
  /\ UNCHANGED rows

----------------------------------------------------------------------------
(* The handlers *)

\* ciStatusToTemporalStatus: builds that passed and builds that failed are both
\* completed runs; a status it does not know filters nothing.
Filter(asked) ==
  CASE asked \in {"running", "cancelled", "timed_out"} -> {asked}
    [] asked \in {"completed", "passed", "failed"} -> {"completed"}
    [] OTHER -> {"running", "completed", "failed", "cancelled", "timed_out"}

Row(status) == [status |-> status, shown |-> "", latest |-> 0]

\* ListWorkflow.  Visibility is behind: a run that ended may be listed as
\* running, and the last run of an ID may not be listed yet.
Listed(ids, missing, stale, statuses) ==
  LET known == {p \in ids \X (1..MaxRuns) :
                  p[2] <= Len(runs[p[1]]) - (IF p[1] \in missing THEN 1 ELSE 0)}
      status(p) == IF p \in stale THEN "running" ELSE runs[p[1]][p[2]].status
  IN [p \in {q \in known : status(q) \in statuses} |-> Row(status(p))]

Respond(listed) == rows = <<>> /\ rows' = listed /\ UNCHANGED runs

Builds(asked) ==
  \E ids \in Queries, missing \in SUBSET Ids, stale \in SUBSET (Ids \X (1..MaxRuns)) :
    Respond(Listed(ids, missing, stale, Filter(asked)))

\* handleCIRepos and handleCIAnalytics, which filter no status.
Overview == Builds("")

\* The newest build of the default branch: of one of the IDs it matches.
Badge ==
  \E i \in Ids, n \in 1..MaxRuns, stale \in BOOLEAN :
    /\ n \in {Len(runs[i]), Len(runs[i]) - 1}
    /\ Respond([p \in {<<i, n>>} |-> Row(IF stale THEN "running" ELSE runs[i][n].status)])

\* DescribeWorkflowExecution is up to date.
Detail(i) ==
  /\ runs[i] # <<>>
  /\ Respond([p \in {<<i, Len(runs[i])>>} |-> Row(Last(runs[i]).status)])

\* Mutant: the result counts whatever the listed status.
ShownByResult(status, result) == IF result # "none" THEN result ELSE status

\* The result of a completed run takes the place of its status.
Shown(status, result) ==
  IF status = "completed" /\ result # "none" THEN result ELSE status

\* extractWorkflowData, row after row, in whatever order they were listed; a
\* history that cannot be read to its end has no result.
Read(p) ==
  /\ rows[p].shown = ""
  /\ \E result \in {Last(runs[p[1]]).result, "none"} :
       rows' = [rows EXCEPT ![p].shown = Shown(rows[p].status, result),
                            ![p].latest = Len(runs[p[1]])]
  /\ UNCHANGED runs

Answer ==
  /\ rows # <<>> /\ (\A p \in DOMAIN rows : rows[p].shown # "")
  /\ rows' = <<>> /\ UNCHANGED runs

DashNext ==
  \/ \E i \in Ids : StartRun(i) \/ EndRun(i) \/ Detail(i)
  \/ \E asked \in {"passed", "cancelled"} : Builds(asked)
  \/ Overview \/ Badge
  \/ \E p \in DOMAIN rows : Read(p)
  \/ Answer

----------------------------------------------------------------------------
DashTypeOK ==
  /\ runs \in [Ids -> Seq(Closed \cup {Running})]
  /\ \A p \in DOMAIN rows : p[2] \in 1..Len(runs[p[1]])

Own(run) == IF run.result # "none" THEN run.result ELSE run.status

\* A build is shown with a result only if it ran to its end, and with its own
\* unless its workflow ID had a newer run when the history was read; any other
\* build is shown with its own status, or as running when the list was behind.
ShownIsEarned ==
  \A p \in DOMAIN rows :
    LET run == runs[p[1]][p[2]]  row == rows[p] IN
    row.shown # "" =>
      /\ run.status # "completed" => row.shown \in {"running", run.status}
      /\ row.latest = p[2] => row.shown \in {"running", run.status, Own(run)}

----------------------------------------------------------------------------
(* Statements of the documents and comments that the code does not meet; *)
(* the README says how to see it.                                        *)

\* Every build is shown with its own result.
ShownIsOwn ==
  \A p \in DOMAIN rows :
    rows[p].shown = "passed" => runs[p[1]][p[2]].result = "passed"
=============================================================================
