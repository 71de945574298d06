---------------------------- MODULE PipelineRun ----------------------------
(***************************************************************************)
(* One run of the CIPipeline workflow (internal/workflows/ci_pipeline.go)  *)
(* from the clone to the cleanup, with what it leaves outside: the status  *)
(* of the commit on GitHub, the checkout on the worker's disk and the lock *)
(* it takes from the lock manager (LockManager models the manager).        *)
(*                                                                         *)
(* Every step of this module is one wait of the workflow: the activity,    *)
(* child workflow or signal it blocks on, and the code up to the next.     *)
(* A cancelled context makes every wait on it end at once; waits on the    *)
(* disconnected context are not affected.  The end of a wait is not the    *)
(* end of the command: a cancelled wait, and one that reached its timeout, *)
(* leave the pod or the process to itself.                                 *)
(***************************************************************************)
EXTENDS Naturals, SequencesExt, FiniteSets

CONSTANTS
  Plans,     \* the pipelines a run may find in its checkout
  FaultSets  \* what may go wrong together: sets of FaultKinds

FaultKinds == {"cancel", "clone", "pending", "role", "unattended", "report", "cleanup", "late"}

Kinds == {"regular", "gate", "matrix", "dynamic", "trigger"}

\* A step of the plan; deps are the positions of the steps it depends on.
StepConfig ==
  [deps : SUBSET (Nat \ {0}), kind : Kinds, when : BOOLEAN, allowSkip : BOOLEAN,
   lock : BOOLEAN, role : BOOLEAN, post : BOOLEAN,
   wait : BOOLEAN, propagate : BOOLEAN]

\* What CloneRepo finds: one pipeline that matches the event, several of them
\* (`children' many), or none.  The run of the pipeline named "", "ci" or
\* "default" is the primary one.
Plan ==
  [route : {"selected", "several", "skipped"}, primary : BOOLEAN,
   children : Nat, steps : Seq(StepConfig),
   always : BOOLEAN, onFailure : BOOLEAN]

ASSUME PlansOK == Plans \subseteq Plan /\ FaultSets \subseteq SUBSET FaultKinds

VARIABLES
  plan,       \* the plan of this run
  faults,     \* what may go wrong in it
  at,         \* what the workflow waits for
  i,          \* the step the loop is at, or the child the dispatch is at
  outcome,    \* how the work of step i ended
  results,    \* StepResults so far
  completed,  \* steps whose dependents may run
  overall,    \* overallStatus
  lock,       \* lockResource # ""
  ran,        \* steps whose command was started
  hooked,     \* steps whose post commands were started
  alive,      \* commands and post commands under way, waited for or not
  posts,      \* pipeline post steps that were started
  cancelled,  \* the context is cancelled
  late,       \* a "pending" status is still on its way to GitHub
  commit,     \* the status of the commit
  checkout,   \* the clone directory exists
  returned    \* the status of the result, "none" while the run is open

given   == <<plan, faults>>
loop    == <<i, outcome, results, completed, overall>>
work    == <<lock, ran, hooked, alive>>
outside == <<late, commit, checkout>>
vars    == <<given, at, loop, work, posts, cancelled, outside, returned>>

Points == {"clone", "tidy", "dispatch", "pending", "step", "lock", "role", "run",
           "hook", "matrix", "trigger", "always", "onFailure", "report",
           "cleanup", "closed"}

Statuses == {"passed", "failed", "cancelled", "skipped", "triggered"}

Init ==
  /\ plan \in Plans /\ faults \in FaultSets
  /\ at = "clone" /\ i = 1 /\ outcome = "none"
  /\ results = <<>> /\ completed = {} /\ overall = "passed"
  /\ lock = FALSE /\ ran = {} /\ hooked = {} /\ alive = {} /\ posts = {}
  /\ cancelled = FALSE /\ late = FALSE
  /\ commit = "none" /\ checkout = FALSE
  /\ returned = "none"

Return(status) == at' = "closed" /\ returned' = status

May(fault) == fault \in faults

----------------------------------------------------------------------------
(* Clone, dispatch and the pending status. *)

\* Where the run goes when its steps are loaded: none of them ends the run.
EnterSteps ==
  IF plan.steps = <<>> THEN Return("failed")
  ELSE at' = "step" /\ UNCHANGED returned

CloneSucceeds ==
  /\ at = "clone" /\ ~cancelled
  /\ checkout' = TRUE
  /\ CASE plan.route = "skipped"  -> at' = "tidy" /\ UNCHANGED returned
       [] plan.route = "several"  -> at' = "dispatch" /\ UNCHANGED returned
       [] plan.route = "selected" ->
            IF plan.primary THEN at' = "pending" /\ UNCHANGED returned ELSE EnterSteps
  /\ UNCHANGED <<given, loop, work, posts, cancelled, late, commit>>

\* The configuration is read after the directory is there: the activity can
\* fail with the checkout on disk, and a cancelled one may leave it.
CloneFails ==
  /\ at = "clone" /\ (May("clone") \/ cancelled)
  /\ checkout' \in BOOLEAN
  /\ Return("failed")
  /\ UNCHANGED <<given, loop, work, posts, cancelled, late, commit>>

\* One child per pipeline; a child that fails to start, or whose wait is
\* cancelled, counts as failed.  Steps of the children are not tracked.
DispatchCollects ==
  /\ at = "dispatch" /\ i <= plan.children
  /\ \E status \in IF cancelled THEN {"failed"} ELSE {"passed", "failed", "cancelled", "skipped"} :
       overall' = IF status \in {"failed", "cancelled"} THEN "failed" ELSE overall
  /\ i' = i + 1
  /\ UNCHANGED <<given, at, outcome, results, completed, work, posts, cancelled, outside, returned>>

DispatchDone ==
  /\ at = "dispatch" /\ i > plan.children
  /\ at' = "tidy"
  /\ UNCHANGED <<given, loop, work, posts, cancelled, outside, returned>>

\* The cleanup of the two early ends runs on the run's own context.
Tidy ==
  /\ at = "tidy"
  /\ checkout' \in IF cancelled \/ May("cleanup") THEN {TRUE, FALSE} ELSE {FALSE}
  /\ Return(IF plan.route = "skipped" THEN "skipped" ELSE overall)
  /\ UNCHANGED <<given, loop, work, posts, cancelled, late, commit>>

SetPending ==
  /\ at = "pending" /\ ~cancelled
  /\ commit' = "pending"
  /\ EnterSteps
  /\ UNCHANGED <<given, loop, work, posts, cancelled, late, checkout>>

\* The activity fails, or the run is cancelled while it is under way; the
\* request it has made may reach GitHub later.
PendingFails ==
  /\ at = "pending" /\ (May("pending") \/ cancelled)
  /\ late' \in IF May("late") THEN BOOLEAN ELSE {FALSE}
  /\ EnterSteps
  /\ UNCHANGED <<given, loop, work, posts, cancelled, commit, checkout>>

PendingArrivesLate ==
  /\ late /\ late' = FALSE /\ commit' = "pending"
  /\ UNCHANGED <<given, at, loop, work, posts, cancelled, checkout, returned>>

----------------------------------------------------------------------------
(* The steps. *)

step == plan.steps[i]

InLoop(point) == at = point /\ i <= Len(plan.steps)

\* Mutant: one dependency is enough.
AnyDepOK(s) == s.deps = {} \/ s.deps \cap completed # {}

DepsOK(s) == s.deps \subseteq completed

Failing(status) == status \in {"failed", "cancelled"}

\* Append results of step i under its name (or under names of their own) and
\* go on with the next step.
Record(statuses, byName) ==
  /\ results' = results \o [k \in DOMAIN statuses |->
                              [step |-> i, byName |-> byName, status |-> statuses[k]]]
  /\ i' = i + 1 /\ at' = "step" /\ outcome' = "none"

Complete(ok) == completed' = IF ok THEN completed \cup {i} ELSE completed

SkipUnmetDeps ==
  /\ InLoop("step") /\ ~DepsOK(step)
  /\ Record(<<"skipped">>, TRUE)
  /\ UNCHANGED <<given, completed, overall, work, posts, cancelled, outside, returned>>

\* The condition is false or cannot be evaluated.
SkipByCondition ==
  /\ InLoop("step") /\ DepsOK(step) /\ step.when
  /\ Record(<<"skipped">>, TRUE)
  /\ Complete(step.allowSkip)
  /\ UNCHANGED <<given, overall, work, posts, cancelled, outside, returned>>

\* A gate looks at every result so far, not only at its dependencies.
GatePasses ==
  \A k \in DOMAIN results :
    LET r == results[k] IN
    /\ ~Failing(r.status)
    /\ r.status = "skipped" => r.byName /\ plan.steps[r.step].allowSkip

Gate ==
  /\ InLoop("step") /\ DepsOK(step) /\ step.kind = "gate"
  /\ Record(<<IF GatePasses THEN "passed" ELSE "failed">>, TRUE)
  /\ Complete(GatePasses)
  /\ overall' = IF GatePasses THEN overall ELSE "failed"
  /\ UNCHANGED <<given, work, posts, cancelled, outside, returned>>

\* A dynamic matrix whose upstream output is missing is a regular step.
StartMatrix ==
  /\ InLoop("step") /\ DepsOK(step) /\ step.kind \in {"matrix", "dynamic"}
  /\ at' = "matrix"
  /\ UNCHANGED <<given, loop, work, posts, cancelled, outside, returned>>

\* The children's results (MatrixStep models how they come about): none when
\* every combination is excluded, a skipped one only after a failed one.
MatrixOutcomes ==
  IF cancelled THEN {<<>>, <<"failed", "failed">>, <<"passed", "failed">>}
  ELSE {<<>>, <<"passed", "passed">>, <<"passed", "failed">>, <<"failed", "skipped">>}

MatrixEnds ==
  /\ InLoop("matrix")
  /\ \E statuses \in MatrixOutcomes :
       LET failed == \E k \in DOMAIN statuses : Failing(statuses[k]) IN
       /\ Record(statuses, FALSE)
       /\ Complete(~failed)
       /\ overall' = IF failed THEN "failed" ELSE overall
  /\ UNCHANGED <<given, work, posts, cancelled, outside, returned>>

Triggered ==
  /\ InLoop("step") /\ DepsOK(step) /\ step.kind = "trigger" /\ ~step.wait
  /\ Record(<<"triggered">>, FALSE)
  /\ Complete(TRUE)
  /\ UNCHANGED <<given, overall, work, posts, cancelled, outside, returned>>

StartTrigger ==
  /\ InLoop("step") /\ DepsOK(step) /\ step.kind = "trigger" /\ step.wait
  /\ at' = "trigger"
  /\ UNCHANGED <<given, loop, work, posts, cancelled, outside, returned>>

\* Mutant: the error of a child that returned nothing is not made a status.
UnsetStatus(s, status) == IF status = "failed" THEN "" ELSE status

Propagated(s, status) ==
  IF ~s.propagate /\ status = "failed" THEN "passed" ELSE status

TriggerEnds ==
  /\ InLoop("trigger")
  /\ \E child \in IF cancelled THEN {"failed"} ELSE {"passed", "failed", "cancelled"} :
       LET status == Propagated(step, child) IN
       /\ Record(<<status>>, FALSE)
       /\ Complete(status = "passed")
       /\ overall' = IF Failing(status) THEN "failed" ELSE overall
  /\ UNCHANGED <<given, work, posts, cancelled, outside, returned>>

----------------------------------------------------------------------------
(* A regular step: lock, role, command, post commands, release. *)

Command(s)      == <<s, "command">>
PostCommands(s) == <<s, "post">>

Run ==
  /\ at' = "run"
  /\ ran' = IF cancelled THEN ran ELSE ran \cup {i}
  /\ alive' = IF cancelled THEN alive ELSE alive \cup {Command(i)}

NoRun == UNCHANGED <<ran, alive>>

StartRegular ==
  /\ InLoop("step") /\ DepsOK(step) /\ step.kind \in {"regular", "dynamic"}
  /\ CASE step.lock               -> at' = "lock" /\ NoRun
       [] ~step.lock /\ step.role -> at' = "role" /\ NoRun
       [] OTHER                   -> Run
  /\ UNCHANGED <<given, loop, lock, hooked, posts, cancelled, outside, returned>>

LockGranted ==
  /\ InLoop("lock")
  /\ lock' = TRUE
  /\ IF step.role THEN at' = "role" /\ NoRun ELSE Run
  /\ UNCHANGED <<given, loop, hooked, posts, cancelled, outside, returned>>

LockTimesOut ==
  /\ InLoop("lock")
  /\ Record(<<"failed">>, TRUE)
  /\ overall' = "failed"
  /\ UNCHANGED <<given, completed, work, posts, cancelled, outside, returned>>

RoleAssumed ==
  /\ InLoop("role") /\ ~cancelled
  /\ Run
  /\ UNCHANGED <<given, loop, lock, hooked, posts, cancelled, outside, returned>>

\* Mutant: the early exit forgets the lock.
RoleFailsHolding ==
  /\ InLoop("role") /\ (May("role") \/ cancelled)
  /\ Record(<<"failed">>, TRUE)
  /\ overall' = "failed"
  /\ UNCHANGED <<given, completed, work, posts, cancelled, outside, returned>>

RoleFails ==
  /\ InLoop("role") /\ (May("role") \/ cancelled)
  /\ lock' = FALSE
  /\ Record(<<"failed">>, TRUE)
  /\ overall' = "failed"
  /\ UNCHANGED <<given, completed, ran, hooked, alive, posts, cancelled, outside, returned>>

\* Mutant: the last step decides.
FinishByLast(status) ==
  /\ lock' = FALSE
  /\ Record(<<status>>, TRUE)
  /\ Complete(status = "passed")
  /\ overall' = status

\* The status is taken, the lock is released, the result recorded.
Finish(status) ==
  /\ lock' = FALSE
  /\ Record(<<status>>, TRUE)
  /\ Complete(status = "passed")
  /\ overall' = IF status = "passed" THEN overall ELSE status

\* A wait ends at once when the run is cancelled, else when the command is over
\* or, whatever the command does, at a timeout or for want of a heartbeat.
EndsOfWait(c) ==
  IF cancelled THEN {"cancelled"}
  ELSE (IF c \in alive THEN {} ELSE {"passed", "failed"})
         \cup (IF May("unattended") THEN {"failed"} ELSE {})

StartHook ==
  /\ hooked' = IF cancelled THEN hooked ELSE hooked \cup {i}
  /\ alive' = IF cancelled THEN alive ELSE alive \cup {PostCommands(i)}

RunEnds ==
  /\ InLoop("run")
  /\ \E status \in EndsOfWait(Command(i)) :
       IF step.post
       THEN /\ at' = "hook" /\ outcome' = status
            /\ StartHook
            /\ UNCHANGED <<i, results, completed, overall, lock>>
       ELSE Finish(status) /\ UNCHANGED <<hooked, alive>>
  /\ UNCHANGED <<given, ran, posts, cancelled, outside, returned>>

\* The result of the post commands is not looked at.
HookEnds ==
  /\ InLoop("hook") /\ EndsOfWait(PostCommands(i)) # {}
  /\ Finish(outcome)
  /\ UNCHANGED <<given, ran, hooked, alive, posts, cancelled, outside, returned>>

\* The process or the pod ends by itself.
CommandStops(c) ==
  /\ alive' = alive \ {c}
  /\ UNCHANGED <<given, at, loop, lock, ran, hooked, posts, cancelled, outside, returned>>

----------------------------------------------------------------------------
(* After the steps: post steps, reports and cleanup on a disconnected context. *)

LoopDone ==
  /\ at = "step" /\ i > Len(plan.steps)
  /\ at' = "always"
  /\ UNCHANGED <<given, loop, work, posts, cancelled, outside, returned>>

\* Mutant: the post steps run on the run's own context.
PostOnOwnContext(kind) == IF cancelled THEN posts ELSE posts \cup {kind}

Post(kind) == posts \cup {kind}

PostAlways ==
  /\ at = "always"
  /\ posts' = IF plan.always THEN Post("always") ELSE posts
  /\ at' = "onFailure"
  /\ UNCHANGED <<given, loop, work, cancelled, outside, returned>>

PostOnFailure ==
  /\ at = "onFailure"
  /\ posts' = IF plan.onFailure /\ Failing(overall) THEN Post("onFailure") ELSE posts
  /\ at' = "report"
  /\ UNCHANGED <<given, loop, work, cancelled, outside, returned>>

\* ReportResults decides from the results, not from the overall status.
State == IF \E k \in DOMAIN results : Failing(results[k].status) THEN "failure" ELSE "success"

\* Mutant: reported on the run's own context.
ReportOnOwnContext ==
  /\ at = "report"
  /\ commit' = IF plan.primary /\ ~cancelled THEN State ELSE commit
  /\ at' = "cleanup"
  /\ UNCHANGED <<given, loop, work, posts, cancelled, late, checkout, returned>>

\* Commit status, pull request comment, check runs and the notification; the
\* errors are dropped.
Report ==
  /\ at = "report"
  /\ commit' \in (IF plan.primary THEN {State} ELSE {commit})
                   \cup (IF May("report") THEN {commit} ELSE {})
  /\ at' = "cleanup"
  /\ UNCHANGED <<given, loop, work, posts, cancelled, late, checkout, returned>>

\* Mutant: cleaned up on the run's own context.
CleanupOnOwnContext ==
  /\ at = "cleanup"
  /\ checkout' = (checkout /\ cancelled)
  /\ Return(overall)
  /\ UNCHANGED <<given, loop, work, posts, cancelled, late, commit>>

Cleanup ==
  /\ at = "cleanup"
  /\ checkout' \in IF May("cleanup") THEN BOOLEAN ELSE {FALSE}
  /\ Return(overall)
  /\ UNCHANGED <<given, loop, work, posts, cancelled, late, commit>>

\* A newer push, or an operator, cancels the run.
Cancel ==
  /\ May("cancel") /\ at # "closed" /\ ~cancelled
  /\ cancelled' = TRUE
  /\ UNCHANGED <<given, at, loop, work, posts, outside, returned>>

----------------------------------------------------------------------------
Begin == CloneSucceeds \/ CloneFails \/ DispatchCollects \/ DispatchDone \/ Tidy
           \/ SetPending \/ PendingFails
Steps == SkipUnmetDeps \/ SkipByCondition \/ Gate \/ StartMatrix \/ MatrixEnds
           \/ Triggered \/ StartTrigger \/ TriggerEnds
           \/ StartRegular \/ LockGranted \/ LockTimesOut \/ RoleAssumed
           \/ RoleFails \/ RunEnds \/ HookEnds
End   == LoopDone \/ PostAlways \/ PostOnFailure \/ Report \/ Cleanup

Workflow == Begin \/ Steps \/ End

CommandEnds == \E c \in alive : CommandStops(c)

Next == Workflow \/ CommandEnds \/ PendingArrivesLate \/ Cancel

Spec == Init /\ [][Next]_vars

\* Every activity has a StartToClose timeout and a bounded number of attempts,
\* a lock is waited for no longer than its timeout, and a child that is waited
\* for is a run of this specification: every wait of the workflow ends.  A
\* command that no timeout overtakes ends before it.
FairSpec == Spec /\ WF_vars(Workflow) /\ WF_vars(CommandEnds)

----------------------------------------------------------------------------
(* Properties *)

RunTypeOK ==
  /\ plan \in Plans /\ faults \in FaultSets /\ at \in Points
  /\ i \in Nat \ {0} /\ outcome \in {"none", "passed", "failed", "cancelled"}
  /\ results \in Seq([step : Nat, byName : BOOLEAN, status : Statuses])
  /\ completed \in SUBSET (1..Len(plan.steps))
  /\ overall \in {"passed", "failed", "cancelled"}
  /\ lock \in BOOLEAN /\ late \in BOOLEAN /\ cancelled \in BOOLEAN
  /\ ran \in SUBSET (1..Len(plan.steps)) /\ hooked \subseteq ran
  /\ posts \subseteq {"always", "onFailure"}
  /\ commit \in {"none", "pending", "success", "failure"}
  /\ checkout \in BOOLEAN
  /\ returned \in {"none", "passed", "failed", "cancelled", "skipped"}

\* Every variable keeps its shape, and what is under way was started.
TypeOK ==
  /\ RunTypeOK
  /\ alive \subseteq (ran \X {"command"}) \cup (hooked \X {"post"})

\* The results of step s.
Of(s) == {results[k] : k \in {n \in DOMAIN results : results[n].step = s}}

\* What step s depends on is over, and lets it run.
Ready(s) == plan.steps[s].deps \subseteq completed \cap 1..(s - 1)

\* A result that lets the steps depending on it run: not failed or cancelled,
\* and skipped only by its own condition, with allow_skip.
Good(r) ==
  /\ ~Failing(r.status)
  /\ r.status = "skipped" =>
       r.byName /\ Ready(r.step) /\ plan.steps[r.step].when /\ plan.steps[r.step].allowSkip

RunsOnGoodGround ==
  \A j \in ran : \A d \in plan.steps[j].deps :
    d < j /\ \A r \in Of(d) : Good(r)

SkippedForCause ==
  \A k \in DOMAIN results : results[k].status = "skipped" /\ results[k].byName =>
    LET s == results[k].step IN
    \/ plan.steps[s].when
    \/ \E d \in plan.steps[s].deps : d >= s \/ \E r \in Of(d) : ~Good(r)

\* Dependencies decide what runs, through gates, matrices and triggers as well:
\* a command is started only when everything it depends on is over and good, and
\* a step is skipped only for its own condition or because one of the steps it
\* depends on did not go well or is not listed before it.
DependenciesDecide == RunsOnGoodGround /\ SkippedForCause

AfterLoop == at \in {"always", "onFailure", "report", "cleanup"}

OverallAgrees ==
  AfterLoop => (Failing(overall) <=> \E k \in DOMAIN results : Failing(results[k].status))

CommitAgrees ==
  at = "closed" =>
    /\ commit = "success" => returned = "passed"
    /\ commit = "failure" => returned \in {"failed", "cancelled"}

\* The three verdicts of a run, each computed on its own, agree: the overall
\* status, which decides about the on_failure steps and is what the run returns,
\* fails exactly when some result does, and GitHub is never told another end
\* than the run returns.
VerdictsAgree == OverallAgrees /\ CommitAgrees

PostStepsFollow ==
  at \in {"report", "cleanup"} =>
    /\ "always" \in posts <=> plan.always
    /\ "onFailure" \in posts <=>
         plan.onFailure /\ \E k \in DOMAIN results : Failing(results[k].status)

PostCommandsFollow ==
  \A j \in ran : plan.steps[j].post /\ Of(j) # {} /\ ~cancelled => j \in hooked

\* What has to come after is run: the post steps of the pipeline whatever
\* happened, on_failure ones exactly when some step failed or was cancelled, and
\* the post commands of a step after its command, failed or not, unless the run
\* was cancelled meanwhile.
PostFollows == PostStepsFollow /\ PostCommandsFollow

HeldInStep ==
  /\ lock => at \in {"role", "run", "hook"} /\ step.lock
  /\ at \in {"run", "hook"} /\ step.lock => lock

Covered(c) == lock /\ c[1] = i

\* The workflow stopped waiting for the command, which it knows: the step has
\* not passed.  The end of post commands is not recorded.
Outlived(c) ==
  /\ cancelled \/ May("unattended")
  /\ c[2] = "command" => \E r \in Of(c[1]) : Failing(r.status)

CoversCommands ==
  \A c \in alive : plan.steps[c[1]].lock => Covered(c) \/ Outlived(c)

\* A step with a lock waits for its command and its post commands under it, and
\* no way out of the step keeps it.  A command that goes on without the lock
\* belongs to a wait that was cancelled or timed out, and never to a step that
\* passed.
LockCoversStep == HeldInStep /\ CoversCommands

\* GitHub and the disk do what they are asked once the steps are over, and no
\* status arrives out of order.
Answering == faults \cap {"report", "cleanup", "late"} = {}

\* The commit of a pipeline with steps does not stay pending, cancelled or not.
CommitSettles ==
  (commit = "pending" /\ Answering /\ plan.steps # <<>>)
    ~> commit \in {"success", "failure"}

\* The checkout a run of one pipeline works in is removed, and the run ends.
CheckoutRemoved ==
  (checkout /\ at = "step" /\ Answering) ~> (~checkout /\ at = "closed")

----------------------------------------------------------------------------
(* Statements of the documents and comments that the code does not meet; *)
(* the README says how to see it.                                        *)

\* The stronger statement of the comment in the code: always.
PostCommandsAlways ==
  \A j \in ran : plan.steps[j].post /\ Of(j) # {} => j \in hooked

\* Whatever happens, the commit does not stay pending ...
CommitAlwaysSettles == commit = "pending" ~> commit \in {"success", "failure"}

\* ... and the checkout is removed, also after a dispatch.
CheckoutAlwaysRemoved == checkout /\ at \in {"dispatch", "step"} ~> ~checkout

\* The lock is released after the step's command and post commands have ended.
CommandsStayCovered == \A c \in alive : plan.steps[c[1]].lock => Covered(c)

\* A step cut short by the cancellation of the run is not recorded as passed.
InterruptedNotPassed ==
  [][cancelled /\ at \in {"lock", "role", "run", "trigger"} /\ results' # results
       => Last(results').status # "passed"]_vars
============================================================================
