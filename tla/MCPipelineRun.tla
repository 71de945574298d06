--------------------------- MODULE MCPipelineRun ---------------------------
(* Small pipelines for model checking PipelineRun. *)
EXTENDS PipelineRun

Plain(kind, deps) ==
  [deps |-> deps, kind |-> kind, when |-> FALSE, allowSkip |-> FALSE,
   lock |-> FALSE, role |-> FALSE, post |-> FALSE, wait |-> FALSE, propagate |-> FALSE]

Locked(deps)    == [Plain("regular", deps) EXCEPT !.lock = TRUE, !.role = TRUE, !.post = TRUE]
Condition(allow, deps) == [Plain("regular", deps) EXCEPT !.when = TRUE, !.allowSkip = allow]
Trigger(wait, propagate, deps) ==
  [Plain("trigger", deps) EXCEPT !.wait = wait, !.propagate = propagate]

Selected(steps) ==
  [route |-> "selected", primary |-> TRUE, children |-> 0, steps |-> steps,
   always |-> TRUE, onFailure |-> TRUE]

\* A deployment behind a gate, with a lock, a role and post commands.
Deploy ==
  Selected(<<Plain("regular", {}), Condition(TRUE, {1}), Plain("gate", {1, 2}), Locked({3})>>)

\* A matrix and what depends on it; a dynamic one.
Build ==
  Selected(<<Plain("matrix", {}), Plain("dynamic", {1}), Condition(FALSE, {}), Locked({2, 3})>>)

\* Triggers of every kind.
Release ==
  Selected(<<Trigger(TRUE, TRUE, {}), Trigger(FALSE, TRUE, {1}), Trigger(TRUE, FALSE, {2}),
             [Plain("gate", {3}) EXCEPT !.when = TRUE], Locked({2})>>)

\* No waits for children whose failure is ignored.
Strict == Selected(<<Trigger(TRUE, TRUE, {}), Locked({1}), [Locked({}) EXCEPT !.role = FALSE]>>)

\* Not the primary pipeline, no post steps.
Nightly ==
  [Selected(<<Plain("regular", {}), Locked({})>>)
     EXCEPT !.primary = FALSE, !.always = FALSE, !.onFailure = FALSE]

\* A skip that is passed on, and a step listed before the one it depends on.
Passed == Selected(<<Plain("regular", {}), Condition(TRUE, {1}), Plain("regular", {2}),
                     Plain("regular", {5}), Condition(TRUE, {})>>)

Empty   == Selected(<<>>)
Several == [Selected(<<>>) EXCEPT !.route = "several", !.children = 2]
Skipped == [Selected(<<>>) EXCEPT !.route = "skipped"]

AllPlans     == {Deploy, Build, Release, Strict, Nightly, Passed, Empty, Several,
             Skipped}
EmptyPlan    == {Empty}
SeveralPlans == {Several}
DeployPlan   == {Deploy}
ReleasePlan  == {Release}

\* Everything at once, and what can go wrong while the run works: every wait is
\* for the end of its command, but for a cancellation or a timeout.
WorkFaults   == {"cancel", "pending", "role"}
QuietFaults  == {"pending", "role", "report", "cleanup"}
TimeFaults   == {"pending", "role", "unattended"}
FaultMixes   == {FaultKinds, WorkFaults, QuietFaults, TimeFaults}
NoFault      == {{}}
Cancellation == {{"cancel"}}
LateStatus   == {{"cancel", "late"}}
============================================================================
