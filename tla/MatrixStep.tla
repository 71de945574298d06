----------------------------- MODULE MatrixStep -----------------------------
(***************************************************************************)
(* A matrix step: runMatrixStep (internal/workflows/ci_pipeline.go) starts *)
(* one MatrixChild workflow per combination, at most max_parallel at once, *)
(* and collects them oldest first; with fail_fast the first failure it     *)
(* collects cancels the others.  The parent sees a child through a future, *)
(* which a cancellation fails at once, and a child waits for its command   *)
(* no longer than to its timeout: `future' and `running' are kept apart.   *)
(***************************************************************************)
EXTENDS Naturals, SequencesExt, FiniteSets

CONSTANTS
  N,            \* combinations of the matrix
  Sizes         \* values of max_parallel, 0 when not given

ASSUME MatrixOK == N \in Nat /\ Sizes \subseteq Nat

Combos == 1..N

VARIABLES
  matrix,     \* the settings of the matrix
  next,       \* the combination the loop is at
  pending,    \* started and not yet collected, oldest first
  awaited,    \* the child collect waits for, 0 for none
  stopped,    \* a failure was collected under fail_fast
  results,    \* childResults
  future,     \* what the parent knows of each child
  running,    \* children whose command is running
  adrift,     \* those of them whose child has given its command up
  cancelled   \* the run is cancelled

vars == <<matrix, next, pending, awaited, stopped, results, future, running, adrift,
          cancelled>>

Init ==
  /\ matrix \in [failFast : BOOLEAN, maxParallel : Sizes]
  /\ next = 1 /\ pending = <<>> /\ awaited = 0 /\ stopped = FALSE
  /\ results = <<>>
  /\ future = [k \in Combos |-> "none"]
  /\ running = {} /\ adrift = {} /\ cancelled = FALSE

Window == IF matrix.maxParallel = 0 THEN 10 ELSE matrix.maxParallel

Done == next > N /\ pending = <<>> /\ awaited = 0

\* Mutant: the window is checked one child late.
FullLate(p) == Len(p) > Window

Full(p) == Len(p) >= Window

\* Start a child.  On a cancelled context, or when its workflow ID is still
\* in use, it fails at once.  A full window is drained before the next start.
Start ==
  /\ awaited = 0 /\ next <= N /\ ~stopped
  /\ \/ /\ ~cancelled
        /\ future' = [future EXCEPT ![next] = "open"]
        /\ running' = running \cup {next}
     \/ /\ future' = [future EXCEPT ![next] = "failed"]
        /\ UNCHANGED running
  /\ LET p == Append(pending, next) IN
       IF Full(p) THEN pending' = Tail(p) /\ awaited' = Head(p)
       ELSE pending' = p /\ UNCHANGED awaited
  /\ next' = next + 1
  /\ UNCHANGED <<matrix, stopped, results, adrift, cancelled>>

\* Mutant: one combination is left out when the rest is skipped.
SkipRestSilently ==
  /\ awaited = 0 /\ next <= N /\ stopped
  /\ next' = next + 1
  /\ UNCHANGED <<matrix, pending, awaited, stopped, results, future, running, adrift,
                 cancelled>>

SkipRest ==
  /\ awaited = 0 /\ next <= N /\ stopped
  /\ results' = Append(results, [combo |-> next, status |-> "skipped"])
  /\ next' = next + 1
  /\ UNCHANGED <<matrix, pending, awaited, stopped, future, running, adrift, cancelled>>

\* Mutant: after a failure the rest of the window is not collected.
DrainUntilStopped ==
  /\ awaited = 0 /\ next > N /\ pending # <<>> /\ ~stopped
  /\ awaited' = Head(pending) /\ pending' = Tail(pending)
  /\ UNCHANGED <<matrix, next, stopped, results, future, running, adrift,
                 cancelled>>

Drain ==
  /\ awaited = 0 /\ next > N /\ pending # <<>>
  /\ awaited' = Head(pending) /\ pending' = Tail(pending)
  /\ UNCHANGED <<matrix, next, stopped, results, future, running, adrift,
                 cancelled>>

\* Cancelling a child fails its future unless the child is over.
CancelAll(children) ==
  future' = [k \in Combos |->
               IF k \in children /\ future[k] = "open" THEN "failed" ELSE future[k]]

\* Mutant: the status of a child that errors stays empty.
CollectNoStatus ==
  /\ awaited # 0 /\ future[awaited] \in {"passed", "failed"}
  /\ results' = Append(results, [combo |-> awaited, status |->
                  IF awaited \in running THEN "" ELSE future[awaited]])
  /\ IF matrix.failFast /\ future[awaited] = "failed"
     THEN stopped' = TRUE /\ CancelAll(ToSet(pending))
     ELSE UNCHANGED <<stopped, future>>
  /\ awaited' = 0
  /\ UNCHANGED <<matrix, next, pending, running, adrift, cancelled>>

Collect ==
  /\ awaited # 0 /\ future[awaited] \in {"passed", "failed"}
  /\ results' = Append(results, [combo |-> awaited, status |-> future[awaited]])
  /\ IF matrix.failFast /\ future[awaited] = "failed"
     THEN stopped' = TRUE /\ CancelAll(ToSet(pending))
     ELSE UNCHANGED <<stopped, future>>
  /\ awaited' = 0
  /\ UNCHANGED <<matrix, next, pending, running, adrift, cancelled>>

----------------------------------------------------------------------------
(* The children and the outside. *)

\* The command of a child ends, and the child with it.
ChildEnds(k) ==
  /\ future[k] = "open"
  /\ running' = running \ {k}
  /\ \E status \in {"passed", "failed"} : future' = [future EXCEPT ![k] = status]
  /\ UNCHANGED <<matrix, next, pending, awaited, stopped, results, adrift, cancelled>>

\* The child learns of a timeout, or of a worker that sends no heartbeat, and
\* not of the end of the command.  It has failed; the command may run on.
ChildGivesUp(k) ==
  /\ future[k] = "open"
  /\ future' = [future EXCEPT ![k] = "failed"]
  /\ adrift' = adrift \cup {k}
  /\ UNCHANGED <<matrix, next, pending, awaited, stopped, results, running, cancelled>>

\* A command that nobody waits for ends, some time.
CommandEnds(k) ==
  /\ k \in running /\ future[k] # "open"
  /\ running' = running \ {k} /\ adrift' = adrift \ {k}
  /\ UNCHANGED <<matrix, next, pending, awaited, stopped, results, future, cancelled>>

CancelRun ==
  /\ ~cancelled /\ ~Done
  /\ cancelled' = TRUE
  /\ CancelAll(Combos)
  /\ UNCHANGED <<matrix, next, pending, awaited, stopped, results, running, adrift>>

Parent == Start \/ SkipRest \/ Drain \/ Collect

Child(k) == ChildEnds(k) \/ ChildGivesUp(k)

Next ==
  \/ Parent
  \/ \E k \in Combos : Child(k) \/ CommandEnds(k)
  \/ CancelRun

Spec == Init /\ [][Next]_vars

\* Workflow tasks are run, and a child ends by the timeout of its command.
FairSpec == Spec /\ WF_vars(Parent) /\ \A k \in Combos : WF_vars(Child(k))

----------------------------------------------------------------------------
(* Properties *)

\* Every variable keeps its shape.
TypeOK ==
  /\ matrix \in [failFast : BOOLEAN, maxParallel : Sizes]
  /\ next \in 1..(N + 1) /\ pending \in Seq(Combos) /\ awaited \in 0..N
  /\ stopped \in BOOLEAN /\ cancelled \in BOOLEAN
  /\ results \in Seq([combo : Combos, status : {"passed", "failed", "skipped"}])
  /\ future \in [Combos -> {"none", "open", "passed", "failed"}]
  /\ running \in SUBSET Combos /\ adrift \in SUBSET Combos

Results(k) == {r \in DOMAIN results : results[r].combo = k}

AccountedOnce ==
  \A k \in Combos :
    LET places == Cardinality({x \in DOMAIN pending : pending[x] = k})
                    + (IF awaited = k THEN 1 ELSE 0) + Cardinality(Results(k))
    IN places = IF k < next THEN 1 ELSE 0

NeverPassesPartly ==
  Done /\ (\E r \in DOMAIN results : results[r].status = "skipped")
    => \E r \in DOMAIN results : results[r].status = "failed"

\* The results account for the whole matrix, in whatever order fail_fast and the
\* window produced them: every combination is in one place only (still to come,
\* in the window, awaited, or with one result), and one is left out only when
\* another one failed, so the step never passes with combinations missing.
FullAccount == AccountedOnce /\ NeverPassesPartly

WithinWindow == Cardinality(running \ adrift) <= Window

FailsFast ==
  stopped => \A k \in Combos : future[k] # "open"

GivenUpFailed ==
  /\ \A k \in adrift : future[k] = "failed"
  /\ \A k \in running : future[k] # "passed"

\* What runs is what may run.  No more than max_parallel commands run at once,
\* those of cancelled children that have not noticed included; the only ones
\* beyond are commands that a child gave up at a timeout or with its worker.
\* Such a child has failed, and no command of a child that passed is running.
\* Once a failure was collected under fail_fast every child has ended or been
\* cancelled.
RunsWhatItMay == WithinWindow /\ GivenUpFailed /\ FailsFast

\* The step ends.
Ends == <>Done

----------------------------------------------------------------------------
(* Statements of the documents and comments that the code does not meet; *)
(* the README says how to see it.                                        *)

\* No more than max_parallel commands run, those given up included.
AllWithinWindow == Cardinality(running) <= Window
============================================================================
