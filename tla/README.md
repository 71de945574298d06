# TLA+ models of TemporalCI

TemporalCI is a CI server built from Temporal workflows: a webhook server turns
GitHub deliveries into `CIPipeline` workflows, a worker runs the workflows and
their activities, and each step of a pipeline becomes a Kubernetes pod. This
directory models the parts of it in which several actors meet and the rules its
pipeline files are read by, checks them with TLC on small instances, and proves with
TLAPS, for instances of any size, all of it but the liveness properties. Source paths below are
relative to `src/`.

## The system

| Part | Where | State it keeps | Operations | What is hard |
|---|---|---|---|---|
| Webhook server | `cmd/webhook/main.go` | none of its own; calls the repository store and Temporal | GitHub webhook, custom webhook, manual trigger, registration, badges, replay, lock and pool endpoints | every handler is a sequence of calls, and handlers overlap |
| Repository store | `internal/store/repo.go` | a map behind a mutex and its JSON file | `Register`, `Get`, `List`, `Delete`, `save` | lookup and registration are two steps; the file is written in place |
| Pipeline workflow | `internal/workflows/ci_pipeline.go` | results, completed steps, overall status, the lock held | clone, dispatch, run steps, gates, triggers, post steps, report, clean up | a cancellation can arrive at every wait; errors are dropped in places |
| Matrix step | `runMatrixStep` in the same file | the window of child workflows | start, collect, cancel the rest | children end in any order, the parent collects in one |
| Lock manager | `internal/workflows/lock_manager.go` | locks, pools, queue (lost when it continues as new) | signals acquire, release, register-pool | asynchronous grants, timeouts, forced releases, restarts |
| Cluster pool, helm test | `internal/workflows/cluster_pool.go`, `helmtest.go` | the map of clusters | lease, release, provision, expire | coroutines between signals; a choice that depends on map order |
| Step pods | `internal/k8s/pod.go`, `RunStep` in `internal/activities/activities.go` | the pod of a name in Kubernetes | create, watch, read, delete | the cluster acts on its own; workers die; names are used again |
| Pod cleanup | `internal/k8s/cleanup.go` | none | delete old finished pods, hourly | it meets steps that still read their pod |
| Activities | `internal/activities/*.go` | the checkout directory | clone, status, report, comments, check runs, S3, AWS, Slack, SARIF | calls that were given up and still take effect |
| Approval gate | `internal/workflows/approval.go` | none | one signal against one timer | the race of the two |
| Schedules | `internal/workflows/schedules.go` | Temporal schedules | create or update, delete | called by no program |
| Rate limiter | `internal/middleware/middleware.go` | a bucket per key | `Allow` | refill arithmetic |
| Sessions and OAuth | `cmd/webhook/auth.go` | sessions, pending logins; a cookie in the browser | login, callback, logout | overlapping callbacks, a shared cap, a restart between login and callback |
| Configuration rules | `internal/config/pipeline.go` | none | validate, cycle detection, event filters | filters of several kinds over events that tell more or less |
| Matrix expansion, conditions | `internal/eval` | none | `ExpandMatrix`, `if` and `when` | edges: empty axes, equal values |
| CI API | `cmd/webhook/ci_api.go` | none | lists, details, badges, analytics | reads that are taken apart while runs start and end |
| Notifications | `cmd/webhook/notifications.go` | the last 100 | get, mark read | added by no program |
| UI, site, deployment, images, scripts | `ui`, `site`, `deploy`, `images`, `scripts` | | | |

How they interact: the webhook server *starts and cancels* pipeline runs by
workflow ID; a pipeline run *executes activities*, *starts child runs* (matrix
children, triggered and dispatched pipelines) and *signals* the lock manager,
which signals back by workflow ID; helm tests and the cluster pool exchange
signals in the same way; `RunStep` *calls* Kubernetes, which changes the pod on
its own; the cleanup deletes pods behind the back of `RunStep`.

`PROJECT.json` lists every component with what is modelled of it, and every
hazard with the properties that would catch it.

## The modules

| Module | Models | Extended by |
|---|---|---|
| `LockManager` | the manager workflow, `AcquireLock`/`ReleaseLock` in `runSteps`, the operator's endpoints | `MCLockManager`, `LockManagerProofs` |
| `Listing` | sets of numbers listed in increasing order, for the order of the waiters | `LockManager` |
| `ExclusiveUse` | the promise of a lock service, abstractly: begin and end of one exclusive use | instantiated by `LockManager` and by `ClusterPool` |
| `PipelineRun` | one run of `CIPipeline`, with the commit status, the checkout and the lock | `MCPipelineRun`, `PipelineRunProofs` |
| `MatrixStep` | `runMatrixStep` and its children | `MatrixStepProofs` |
| `ClusterPool` | the pool workflow and the helm tests that lease from it | `MCClusterPool`, `ClusterPoolProofs` |
| `WebhookDispatch` | how requests become runs, with the repository store | `MCWebhookDispatch`, `WebhookDispatchProofs` |
| `StepPod` | `RunPod`, the pod and the cleanup | `StepPodProofs` |
| `ServerClock` | the clock of the server's process | `RateLimiter`, `Logins`, `RepoFile` |
| `RateLimiter` | the token bucket in front of the webhooks | `Services` |
| `Logins` | GitHub logins, callbacks and sessions | `Services` |
| `RepoFile` | the registrations, their file, crashes and the start of the server | `Services` |
| `ApprovalGate` | the approval workflow | `Services` |
| `Dashboard` | the requests of the CI API against Temporal | `Services` |
| `Services` | the last five side by side, one in each behaviour | `MCServices`, `ServicesProofs` |
| `StepOrder` | `validatePipeline` and `detectCycle` about steps, and the loop that runs them | `Rules` |
| `Triggers` | `ShouldRunForEvent` and `loadSelectedPipeline` | `Rules` |
| `MatrixExpansion` | `ExpandMatrix` | `Rules` |
| `Rules` | the last three, one of them in each behaviour | `MCRules`, `RulesProofs` |

`PROJECT.json` "map" gives the lines each definition stands for. Each module
has mutants next to the definitions they change ("Mutant:" in the comment):
plausible bugs, one for each checked property, under which TLC finds the
property violated. They are not part of any specification.

**LockManager.** `locks`, `pools` and `queue` are the local variables of the
workflow, `inbox` the signals Temporal has recorded and the workflow has not
received. A handler action consumes one signal and contains everything the
selector's callback does: `HandleAcquire` grants or queues, `HandleRelease`
frees the resource and serves the first waiter it fits. Signals of one kind are
received in order; between kinds the selector prefers the channel that was
added first (`Selectable`). A client is a pipeline at a locking step: `Acquire`
sends the signal, `Acquired` takes the first grant on its channel whatever
request it answers, `AcquireTimeout` gives up, `FinishStep` releases. A grant is
a signal to a workflow ID, so it outlives a run of that ID (`Rerun`) and fails
when none is open (`GrantFails`). `ContinueAsNew` and `ForceRelease` are in
`Next` but not in `CoreNext`.

**PipelineRun.** `at` is the wait the workflow blocks on; each action is one
wait and the code up to the next. A cancelled context makes every wait on it
end at once with an error; waits on the disconnected context do not notice.
Plans are the step lists a checkout can hold; a dependency may be on any step, one
that comes later included, which makes the loop skip the step (`Ready`).
`MCPipelineRun` has nine plans, chosen so that
every kind of step, dependency and option occurs. What a command, a condition
or a child returns is chosen freely. `alive` has the commands and post commands that
run as processes or pods, whatever the workflow knows of them: `RunStep` is given up at
once when the run is cancelled, and at its timeout, or without a heartbeat, when
"unattended" is among the faults (`EndsOfWait`), and its pod goes on until it ends by itself
(`CommandEnds`), as `docs/pipeline-config.md:158` says.

**MatrixStep.** `pending` is the window, `future` what the parent knows of a
child, `running` whether its command is still running: a cancellation fails the
future at once and the command ends later (`CommandEnds`). A child may also end without
its command, at the timeout of `RunStep` or when its worker sends no heartbeat
(`ChildGivesUp`); such a command is `adrift`, and its child has failed. The settings of the
matrix are chosen initially.

**ClusterPool.** `pool` is the map. Go does not fix the order in which a map is
ranged over, so a replay of the workflow's history on another worker may choose
another cluster than the one whose signal is in the history. `replays` is the
set of all pool states the history can be replayed to; `Replay` continues from
one of them. Provisioning and the resent requests are coroutines: their ends
are actions of their own. A helm test that is cancelled or reaches its timeout gives its
cluster back while `RunHelmTest`, which sends no heartbeat, works on it (`TestGivenUp`, `adrift`)
until it stops by itself (`HelmStops`).

**WebhookDispatch.** One action per call a handler makes: look up, register,
cancel the previous run, start. Temporal has one open run per workflow ID,
starting an ID that is open answers with that run, and a cancellation is a
request that the run acts on later.

**StepPod.** One action per Kubernetes call of `RunPod`, plus the deferred
deletion, plus what the cluster does: the command ends, deleted containers stop,
the pod goes, an hour passes. The cleanup lists the finished pods (`CleanupLists`) and
deletes them afterwards, by name (`CleanupDeletes`); when there is another pod of the name
by then, that one is `mistaken` for the one listed. An attempt is the execution of
`RunStep` in one run; the next run of the workflow ID uses the same pod name.

**Services.** The limiter, the logins, the registrations, the approval gate and
the dashboard share no state: no variable of one occurs in a guard or an
assignment of another. A product of them would only multiply their states, so a
behaviour chooses one (`part`) and leaves the others as they are; what holds in
these behaviours holds in the product.

* `RateLimiter`: `Allow` holds the mutex from its first line to its last, so a call
  is one action: `FirstCall`, `Admit` or `Refuse`. `admitted` remembers when
  calls were let through. A key is the forwarded header, or the remote address
  with its port.
* `Logins`: `handleAuthGitHub` reads the clock before it takes the lock
  (`ReadClock`, then `Login` or `RefuseLogin`); `handleAuthCallback` takes the nonce
  out under the lock (`TakeState`), talks to GitHub without it, and opens the
  session (`OpenSession`) or fails. Callbacks of one browser overlap, the browser's
  cookie is whichever login's wrote it last, and `LoginsLost` ends the process,
  which empties the maps and leaves the cookies.
* `RepoFile`: a change to the map, then `os.WriteFile` in its two steps, then the
  answer. `SaveFails` and `Stop` come between any two of them. `Restart` is
  `NewRepoStore` and what `main` does when it fails: a second store at
  `/tmp/repos.json`, or none. `NewRepoStore` takes any error of its read for a file that is
  not there (`Opens`): the server then starts without registrations, which are `unread`,
  and its next save replaces those in the file. `possible` is what the data file may rightly hold of a
  repository: its last acknowledged registration, or one that came later.
* `ApprovalGate`: a workflow task may bring several events at once; `Wake` is a
  `Select` that was waiting when they came (the first event counts), `Select` one
  that is entered after the note (the signals are asked first).
* `Dashboard`: a request lists runs (`Builds`, `Overview`, `Badge`, `Detail`), then
  reads a history for each row (`Read`), by workflow ID and so of the latest run;
  runs start and end in between, the list is older than the histories, and a history
  may not be readable. A pipeline that was cancelled or skipped is a completed run with that
  result, unless Temporal ended it.

**StepOrder, Triggers, MatrixExpansion, Rules.** The rules that a pipeline file is read by.
They share nothing, keep nothing and are called by one caller at a time; what is hard about
them is what they compute. The properties compare that with definitions that do
not follow the code. A behaviour of `Rules` is about one case of one of them (`rule`).

* `StepOrder`: `detectCycle` is a search in depth. Its recursion is a machine: `path` is the
  code's `path` and the stack of the calls of `visit` at once, `turn` has how far
  the loop of each call is, `mark` is `visited`. A step of the machine is one call of `visit`
  that returns at once (`SkipDone`, `MeetCycle`), one that begins (`Enter`), or the end of one
  (`Leave`). Then the loop of `runSteps` goes over the steps (`RunNext`), all of which
  pass. Cycles are sets of steps that wait for each other (`Knot`).
* `Triggers`: a behaviour is one delivery for one file. A glob is the set of names that it
  matches. An event that tells less starts no more (`FailsClosed`).
* `MatrixExpansion`: the recursion of `cartesian` works from the last key back; `left` are the
  keys of the calls that have not begun their loops, `rest` is what the call below
  returned, `value` and `place` are the two loops, `result` what they appended. Then the
  loop over the combinations with `exclude` (`Filter`), and `include`. Combinations are the
  functions of the product (`Product`), in the order of their first difference (`Before`).

## The runs

| Run | Distinct states | What it shows |
|---|---|---|
| `lock_core` | 1,570,215 | under timeouts, lost signals, terminations, reruns and late pool registration: one token per lock, a release frees its sender's lock only, named waiters in order, and the manager implements `ExclusiveUse` |
| `lock_service` | 1,561 | with the pool registered first and nothing failing: who asks is served with the right lock, no waiter idles, locks come back |
| `lock_continue_as_new` | violation | the manager forgets its locks when it continues as new |
| `pipeline` | 33,846 | nine plans under four mixes of faults (all of them; those of the work; those of the outside; timeouts without a cancellation): what runs, what is skipped, that the verdicts agree, that post steps and post commands follow their steps, that a step waits for its commands under its lock and that none is running without it when its step has passed; that the commit does not stay pending and the checkout is removed |
| `matrix_step` | 52,718 | one result per combination, no partial pass, no more commands than the window but those that a child gave up, which has failed; fail_fast, the end |
| `cluster_leases` | 72,740 | one test that is waited for per cluster (it implements `ExclusiveUse`), none destroyed in use, no request dropped while there may be a cluster for every test, leases given back |
| `webhook_requests` | 29,268 | a run is cancelled only for another push of its branch; what does not overlap is built and keeps the operator's registration |
| `webhook_lost_push` | violation | the second of two pushes is answered with the cancelled run of the first |
| `pod_steps` | 29,291 | a result is of the step's own pod, whose command only a cleanup that mistook it has stopped; finished pods go, an ended command is answered |
| `services` | 2,572,463 | no burst over the rate; one session per login, and no login refused without reason; an acknowledged registration outlives crashes, unless it was in a file that could not be read; the first answer decides an approval; the dashboard shows no result of a run that did not complete, and of the latest run its own |
| `rules` | 1,304,108 | cycles are found exactly, the reported chain is one, and an accepted pipeline runs in full exactly if it is listed in order; triggers fail closed, and dispatched pipelines select themselves; a matrix gives the combinations that are not excluded, once and in order, and then the included ones |
| `rate_limit` | violation | a client that got nothing through for a whole interval is refused |

`CHECK_DEADLOCK FALSE` is set everywhere because every model ends: pipelines
close, requests are answered.

### Bounds

* *Locks*: three pipelines, two resources, one pool of both. Two pipelines
  compete, the third makes the queue longer than one and lets a release choose;
  one script asks for two locks in a row, so that a late grant can meet the next
  request. `Budget` gives each kind of fault one occurrence, so that each can meet
  each. `HistoryLimit` stands for the 10000 events of history that the code allows a run
  (`lock_manager.go:153`); signals are what the model counts.
* *Pipelines*: up to five steps; a dependency chain of three, a step with two
  dependencies, and triggers and gates in between.
* *Matrix*: five combinations in windows of two, three and ten (the default), so
  that the window is full, is refilled and is drained.
* *Clusters*: two tests, one desired cluster and at most two; each event of
  `Budget` once. (Three tests and no events pass as well, but add nothing to the run.)
* *Webhooks*: two pushes and two triggers; the millisecond clock ticks once, so
  that triggers share a millisecond or not.
* *Services*: *limiter*: five ticks at two calls per interval of two ticks, so that a
  bucket empties, refills whole and in part, and overflows; two keys. *Logins*: two
  browsers, three logins, two callbacks, at most two pending, a lifetime of one
  tick within two (a login expires with its callback on the way, a third meets
  the cap), one restart after logins began. *Registrations*: two repositories with
  two registrations each; the number of changes and crashes is not bounded.
  *Gate*: two answers, one for and one against; three attempts at the note, as in
  the code. *Dashboard*: one workflow ID with three runs, so that a row's run has
  newer ones, in the list and after it; a list may miss the newest run. Rows of different
  IDs are read from different histories and have nothing to do with each other.
* *Step order*: every list of three steps (up to renaming) with any dependencies, one
  of them on no step: cycles of one, two and three, diamonds, equal names.
* *Triggers*: every section with up to two globs, three path patterns, two labels, two types
  and two fields, against events with and without their metadata.
* *Matrix expansion*: every matrix of up to two keys with up to two values, of which two
  may be equal, two patterns of `exclude` and one combination of `include`; three keys,
  two of them with two values, and one pattern.
* *Pods*: two attempts. A name is shared by neighbours only: the third meets the
  second as the second meets the first.

### Fairness

Fairness is assumed of what the code or its runtime schedules: Temporal delivers
workflow tasks and signals, activities end at the latest at their
StartToClose timeout, children and steps end, `RunPod` makes its next
call while its worker lives, Kubernetes finishes a deletion, and a deletion that the cleanup
tries every hour succeeds at last (strong fairness of `CleanupDeletes`). In `PipelineRun`
commands end: the run in which a wait has no timeout (`pipeline` without "unattended") is one in
which every command ends before its timeout. Nothing is assumed of
faults, operators, timers that race with an answer, or cancellations. In
`StepPod` an hour is sure to pass only when no step is under way, so that a step
cannot owe its answer to the cleanup.

## What is proved

The theorems hold for every value of the constants that meets the assumptions
named in the modules (the last column of the table): the constants have their types,
values that stand for "absent" are not values, sets that are counted are finite. TLC
evaluates each assumption in a run. Every inductive invariant was first checked by TLC
as an invariant of the run of its component. "Replay", "Overlap" and
the like are the events of the models above.

| Module | Theorem | Statement | Assumes |
|---|---|---|---|
| `LockManagerProofs` | `TypeCorrect` | `Spec => []TypeOK`, forced releases and continue-as-new included | `ConstantsOK` |
| | `TokensCorrect` | `CoreSpec => [](TypeOK /\ OneTokenPerLock)` | |
| | `WaitersServedInOrder` | `Spec => ServedInOrder`, forced releases and continue-as-new included | |
| | `Mutex` | `CoreSpec => []MutualExclusion` | |
| | `OwnReleases` | `CoreSpec => ReleasesOnlyOwnLock` | |
| | `LockServiceCorrect` | `CoreSpec => IsLockService`, the refinement of `ExclusiveUse` | |
| | `NobodyWaitsIdly` | `PooledSpec => []NoIdleWaiter` | |
| | `RequestsServed` | without timeouts and reruns, `PooledSpec => []ServedAsAsked` | |
| `PipelineRunProofs` | `PipelineTyped`, `DependenciesDoDecide`, `VerdictsDoAgree`, `PostDoesFollow`, `LockCovers` | `Spec =>` always `TypeOK`, `DependenciesDecide`, `VerdictsAgree`, `PostFollows`, `LockCoversStep` | `PlansOK` |
| `MatrixStepProofs` | `MatrixTyped`, `MatrixAccounted`, `MatrixRunsWhatItMay` | `Spec =>` always `TypeOK`, `FullAccount`, `RunsWhatItMay` | `MatrixOK` |
| `ClusterPoolProofs` | `PoolTyped` | `Spec => []TypeOK`, replays included | `PoolConstantsOK` |
| | `PlacesAreKept` | `CoreSpec => []PlacesKept` | |
| | `LeaseServiceCorrect` | `CoreSpec => IsLeaseService`, the refinement of `ExclusiveUse` | |
| `WebhookDispatchProofs` | `DispatchTyped`, `CancelledOnlyForPushes`, `SerialRequestsBuilt` | `Spec =>` always `TypeOK`, `CancelledForAnotherPush`, `BuiltWhenSerial` | none |
| | `RegistrationKept` | `Spec => KeepsRegistration` | |
| `StepPodProofs` | `PodTyped` | `Spec => []TypeOK` | `StepPodOK` |
| | `ResultOwn` | `~Overlap => (Spec => []ResultFromOwnPod)` | |
| `ServicesProofs` | `ServicesCorrect` | `Spec => []Inv`, the invariants of the five parts | `ClockOK`, `LimiterOK`, `LoginsOK`, `GateOK`, `DashOK` |
| | `ServicesTyped`, `LimiterBounds`, `RegistrationsSurvive`, `GateDecides`, `DashboardEarned` | `Spec =>` always `TypeOK`, `AtMostRatePerInterval`, `AcknowledgedSurvives`, `FirstAnswerDecides`, `ShownIsEarned` | |
| | `LoginsAreHonest` | `Spec => LoginsHonest` | |
| `RulesProofs` | `RulesTyped`, `OrderIsJudged`, `TriggersDoFailClosed`, `CombinationsAreExact` | `Spec =>` always `TypeOK`, `OrderJudged`, `TriggersFailClosed`, `CombinationsExact` | `OrderOK`, `TriggersOK`, `MatrixOK`, `RulesOK` |

### The arguments

**LockManager, exclusion.** Mutual exclusion is not inductive: two pipelines could hold one
resource after a step in which the manager granted it twice, or a release that did
not belong to the holder was still on its way. The invariant that is inductive counts
the tokens: a resource the manager records as held is at its holder
(`HeldIsRecorded`), or in exactly one grant on its way there
(`GrantIsRecorded`), or in exactly one release on its way back
(`ReleaseIsOwed`), and nothing else refers to it. The proof states it with the
holders and the unread signals as
parameters (`Accounted(lk, box)`), because a handler changes them in two moves
(it consumes a signal and frees the resource, then grants it to a
waiter): `GrantAccounted`, `FreeAccounted`, `DropAccounted` and `SendAccounted`
are the moves, and `TokenStep` puts them together, one step per action. The
other theorems follow from the invariant. `CoreSpec` leaves out exactly
the two events that break the bookkeeping, continue-as-new and forced releases;
the violation run shows that the first cannot be let in.

**LockManager, service.** `PooledSpec` is `CoreSpec` with an obligation of the operators:
pipelines ask only when the pools are registered (`PoolsFirst`; the table of
disagreements has what happens otherwise). Then a registration changes nothing for
those who wait (`PoolsSettled`), and a free resource that somebody waits for can only be
the one that has just been released, because before that nobody waited for a free one:
`ReleaseServes` shows that whoever is served gets that resource, so that afterwards no
more is free than before. That a pool has no free member is what its search finds; the
search takes the first, and `Least` (the least-number principle, from the library's
`WFMin`) says that there is a first. No fault can break this (`WaitInv`). That
a client gets *what it asked for* needs in addition that its requests are current,
and that it has one request or one grant, never two (`AskedOnce`): the code does not
number requests, so a timeout or a rerun breaks it, and the theorem assumes that there
are none (`Budget` has none).

**LockManager, order.** The waiters that named a resource are listed by their places in the
queue (`Picked`), not with `SelectSeq`, whose definition is recursive and so beyond the
prover. `CountFacts` and `NthFacts` say that counting and listing a finite set
of numbers are inverse to each other; `ListGrows` and `ListShrinks` what becomes of the list
when the queue gets a request at its end, or loses one somewhere: the places behind move
up by one, and the list loses its head if the one that went was the first of it. That a
release serves the first waiter of its resource is `ReleaseKeepsOrder`. No other step
touches the queue but the new run of the manager, which forgets it.

**PipelineRun.** `PipeInv` relates the loop's position to its records: everything recorded,
completed or run is of an earlier step (`InPlace`); a step before the
current one is completed exactly when all of its results are good (`Grounded`);
the overall status fails exactly when some result does (`Verdicts`). One lemma
(`StepOver`) says when the end of a step keeps all of it, whatever the step was; each way out
of a step (skipped, gate, matrix, trigger, lock, role, command, post commands) is then
shown to be an instance of it. The attempt at this proof found `SkippedForCause`, as
it was stated before, false of pipelines TLC had not been given: a step with unmet
dependencies that also has a condition with `allow_skip`, and one that depends on a later
step. Both causes are now in the definition, and a ninth plan (`Passed`) has both.
The commands under way have an invariant of their own (`Commands`): those of a step with a
lock are covered by it or were given up, and when a step comes to its post commands with its
command still running it has failed or was cancelled. `PipeInv` does not need it.

**MatrixStep.** Every combination the loop has passed is in exactly one of the window, the
child waited for, and the results (`OncePlaced`); the number of commands that run is
bounded through the window while nothing was cancelled, and by not growing afterwards
(`OpenOrEnding`), since a cancelled child's command may outlive its place in the window. The
commands counted are those their children have not given up (`Attended`); `CommandsKept` says
that whatever runs is of a child that is open or has failed, the second when it was given up.

**ClusterPool.** `RequestInv` is a count: there is a name for each cluster that the
requests to come may provision, and a request is in one place. It holds with replays.
`LeaseInv` is about leases: what is offered, used or on its way back is leased, in
one place (`LeasesApart`), and a cluster is leased for a request that was answered
(`LeasesAnswer`: leases and unanswered requests together are no more than callers),
which is why a pool that may have a cluster for every test can always provision one.
A replay breaks `LeasesApart`, so these two theorems are about `CoreSpec`. A helm test that
works on after it was given up belongs to a workflow that is over (`StraysClosed`), so no
caller that is waited for is among them. While it works, the refinement says of its cluster
that nobody has it, and that is the limit of the theorem: `OneTestPerCluster`, which the code
does not have, is what it leaves out.

**WebhookDispatch.** `Alone`: in behaviours in which requests do not overlap, the
request under way is the only one and no run is open; the name of a run tells whether a
push started it (`Named`).

**StepPod.** `PodInv` follows the pod of the name through the calls of `RunPod`. As long as
runs do not overlap, the attempts reach the step one after the other (`InTurn`); from the
creation of its pod to the reading of the status an attempt finds its own pod under the
name, or none, and nothing asks for the end of that pod before all of its containers are
over, but for the cleanup when it takes the pod for the one it listed (`OwnPodOnly`); and when
the status is read, the log read was the attempt's own (`ReadsOwn`). An attempt creates one pod
only (`OnePodEach`), so when the pod of the name has the owner of the one that was listed it is
that pod, and has finished.

**Services.** Each part has an invariant of its own. The limiter's (`KeyInv`) says that the
calls let through with the tokens that are gone came at least an interval after all
the calls before them (`BatchApart`); that is what a refill of whole intervals
preserves, and it bounds any window of one interval. The file's (`RepoInv`): the data
file, when it is not torn, holds of each repository something it may rightly hold, unless the
server that wrote it had started from a file it could not read and the repository was not
registered since. The
gate's (`GateInv`): the first answer decides, and a note still to be sent has attempts
left. The logins' (`LoginsInv`): cookies and callbacks name logins that began
(`NamesBegun`), a login of this process is in the map until it is old or answered
(`StatesKept`), and a callback that was taken took the nonce with it (`TakenOnce`). The
dashboard's (`DashInv`): a row was listed with the status of its run, or as running
before the run ended.

**Rules.** A behaviour of `Rules` is one of each of its three parts (`RulesApart`), so what is
proved of `OrderSpec`, `TriggerSpec` and `MatrixSpec` holds in it.

**Triggers.** One lemma per filter says that an event with less metadata passes no filter that
the fuller event does not pass. `TriggersOK` says of the files that pipelines have names and
that the types listed under `release` and `issues` are not empty strings. The code does
not reject such files: an unnamed pipeline is selected by every run, and an empty type
matches an event that lacks its action.

**StepOrder.** `SearchInv` is what a search in depth keeps: every loop has been through
names that are done (`LoopsFollowed`), each call but the innermost waits for the next
(`CallsFollowed`), the names being visited are those on the path, once each (`SeenOnPath`),
a name that is done depends on names that are done (`DoneIsClosed`), and no set of such
names wait for each other (`DoneIsFree`). The last one makes a search without a report a
proof that there is no cycle: when a name is done, a knot that contains it would have
another name that is not. When the search meets a name on the path, the path from there on
is a knot (`MeetStep`). `RunInv` says that what has run depends on steps listed before it;
it needs nothing of the search. The proof does not use induction over the steps: their
number is a constant of a behaviour, and the induction is the one over its length.

**MatrixExpansion.** `RestInv`: what a call of `cartesian` gets from the one below is the
product of the keys it is done with, in order. `ResultInv`: what its loops have appended is
the value and the combination of every pair they have passed, in the order they pass
them. When they end, that is the product with one more key (`KeyProduct`), and it is in
order because the keys are taken from the last (`LastFirst`): a new key comes before all the
others, so that its value decides first. `FilterInv` is the same for the loop that
excludes.

### Only model-checked

* All liveness properties: `EveryWaiterServed`, `LocksComeBack`, `CommitSettles`,
  `CheckoutRemoved`, `Ends`, `TestsGiveBack`, `PodsGo`, `EndedIsAnswered`. The
  prover has no rules for ENABLED.

Every other property that a passing run checks is a theorem.

## Disagreements

Three statements of the repository are refuted by runs (findings in
`PROJECT.json`): that the state of the lock manager survives restarts, that an
accepted push is built, and that a client is limited to 60 requests per
minute. The models show others. Each can be seen by changing a run as stated;
the names are those of the modules and `MC` modules.

| Statement | What the code does | To see it |
|---|---|---|
| `lock_manager.go:37` "manages exclusive resource locks" | a release deletes the lock of whoever holds it (`:105`): after a forced release, the old holder's own release takes the lock from the next | `lock_core` with `Spec`, `Contended`, `Operator`, `PoolDefs = {}`: `ReleasesOnlyOwnLock` |
| `ci_pipeline.go:476` "Release lock after step completes" | a request that timed out (`lock_manager.go:184`) stays queued, is granted later and never released | `lock_core` with `FairCoreSpec`, `Contended`, `Slow`, `PoolDefs = {}`: `LocksComeBack` |
| `lock_manager.go:21` "actual resource name (for pool locks)" | the late grant of one step is taken by the next step for its own (`:174`) | `lock_core` with `TwoSteps`, `Slow`, `PoolDefs = {}`: `HoldsWhatItAskedFor` |
| `docs/pipeline-config.md:347` "Acquire one resource from a pool" | requests that came before the registration of their pool are not looked at (`lock_manager.go:146`) | `lock_core` with `AllFromPool`, `Pooled`: `NoIdleWaiter` |
| `architecture/workflows.md:36` not "pending forever" | a pipeline without steps leaves the commit pending (`ci_pipeline.go:73`); so does a pending status that arrives after the report (`:65`) | `pipeline` with `EmptyPlan` and `Cancellation`, or with `DeployPlan` and `LateStatus`: `CommitAlwaysSettles` |
| `architecture/workflows.md:37` "Cleanup activities remove clone directories" | a cancelled dispatch cleans up on its cancelled context (`ci_pipeline.go:54`) | `pipeline` with `SeveralPlans`, `Cancellation`: `CheckoutAlwaysRemoved` |
| `ci_pipeline.go:451` "Run per-step post commands (always, even on failure)" | not when the run is cancelled (`:460`) | `pipeline` with `DeployPlan`, `Cancellation`: `PostCommandsAlways` |
| `ci_pipeline.go:476` "Release lock after step completes" | at a cancellation, a timeout or without heartbeats the wait ends (`:448`) and the lock is released while the pod runs (`docs/pipeline-config.md:158` warns of it) | `pipeline` with `DeployPlan`, `Cancellation`: `CommandsStayCovered` |
| `docs/pipeline-config.md:151` `max_parallel: 4` | a child whose `RunStep` reaches its timeout ends while its pod runs, and the next is started (`ci_pipeline.go:570`) | `matrix_step`: `AllWithinWindow` |
| `architecture/workflows.md:36` "reports the cancellation" | a cancelled wait for a child whose failure is not propagated passes (`ci_pipeline.go:687`) | `pipeline` with `ReleasePlan`, `Cancellation`: `InterruptedNotPassed` |
| `cluster_pool.go:110` "Find an available cluster" | the pool ranges over a map to pick a cluster (`:111`), in an order that differs in a replay: a rebuilt pool leases one that it gave away before | `cluster_leases` with `Spec`, `Two`, `DesiredSize = 2`, `MaxSize = 3`, `OneReplay`: `ExclusiveLease` |
| `cluster_pool.go:16` MaxSize | clusters being provisioned are not counted (`:133`) | `cluster_leases` with `CoreSpec`, `Retried`, `MaxSize = 1`: `WithinMaximum` |
| `cluster_pool.go:136` "we'll signal when ready" | a request that finds the pool full is dropped | the same with `Calm`: `RequestKept` |
| `helmtest.go:82` "Ensure we release the cluster on exit" | a lease that comes after the test gave up is kept (`:79`) | `cluster_leases` with `Calm`: `ClustersComeBack` |
| `helmtest.go:82` "Ensure we release the cluster on exit" | the cluster is released when the test is given up, while `RunHelmTest` works on it (`:112`), and is leased to the next test | `cluster_leases` with `CoreSpec`: `OneTestPerCluster` |
| `cmd/webhook/main.go:152` "Auto-register repo on first webhook" | it overwrites a registration made since the lookup | `webhook_requests`: `KeepsRegistration` without its `serial =>` |
| `concepts/pod-execution.md:12` "steps can't interfere with each other" | the name of a pod comes from the workflow ID and the activity ID (`internal/activities/activities.go:161`): the next run of the workflow ID reaches the step while the activity of the last one has not learnt of its cancellation, and each deletes the other's pod | `pod_steps` with `Spec`, `Overlap = TRUE`, `Sidecars = {FALSE}`, `Faults = {"giveup"}`: `ResultFromOwnPod` |
| `docs/pipeline-config.md:186` sidecar containers | the pod does not finish while they run, and the step waits for its timeout (`internal/k8s/pod.go:419`) | `pod_steps`: `EndedIsAnswered` without its `~pod.sidecars` |
| `internal/k8s/pod.go:76` "delete and retry" | the deleted pod keeps its name while it stops, and the second creation fails | `pod_steps` with `Faults = {"crash"}`: `RetryCreates` |
| `internal/activities/cleanup.go:17` "older than 1 hour" | the age is counted from the creation (`internal/k8s/cleanup.go:26`): a long step's pod can go before its result is read | `pod_steps` with `Attempts = 1`, `Faults = {"hour"}`: `FinishedIsRead` |
| `internal/k8s/cleanup.go:11` "deletes completed CI pods" | the pods are listed, then deleted by name (`:27`): one created under the name of a listed pod in between (`internal/k8s/pod.go:78`) is stopped while it runs, and its exit is taken for the step's result | `pod_steps`: `EndsByItself` |
| `internal/store/repo.go:31` "creates or loads a repo store from disk" | any error of the read counts as no file (`:38`): the server starts on its own file without registrations, and its next save replaces them | `services`: `OwnFileLoaded` |
| `internal/store/repo.go:24` "RepoStore persists repo registrations" | a crash inside `os.WriteFile` (`:97`) leaves a file that does not parse, and the server starts on `/tmp/repos.json` (`cmd/webhook/main.go:58`) with other registrations or none | `services`: `AcknowledgedPersists` |
| `cmd/webhook/main.go:57` "using in-memory" | the second store is a file as well; when it does not parse, the server runs with a nil store | `services`: `HasStore` |
| `docs/ci-dashboard.md:13` "recent builds with status" | the history of a row is read by workflow ID (`cmd/webhook/ci_api.go:158`): an older build of a branch is shown with the result of the latest | `services`: `ShownIsOwn` |
| `docs/pipeline-config.md:84` "Step names this step waits for" | steps run in the order of the file (`ci_pipeline.go:248`): one that is listed before a step it depends on passes validation and is skipped | `rules`: `AcceptedAllRun` |
| `internal/eval/matrix.go:9` "computes the cartesian product of matrix dimensions, applies exclude/include" | an included combination that the product has already comes twice, and two children report under one matrix key | `rules`: `CombinationsDiffer` |

Smaller ones that need no model: builds are "Filterable by repo, branch, status"
(`docs/ci-dashboard.md:13`), but `passed` and `failed` both list every completed run
(`ci_api.go:585`); the prefix `ci-<repo>-` of a query matches the repository
`<repo>-x` as well; `Validate` is called by `cmd/validate` only, so a run never
looks for cycles (its steps are skipped instead); buckets of the rate limiter are
never removed, and without a forwarded header each connection, with its own
port, has one.


## Not modelled

* The text of commands, outputs, secrets, comments and check runs; conditions
  (`eval.go`), whose outcome is chosen freely.
* Parsing of payloads beyond what the triggers ask, and the check of their
  signature; the badge and replay handlers of `main.go`, which read or start runs
  under names of their own.
* `ResolveParameters`, reading of YAML and of the environment.
* Schedules, which no program calls, and notifications, which no program adds.
* The end of a session after 7 days, and the requests that only read it.
* The token cache of the GitHub App client.
* The other activities (S3, AWS, Slack, SARIF, metrics): input and output only.
* UI, site, deployment, images and scripts.
* `LockPoolRef.Quantity`: the code does not read it.

Some hazards have no property; `PROJECT.json` says why at each: in most cases
the code does not have the property one would state (the table above), so that
no passing run can have it.

## Plan

Done: the models of all the parts above, and the proofs of their safety properties. To
come, in this order:

1. *Refinement of the gate and of the limiter*: a limiter that knows only when it let
   calls through, implemented by the buckets.
2. *Runs of one workflow ID*: `PipelineRun` twice with `WebhookDispatch`, for the
   checkout directory that two runs share; the token cache.
