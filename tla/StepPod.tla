------------------------------ MODULE StepPod ------------------------------
(***************************************************************************)
(* How a step is run as a pod: RunPod (internal/k8s/pod.go) under the      *)
(* RunStep activity, and the hourly removal of finished pods               *)
(* (internal/k8s/cleanup.go), which lists the pods and then deletes by     *)
(* name.                                                                   *)
(*                                                                         *)
(* The name of the pod is computed from the workflow ID and the activity   *)
(* ID, so the same step of a later run of the workflow ID has the same     *)
(* name.  The attempts of this module are these: one execution of RunStep  *)
(* per run.  Kubernetes has one pod of a name at a time; a deleted pod     *)
(* keeps its name until its containers have been stopped.                  *)
(***************************************************************************)
EXTENDS Naturals

CONSTANTS
  Attempts,  \* how many runs reach the step
  Overlap,   \* a run may start while the activity of the last one goes on
  Sidecars,  \* whether the step has service containers or Docker
  Faults     \* what may happen: a subset of FaultKinds

FaultKinds == {"giveup", "crash", "api", "watch", "hour"}

ASSUME StepPodOK ==
  /\ Attempts \in Nat /\ Overlap \in BOOLEAN /\ Sidecars \subseteq BOOLEAN
  /\ Faults \subseteq FaultKinds

All == 1..Attempts

VARIABLES
  pod,       \* the pod of the name, owner 0 when there is none
  point,     \* the call each attempt is at
  notified,  \* attempts whose watch has an event of a finished pod
  read,      \* whose logs and status each attempt has read
  answer,    \* what each attempt has returned
  givenUp,   \* attempts cancelled or timed out by the workflow
  listed,    \* the owner of the pod in the cleanup's list, 0 for none
  mistaken   \* history: attempts whose pod the cleanup took for one it listed

cleanup == <<listed, mistaken>>

vars == <<pod, point, notified, read, answer, givenUp, cleanup>>

Pod == [owner : 0..Attempts, ended : BOOLEAN, finished : BOOLEAN,
        killed : BOOLEAN, deleting : BOOLEAN, old : BOOLEAN, sidecars : BOOLEAN]

\* ended: the command is over; finished: all containers are, which is the
\* phase; killed: they were stopped; old: created more than an hour ago.
NewPod(a, sidecars) ==
  [owner |-> a, ended |-> FALSE, finished |-> FALSE, killed |-> FALSE,
   deleting |-> FALSE, old |-> FALSE, sidecars |-> sidecars]

NewPods(a) == {NewPod(a, sidecars) : sidecars \in Sidecars}

NoPod == NewPod(0, FALSE)
Exists == pod.owner # 0

Points == {"new", "create", "clear", "retry", "open", "watch", "logs", "status",
           "delete", "done", "lost"}

Init ==
  /\ pod = NoPod
  /\ point = [a \in All |-> "new"]
  /\ notified = {}
  /\ read = [a \in All |-> [logs |-> 0, status |-> 0]]
  /\ answer = [a \in All |-> "none"]
  /\ givenUp = {} /\ listed = 0 /\ mistaken = {}

May(fault) == fault \in Faults

Goto(a, next) == point' = [point EXCEPT ![a] = next]

Answer(a, what) == answer' = [answer EXCEPT ![a] = what]

----------------------------------------------------------------------------
(* RunPod. *)

\* The run before is over: its activity has returned, or (when runs overlap)
\* was given up and may still be under way.
Over(a) ==
  \/ point[a] \in {"done", "lost"}
  \/ Overlap /\ a \in givenUp

Begin(a) ==
  /\ point[a] = "new" /\ \A b \in 1..(a - 1) : Over(b)
  /\ Goto(a, "create")
  /\ UNCHANGED <<pod, notified, read, answer, givenUp, cleanup>>

\* Mutant: a pod that is there is taken for the step's own.
CreateAdopts(a) ==
  /\ point[a] = "create"
  /\ pod' \in IF Exists THEN {pod} ELSE NewPods(a)
  /\ Goto(a, "open")
  /\ UNCHANGED <<notified, read, answer, givenUp, cleanup>>

\* Any error is taken for a pod of that name.
Create(a) ==
  /\ point[a] = "create"
  /\ \/ ~Exists /\ pod' \in NewPods(a) /\ Goto(a, "open")
     \/ (Exists \/ May("api")) /\ Goto(a, "clear") /\ UNCHANGED pod
  /\ UNCHANGED <<notified, read, answer, givenUp, cleanup>>

\* Deleting asks for the end of whatever pod has the name.
DeletePod == pod' = [pod EXCEPT !.deleting = Exists]

\* The error of the deletion is ignored.
Clear(a) ==
  /\ point[a] = "clear"
  /\ DeletePod \/ (May("api") /\ UNCHANGED pod)
  /\ Goto(a, "retry")
  /\ UNCHANGED <<notified, read, answer, givenUp, cleanup>>

\* The second failure ends the step, without the deferred deletion.
Retry(a) ==
  /\ point[a] = "retry"
  /\ \/ ~Exists /\ pod' \in NewPods(a) /\ Goto(a, "open") /\ UNCHANGED answer
     \/ (Exists \/ May("api")) /\ Goto(a, "done") /\ Answer(a, "error") /\ UNCHANGED pod
  /\ UNCHANGED <<notified, read, givenUp, cleanup>>

\* Mutant: the watch begins with the next change.
OpenFromNow(a) ==
  /\ point[a] = "open"
  /\ Goto(a, "watch")
  /\ UNCHANGED <<pod, notified, read, answer, givenUp, cleanup>>

\* The watch begins with the pod as it is.
Open(a) ==
  /\ point[a] = "open"
  /\ Goto(a, "watch")
  /\ notified' = IF pod.finished THEN notified \cup {a} ELSE notified
  /\ UNCHANGED <<pod, read, answer, givenUp, cleanup>>

\* The event is of some pod of the name, finished when it was sent.
WatchSees(a) ==
  /\ point[a] = "watch" /\ a \in notified
  /\ Goto(a, "logs")
  /\ UNCHANGED <<pod, notified, read, answer, givenUp, cleanup>>

Fails(a) == Goto(a, "delete") /\ Answer(a, "error")

\* The API server closes a watch after a while.
WatchCloses(a) ==
  /\ point[a] = "watch" /\ May("watch")
  /\ Fails(a)
  /\ UNCHANGED <<pod, notified, read, givenUp, cleanup>>

ReadLogs(a) ==
  /\ point[a] = "logs"
  /\ \/ /\ Exists
        /\ read' = [read EXCEPT ![a].logs = pod.owner]
        /\ Goto(a, "status")
        /\ UNCHANGED answer
     \/ (~Exists \/ May("api")) /\ Fails(a) /\ UNCHANGED read
  /\ UNCHANGED <<pod, notified, givenUp, cleanup>>

\* Mutant: a pod that is gone has exit code -1.
ReadStatusUnchecked(a) ==
  /\ point[a] = "status"
  /\ read' = [read EXCEPT ![a].status = pod.owner]
  /\ Goto(a, "delete") /\ Answer(a, "result")
  /\ UNCHANGED <<pod, notified, givenUp, cleanup>>

ReadStatus(a) ==
  /\ point[a] = "status"
  /\ \/ /\ Exists
        /\ read' = [read EXCEPT ![a].status = pod.owner]
        /\ Goto(a, "delete")
        /\ Answer(a, IF pod.killed THEN "killed" ELSE "result")
     \/ (~Exists \/ May("api")) /\ Fails(a) /\ UNCHANGED read
  /\ UNCHANGED <<pod, notified, givenUp, cleanup>>

\* The deferred deletion, by name; it may fail unnoticed.
Delete(a) ==
  /\ point[a] = "delete"
  /\ DeletePod \/ (May("api") /\ UNCHANGED pod)
  /\ Goto(a, "done")
  /\ UNCHANGED <<notified, read, answer, givenUp, cleanup>>

\* The context is cancelled, which the activity learns from a heartbeat.
Interrupted(a) ==
  /\ a \in givenUp
  /\ \/ point[a] \in {"create", "clear", "retry"} /\ Goto(a, "done") /\ Answer(a, "error")
     \/ point[a] \in {"open", "watch", "logs", "status"} /\ Fails(a)
  /\ UNCHANGED <<pod, notified, read, givenUp, cleanup>>

----------------------------------------------------------------------------
(* The workflow, the worker and the cluster. *)

Active(a) == point[a] \notin {"new", "done", "lost"}

\* The run is cancelled, or the activity reaches its timeout.
GiveUp(a) ==
  /\ May("giveup") /\ Active(a) /\ a \notin givenUp
  /\ givenUp' = givenUp \cup {a}
  /\ UNCHANGED <<pod, point, notified, read, answer, cleanup>>

\* The worker dies: nothing deferred runs.
WorkerLost(a) ==
  /\ May("crash") /\ Active(a)
  /\ Goto(a, "lost")
  /\ UNCHANGED <<pod, notified, read, answer, givenUp, cleanup>>

Watching == {a \in All : point[a] = "watch"}

\* The phase waits for every container, sidecars included.
CommandEnds ==
  /\ Exists /\ ~pod.ended
  /\ pod' = [pod EXCEPT !.ended = TRUE, !.finished = ~pod.sidecars]
  /\ notified' = IF pod.sidecars THEN notified ELSE notified \cup Watching
  /\ UNCHANGED <<point, read, answer, givenUp, cleanup>>

ContainersStopped ==
  /\ pod.deleting /\ ~pod.finished
  /\ pod' = [pod EXCEPT !.killed = ~pod.ended, !.ended = TRUE, !.finished = TRUE]
  /\ notified' = notified \cup Watching
  /\ UNCHANGED <<point, read, answer, givenUp, cleanup>>

PodGone ==
  /\ pod.deleting /\ pod.finished
  /\ pod' = NoPod
  /\ UNCHANGED <<point, notified, read, answer, givenUp, cleanup>>

HourPasses ==
  /\ May("hour") /\ Exists /\ ~pod.old
  /\ pod' = [pod EXCEPT !.old = TRUE]
  /\ UNCHANGED <<point, notified, read, answer, givenUp, cleanup>>

\* Mutant: the comparison with the cutoff the wrong way round.
StaleYoung(p) == p.finished /\ ~p.old

\* The age is that of the pod, not the time since it finished.
Stale(p) == p.finished /\ p.old

\* The list has pods that are being deleted as well.
CleanupLists ==
  /\ listed = 0 /\ Stale(pod)
  /\ listed' = pod.owner
  /\ UNCHANGED <<pod, point, notified, read, answer, givenUp, mistaken>>

\* The deletion is by name, of whatever pod has it by then.
CleanupDeletes ==
  /\ listed # 0 /\ listed' = 0
  /\ DeletePod
  /\ mistaken' = IF Exists /\ pod.owner # listed THEN mistaken \cup {pod.owner} ELSE mistaken
  /\ UNCHANGED <<point, notified, read, answer, givenUp>>

\* A deletion that fails is passed over until the next hour.
CleanupFails ==
  /\ May("api") \/ May("crash")
  /\ listed # 0 /\ listed' = 0
  /\ UNCHANGED <<pod, point, notified, read, answer, givenUp, mistaken>>

----------------------------------------------------------------------------
RunPod(a) ==
  \/ Begin(a) \/ Create(a) \/ Clear(a) \/ Retry(a) \/ Open(a) \/ WatchSees(a)
  \/ ReadLogs(a) \/ ReadStatus(a) \/ Delete(a) \/ Interrupted(a)

CleanupStalePods == CleanupLists \/ CleanupDeletes \/ CleanupFails

Cluster == CommandEnds \/ ContainersStopped \/ PodGone \/ HourPasses

Next ==
  \/ \E a \in All : RunPod(a) \/ WatchCloses(a) \/ GiveUp(a) \/ WorkerLost(a)
  \/ Cluster \/ CleanupStalePods

Spec == Init /\ [][Next]_vars

Idle == \A a \in All : ~Active(a)

\* The worker makes its calls, Kubernetes removes what is deleted and the
\* cleanup is scheduled; no command has to end.  An hour has to pass only when
\* no step is under way: a step does not depend on the cleanup.  A deletion
\* that is tried every hour succeeds at last.
FairSpec ==
  /\ Spec
  /\ \A a \in All : WF_vars(RunPod(a))
  /\ WF_vars(ContainersStopped \/ PodGone) /\ WF_vars(Idle /\ HourPasses)
  /\ WF_vars(CleanupLists) /\ SF_vars(CleanupDeletes)

----------------------------------------------------------------------------
(* Properties *)

\* Every variable keeps its shape, and a result has been read from a pod.
TypeOK ==
  /\ pod \in Pod
  /\ point \in [All -> Points]
  /\ notified \subseteq All /\ givenUp \subseteq All
  /\ listed \in 0..Attempts /\ mistaken \subseteq All
  /\ read \in [All -> [logs : 0..Attempts, status : 0..Attempts]]
  /\ answer \in [All -> {"none", "error", "result", "killed"}]
  /\ \A a \in All : answer[a] = "result" => read[a].status # 0

\* What a step returns is the log and the exit code of the pod it created,
\* and nobody stopped the command, but for the cleanup when it deletes a pod
\* by the name of one it has listed.
ResultFromOwnPod ==
  \A a \in All :
    /\ answer[a] \in {"result", "killed"} => read[a] = [logs |-> a, status |-> a]
    /\ answer[a] = "killed" => a \in mistaken

\* A finished pod does not stay, even when the worker that ran it is gone.
PodsGo == \A a \in All : pod.owner = a /\ pod.finished ~> pod.owner # a

\* When its command is over the step returns, without waiting for a timeout:
\* a command that has no sidecars and takes less than an hour, and whose pod
\* the cleanup leaves alone.
EndedIsAnswered ==
  \A a \in All :
    (pod.owner = a /\ pod.ended /\ ~pod.sidecars
       /\ point[a] \in {"open", "watch", "logs", "status"})
    ~> (answer[a] # "none" \/ a \in givenUp \/ point[a] = "lost" \/ pod.old
          \/ a \in mistaken)

----------------------------------------------------------------------------
(* Statements of the documents and comments that the code does not meet; *)
(* the README says how to see it.                                        *)

\* The cleanup deletes completed pods: no step is answered with the status of a
\* command that was stopped.
EndsByItself == \A a \in All : answer[a] # "killed"

\* A step that found its name taken, and deleted the pod, gets a pod.
RetryCreates ==
  [][\A a \in All : point[a] = "retry" /\ a \notin givenUp => answer'[a] # "error"]_vars

\* A step that was told its pod has finished gets its result.
FinishedIsRead ==
  [][\A a \in All : point[a] \in {"logs", "status"} /\ a \notin givenUp => answer'[a] # "error"]_vars
============================================================================
