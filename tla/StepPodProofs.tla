--------------------------- MODULE StepPodProofs ---------------------------
(***************************************************************************)
(* Proofs about StepPod, for any number of runs that reach the step, with  *)
(* or without sidecars, and whatever faults may happen.                    *)
(***************************************************************************)
EXTENDS StepPod, TLAPS

----------------------------------------------------------------------------
(* Types *)

LEMMA PodTypes ==
  ASSUME StepPodOK, TypeOK
  PROVE  /\ NoPod \in Pod /\ NoPod.owner = 0
         /\ \A a \in All : \A p \in NewPods(a) :
              p \in Pod /\ p.owner = a /\ ~p.deleting /\ ~p.killed
         /\ DeletePod => pod' \in Pod /\ pod'.owner = pod.owner /\ pod'.finished = pod.finished
                           /\ pod'.killed = pod.killed
<1>1. 0 \in 0..Attempts /\ All \subseteq 0..Attempts
  BY DEF StepPodOK, All
<1>2. NoPod \in Pod /\ NoPod.owner = 0
  BY <1>1 DEF NoPod, NewPod, Pod
<1>3. \A a \in All : \A s \in BOOLEAN :
        NewPod(a, s) \in Pod /\ NewPod(a, s).owner = a /\ ~NewPod(a, s).deleting
          /\ ~NewPod(a, s).killed
  BY <1>1 DEF NewPod, Pod
<1>4. \A a \in All : \A p \in NewPods(a) :
        p \in Pod /\ p.owner = a /\ ~p.deleting /\ ~p.killed
  BY <1>3 DEF NewPods, StepPodOK
<1>5. DeletePod => pod' \in Pod /\ pod'.owner = pod.owner /\ pod'.finished = pod.finished
                     /\ pod'.killed = pod.killed
  BY DEF DeletePod, TypeOK, Pod, Exists
<1> QED  BY <1>2, <1>4, <1>5

LEMMA GotoTypes ==
  ASSUME TypeOK, NEW a \in All, NEW next \in Points, Goto(a, next)
  PROVE  /\ point' \in [All -> Points] /\ point'[a] = next
         /\ \A b \in All : b # a => point'[b] = point[b]
BY DEF Goto, TypeOK

\* An answer that is no result needs nothing read.
LEMMA AnswerTypes ==
  ASSUME TypeOK, NEW a \in All, NEW what \in {"none", "error", "result", "killed"},
         Answer(a, what)
  PROVE  /\ answer' \in [All -> {"none", "error", "result", "killed"}]
         /\ answer'[a] = what
         /\ \A b \in All : b # a => answer'[b] = answer[b]
BY DEF Answer, TypeOK

LEMMA PodStepTypes == StepPodOK /\ TypeOK /\ [Next]_vars => TypeOK'
<1> SUFFICES ASSUME StepPodOK, TypeOK, [Next]_vars
             PROVE  TypeOK'
  OBVIOUS
<1>0. /\ \A p \in Points : p = p
      /\ {"new", "create", "clear", "retry", "open", "watch", "logs", "status",
          "delete", "done", "lost"} = Points
      /\ {"none", "error"} \subseteq {"none", "error", "result", "killed"}
  BY DEF Points
\* Steps of an attempt that read nothing.
<1>1. ASSUME NEW a \in All, NEW next \in Points, Goto(a, next), pod' \in Pod,
             notified' \subseteq All, givenUp' \subseteq All, UNCHANGED <<read, cleanup>>,
             UNCHANGED answer \/ Answer(a, "error")
      PROVE  TypeOK'
  <2>1. point' \in [All -> Points]
    BY <1>1, GotoTypes
  <2>2. CASE UNCHANGED answer
    BY <1>1, <2>1, <2>2 DEF TypeOK, cleanup
  <2>3. CASE Answer(a, "error")
    BY <1>1, <2>1, <2>3, AnswerTypes DEF TypeOK, cleanup
  <2> QED  BY <1>1, <2>2, <2>3
\* Steps of the cluster and the workflow.
<1>2. ASSUME pod' \in Pod, notified' \subseteq All, givenUp' \subseteq All,
             listed' \in 0..Attempts, mistaken' \subseteq All,
             UNCHANGED <<point, read, answer>>
      PROVE  TypeOK'
  BY <1>2 DEF TypeOK
<1>3. /\ pod \in Pod /\ notified \subseteq All /\ givenUp \subseteq All
      /\ listed \in 0..Attempts /\ mistaken \subseteq All
      /\ pod.owner \in 0..Attempts /\ (Exists => pod.owner \in All)
  BY StepPodOK DEF TypeOK, Pod, Exists, All
<1>4. ASSUME NEW a \in All, Begin(a) \/ Create(a) \/ Clear(a) \/ Retry(a) \/ Open(a)
      PROVE  TypeOK'
  <2>1. CASE Begin(a)
    BY <1>0, <1>1, <1>3, <2>1 DEF Begin
  <2>2. CASE Create(a)
    BY <1>0, <1>1, <1>3, <2>2, PodTypes DEF Create
  <2>3. CASE Clear(a)
    BY <1>0, <1>1, <1>3, <2>3, PodTypes DEF Clear
  <2>4. CASE Retry(a)
    BY <1>0, <1>1, <1>3, <2>4, PodTypes DEF Retry
  <2>5. CASE Open(a)
    BY <1>0, <1>1, <1>3, <2>5 DEF Open
  <2> QED  BY <1>4, <2>1, <2>2, <2>3, <2>4, <2>5
<1>5. ASSUME NEW a \in All, WatchSees(a) \/ WatchCloses(a) \/ Delete(a) \/ Interrupted(a)
                              \/ WorkerLost(a)
      PROVE  TypeOK'
  <2>1. CASE WatchSees(a)
    BY <1>0, <1>1, <1>3, <2>1 DEF WatchSees
  <2>2. CASE WatchCloses(a)
    BY <1>0, <1>1, <1>3, <2>2 DEF WatchCloses, Fails
  <2>3. CASE Delete(a)
    BY <1>0, <1>1, <1>3, <2>3, PodTypes DEF Delete
  <2>4. CASE Interrupted(a)
    BY <1>0, <1>1, <1>3, <2>4 DEF Interrupted, Fails
  <2>5. CASE WorkerLost(a)
    BY <1>0, <1>1, <1>3, <2>5 DEF WorkerLost
  <2> QED  BY <1>5, <2>1, <2>2, <2>3, <2>4, <2>5
<1>6. ASSUME NEW a \in All, ReadLogs(a)
      PROVE  TypeOK'
  <2>1. CASE Fails(a) /\ UNCHANGED read
    BY <1>0, <1>1, <1>3, <1>6, <2>1 DEF ReadLogs, Fails
  <2>2. CASE Goto(a, "status") /\ read' = [read EXCEPT ![a].logs = pod.owner] /\ UNCHANGED answer
    <3>1. pod.owner \in 0..Attempts
      BY DEF TypeOK, Pod
    <3>2. /\ read' \in [All -> [logs : 0..Attempts, status : 0..Attempts]]
          /\ \A b \in All : read'[b].status = read[b].status
      BY <2>2, <3>1 DEF TypeOK
    <3> QED  BY <1>0, <1>3, <1>6, <2>2, <3>2, GotoTypes DEF ReadLogs, TypeOK, cleanup
  <2> QED  BY <1>6, <2>1, <2>2 DEF ReadLogs
<1>7. ASSUME NEW a \in All, ReadStatus(a)
      PROVE  TypeOK'
  <2>1. CASE Fails(a) /\ UNCHANGED read
    BY <1>0, <1>1, <1>3, <1>7, <2>1 DEF ReadStatus, Fails
  <2>2. CASE /\ Exists /\ Goto(a, "delete")
             /\ read' = [read EXCEPT ![a].status = pod.owner]
             /\ Answer(a, IF pod.killed THEN "killed" ELSE "result")
    <3>1. pod.owner \in 0..Attempts /\ pod.owner # 0
      BY <2>2 DEF TypeOK, Pod, Exists
    <3>2. /\ read' \in [All -> [logs : 0..Attempts, status : 0..Attempts]]
          /\ read'[a].status = pod.owner
          /\ \A b \in All : b # a => read'[b] = read[b]
      BY <2>2, <3>1 DEF TypeOK
    <3>3. /\ answer' \in [All -> {"none", "error", "result", "killed"}]
          /\ \A b \in All : b # a => answer'[b] = answer[b]
      BY <2>2, AnswerTypes
    <3>4. \A b \in All : answer'[b] = "result" => read'[b].status # 0
      BY <3>1, <3>2, <3>3 DEF TypeOK
    <3> QED  BY <1>0, <1>3, <1>7, <2>2, <3>2, <3>3, <3>4, GotoTypes DEF ReadStatus, TypeOK, cleanup
  <2> QED  BY <1>7, <2>1, <2>2 DEF ReadStatus
<1>8. ASSUME NEW a \in All, GiveUp(a)
      PROVE  TypeOK'
  BY <1>2, <1>3, <1>8 DEF GiveUp, cleanup
<1>9. CASE Cluster
  <2>1. CASE CommandEnds
    <3>1. pod' \in Pod
      BY <1>3, <2>1 DEF CommandEnds, Pod
    <3> QED  BY <1>2, <1>3, <2>1, <3>1 DEF CommandEnds, Watching, cleanup
  <2>2. CASE ContainersStopped
    <3>1. pod' \in Pod
      BY <1>3, <2>2 DEF ContainersStopped, Pod
    <3> QED  BY <1>2, <1>3, <2>2, <3>1 DEF ContainersStopped, Watching, cleanup
  <2>3. CASE PodGone
    BY <1>2, <1>3, <2>3, PodTypes DEF PodGone, cleanup
  <2>4. CASE HourPasses
    <3>1. pod' \in Pod
      BY <1>3, <2>4 DEF HourPasses, Pod
    <3> QED  BY <1>2, <1>3, <2>4, <3>1 DEF HourPasses, cleanup
  <2> QED  BY <1>9, <2>1, <2>2, <2>3, <2>4 DEF Cluster
<1>10. CASE CleanupStalePods
  <2>1. CASE CleanupLists
    BY <1>2, <1>3, <2>1 DEF CleanupLists
  <2>2. CASE CleanupDeletes
    <3>1. pod' \in Pod
      BY <2>2, PodTypes DEF CleanupDeletes
    <3>2. listed' \in 0..Attempts /\ mistaken' \subseteq All
      BY <1>3, <2>2, StepPodOK DEF CleanupDeletes
    <3> QED  BY <1>2, <1>3, <2>2, <3>1, <3>2 DEF CleanupDeletes
  <2>3. CASE CleanupFails
    BY <1>2, <1>3, <2>3, StepPodOK DEF CleanupFails
  <2> QED  BY <1>10, <2>1, <2>2, <2>3 DEF CleanupStalePods
<1>11. CASE UNCHANGED vars
  BY <1>2, <1>3, <1>11 DEF vars, cleanup
<1> QED  BY <1>4, <1>5, <1>6, <1>7, <1>8, <1>9, <1>10, <1>11 DEF Next, RunPod

LEMMA PodStart == StepPodOK => (Init => TypeOK)
<1> SUFFICES ASSUME StepPodOK, Init
             PROVE  TypeOK
  OBVIOUS
<1>1. 0 \in 0..Attempts /\ NoPod \in Pod
  BY DEF StepPodOK, NoPod, NewPod, Pod
<1> QED  BY <1>1 DEF Init, TypeOK, Points

\* Every variable of StepPod keeps its type.
THEOREM PodTyped == Spec => []TypeOK
BY StepPodOK, PodStart, PodStepTypes, PTL DEF Spec

----------------------------------------------------------------------------
(* The pod of a step is its own *)

Idles(p) == p \in {"new", "done", "lost"}

AtPod(a) == point[a] \in {"open", "watch", "logs", "status"}

\* Runs that do not overlap reach the step one after the other.
InTurn ==
  \A a, b \in All : a < b /\ point[b] # "new" => point[a] \in {"done", "lost"}

\* From the creation of its pod to the reading of its status, a step finds
\* its own pod under the name or none; nothing asks for the end of that pod
\* before all of its containers are over, unless the cleanup mistook it.
OwnPodOnly ==
  /\ pod.finished => pod.ended
  /\ \A a \in All : AtPod(a) =>
       /\ pod.owner \in {0, a}
       /\ pod.owner = a => a \in mistaken \/ (~pod.killed /\ (pod.deleting => pod.finished))

Creating == {"new", "create", "clear", "retry"}

\* An attempt creates one pod only, so the pod that was listed is known by its
\* owner; it has finished.
OnePodEach ==
  /\ \A a \in All : a \in {pod.owner, listed} => point[a] \notin Creating
  /\ listed # 0 /\ pod.owner = listed => pod.finished

ReadsOwn ==
  \A a \in All :
    /\ point[a] = "status" => read[a].logs = a
    /\ answer[a] \in {"result", "killed"} => point[a] \in {"delete", "done", "lost"}

PodInv == TypeOK /\ InTurn /\ OwnPodOnly /\ OnePodEach /\ ReadsOwn /\ ResultFromOwnPod

LEMMA OwnPodStep ==
  StepPodOK /\ ~Overlap /\ PodInv /\ [Next]_vars => PodInv'
<1> SUFFICES ASSUME StepPodOK, ~Overlap, PodInv, [Next]_vars
             PROVE  PodInv'
  OBVIOUS
<1>0. TypeOK /\ TypeOK'
  BY PodStepTypes DEF PodInv
<1>01. /\ All \subseteq Nat /\ Attempts \in Nat /\ 0 \notin All
       /\ DOMAIN point = All /\ DOMAIN read = All /\ DOMAIN answer = All
  BY <1>0 DEF TypeOK, StepPodOK, All
<1>1. \A a, b \in All : ~Idles(point[a]) /\ ~Idles(point[b]) => a = b
  <2> SUFFICES ASSUME NEW a \in All, NEW b \in All, ~Idles(point[a]), ~Idles(point[b]), a # b
               PROVE  FALSE
    OBVIOUS
  <2>1. a < b \/ b < a
    BY <1>01
  <2> QED  BY <2>1 DEF PodInv, InTurn, Idles
\* A step of one attempt that leaves the pod and the readings, and gives no result.
<1>2. ASSUME NEW a \in All, NEW next \in Points, ~Idles(point[a]), Goto(a, next),
             next \in {"open", "watch", "logs", "status"} => AtPod(a),
             next # "status", next # "new",
             next \in Creating => point[a] \in Creating,
             UNCHANGED pod, UNCHANGED read, UNCHANGED cleanup,
             \/ UNCHANGED answer /\ point[a] # "delete"
             \/ UNCHANGED answer /\ next \in {"done", "lost"}
             \/ Answer(a, "error")
      PROVE  PodInv'
  <2>1. /\ point'[a] = next /\ \A b \in All : b # a => point'[b] = point[b]
    BY <1>2, GotoTypes, <1>0
  <2>2. InTurn'
    <3> SUFFICES ASSUME NEW b \in All, NEW c \in All, b < c, point'[c] # "new"
                 PROVE  point'[b] \in {"done", "lost"}
      BY DEF InTurn
    <3>1. point[c] # "new"
      BY <1>2, <2>1 DEF Idles
    <3>2. point[b] \in {"done", "lost"}
      BY <3>1 DEF PodInv, InTurn
    <3> QED  BY <3>2, <2>1, <1>2 DEF Idles
  <2>3. OwnPodOnly'
    BY <1>2, <2>1 DEF PodInv, OwnPodOnly, AtPod, cleanup
  <2>4. \A b \in All : answer'[b] = answer[b] \/ (b = a /\ answer'[b] = "error")
    BY <1>2, <1>0, AnswerTypes
  <2>5. answer'[a] \in {"result", "killed"} => next \in {"delete", "done", "lost"}
    BY <1>2, <1>0, AnswerTypes DEF PodInv, ReadsOwn, Idles
  <2>6. ReadsOwn'
    BY <1>2, <2>1, <2>4, <2>5 DEF PodInv, ReadsOwn
  <2>7. ResultFromOwnPod'
    BY <1>2, <2>4 DEF PodInv, ResultFromOwnPod, cleanup
  <2>8. OnePodEach'
    BY <1>2, <2>1 DEF PodInv, OnePodEach, cleanup
  <2> QED  BY <1>0, <2>2, <2>3, <2>6, <2>7, <2>8 DEF PodInv
\* The step goes on to watch the pod it has just created.
<1>3. ASSUME NEW a \in All, point[a] \in {"create", "retry"}, pod' \in NewPods(a),
             Goto(a, "open"), UNCHANGED <<read, answer, cleanup>>
      PROVE  PodInv'
  <2>1. /\ point'[a] = "open" /\ \A b \in All : b # a => point'[b] = point[b]
    BY <1>3, GotoTypes, <1>0 DEF Points
  <2>2. InTurn'
    <3> SUFFICES ASSUME NEW b \in All, NEW c \in All, b < c, point'[c] # "new"
                 PROVE  point'[b] \in {"done", "lost"}
      BY DEF InTurn
    <3>1. point[c] # "new"
      BY <1>3, <2>1
    <3>2. point[b] \in {"done", "lost"}
      BY <3>1 DEF PodInv, InTurn
    <3> QED  BY <3>2, <2>1, <1>3
  <2>3. pod'.owner = a /\ ~pod'.deleting /\ ~pod'.killed /\ ~pod'.finished
    BY <1>3 DEF NewPods, NewPod
  <2>4. \A b \in All : point'[b] \in {"open", "watch", "logs", "status"} => b = a
    BY <1>1, <1>3, <2>1 DEF Idles
  <2>5. OwnPodOnly'
    BY <2>3, <2>4 DEF OwnPodOnly, AtPod
  <2>6. ReadsOwn'
    BY <1>3, <2>1 DEF PodInv, ReadsOwn
  <2>7. ResultFromOwnPod'
    BY <1>3 DEF PodInv, ResultFromOwnPod, cleanup
  <2>8. OnePodEach'
    BY <1>3, <2>1, <2>3 DEF PodInv, OnePodEach, Creating, cleanup
  <2> QED  BY <1>0, <2>2, <2>5, <2>6, <2>7, <2>8 DEF PodInv
\* Steps that leave the attempts where they are.
<1>4. ASSUME UNCHANGED <<point, read, answer>>, pod'.finished => pod'.ended,
             mistaken \subseteq mistaken', pod'.owner \in {0, pod.owner},
             listed' \in {0, listed, pod.owner},
             listed' # 0 /\ pod'.owner = listed' => pod'.finished,
             \A a \in All : AtPod(a) /\ pod'.owner # 0 =>
               /\ pod'.owner = pod.owner
               /\ pod.owner \in mistaken' \/ (~pod'.killed /\ (pod'.deleting => pod'.finished))
      PROVE  PodInv'
  <2>1. OwnPodOnly'
    BY <1>01, <1>4 DEF PodInv, OwnPodOnly, AtPod
  <2>2. OnePodEach'
    BY <1>01, <1>4 DEF PodInv, OnePodEach
  <2> QED  BY <1>0, <1>4, <2>1, <2>2 DEF PodInv, InTurn, ReadsOwn, ResultFromOwnPod
\* A step that deletes the pod of the name is at no pod afterwards.
<1>5. ASSUME NEW a \in All, ~Idles(point[a]), ~AtPod(a), DeletePod,
             NEW next \in {"retry", "done"}, Goto(a, next), UNCHANGED <<read, answer, cleanup>>,
             point[a] = "clear" \/ next = "done"
      PROVE  PodInv'
  <2>1. /\ point'[a] = next /\ \A b \in All : b # a => point'[b] = point[b]
    BY <1>5, GotoTypes, <1>0 DEF Points
  <2>2. InTurn'
    <3> SUFFICES ASSUME NEW b \in All, NEW c \in All, b < c, point'[c] # "new"
                 PROVE  point'[b] \in {"done", "lost"}
      BY DEF InTurn
    <3>1. point[c] # "new"
      BY <1>5, <2>1 DEF Idles
    <3>2. point[b] \in {"done", "lost"}
      BY <3>1 DEF PodInv, InTurn
    <3> QED  BY <3>2, <2>1, <1>5 DEF Idles
  <2>3. \A b \in All : point'[b] \notin {"open", "watch", "logs", "status"}
    BY <1>1, <1>5, <2>1 DEF Idles, AtPod
  <2>4. pod'.finished => pod'.ended
    BY <1>0, <1>5 DEF DeletePod, TypeOK, Pod, PodInv, OwnPodOnly
  <2>5. OwnPodOnly'
    BY <2>3, <2>4 DEF OwnPodOnly, AtPod
  <2>6. ReadsOwn'
    BY <1>5, <2>1 DEF PodInv, ReadsOwn, Idles
  <2>7. ResultFromOwnPod'
    BY <1>5 DEF PodInv, ResultFromOwnPod, cleanup
  <2>8. pod'.owner = pod.owner /\ pod'.finished = pod.finished
    BY <1>0, <1>5 DEF DeletePod, TypeOK, Pod
  <2>9. OnePodEach'
    BY <1>5, <2>1, <2>8 DEF PodInv, OnePodEach, Creating, AtPod, Idles, cleanup
  <2> QED  BY <1>0, <2>2, <2>5, <2>6, <2>7, <2>9 DEF PodInv
<1>6. ASSUME NEW a \in All, Begin(a)
      PROVE  PodInv'
  <2>1. /\ point'[a] = "create" /\ \A b \in All : b # a => point'[b] = point[b]
    BY <1>6, GotoTypes, <1>0 DEF Points, Begin
  <2>2. InTurn'
    <3> SUFFICES ASSUME NEW b \in All, NEW c \in All, b < c, point'[c] # "new"
                 PROVE  point'[b] \in {"done", "lost"}
      BY DEF InTurn
    <3>1. CASE c = a
      <4>1. b \in 1..(a - 1)
        BY <3>1, <1>01 DEF All
      <4>2. Over(b) /\ b # a
        BY <4>1, <1>6, <3>1, <1>01 DEF Begin
      <4> QED  BY <4>2, <2>1 DEF Over
    <3>2. CASE c # a
      <4>1. point[b] \in {"done", "lost"}
        BY <3>2, <2>1 DEF PodInv, InTurn
      <4> QED  BY <4>1, <2>1, <1>6 DEF Begin
    <3> QED  BY <3>1, <3>2
  <2>3. OwnPodOnly'
    BY <1>6, <2>1 DEF PodInv, OwnPodOnly, AtPod, Begin, cleanup
  <2>4. ReadsOwn'
    BY <1>6, <2>1 DEF PodInv, ReadsOwn, Begin
  <2>5. ResultFromOwnPod'
    BY <1>6 DEF PodInv, ResultFromOwnPod, Begin, cleanup
  <2>6. OnePodEach'
    BY <1>6, <2>1 DEF PodInv, OnePodEach, Creating, Begin, cleanup
  <2> QED  BY <1>0, <2>2, <2>3, <2>4, <2>5, <2>6 DEF PodInv
<1>7. ASSUME NEW a \in All, Create(a) \/ Clear(a) \/ Retry(a)
      PROVE  PodInv'
  <2>1. point[a] \in {"create", "clear", "retry"} /\ ~Idles(point[a]) /\ ~AtPod(a)
    BY <1>7 DEF Create, Clear, Retry, Idles, AtPod
  <2>2. CASE Create(a)
    <3>1. CASE pod' \in NewPods(a) /\ Goto(a, "open")
      BY <1>3, <2>2, <3>1 DEF Create
    <3>2. CASE Goto(a, "clear") /\ UNCHANGED pod
      BY <1>2, <2>1, <2>2, <3>2 DEF Create, Points, Creating
    <3> QED  BY <2>2, <3>1, <3>2 DEF Create
  <2>3. CASE Clear(a)
    <3>1. CASE DeletePod
      BY <1>5, <2>1, <2>3, <3>1 DEF Clear
    <3>2. CASE UNCHANGED pod
      BY <1>2, <2>1, <2>3, <3>2 DEF Clear, Points, Creating
    <3> QED  BY <2>3, <3>1, <3>2 DEF Clear
  <2>4. CASE Retry(a)
    <3>1. CASE pod' \in NewPods(a) /\ Goto(a, "open") /\ UNCHANGED answer
      BY <1>3, <2>4, <3>1 DEF Retry
    <3>2. CASE Goto(a, "done") /\ Answer(a, "error") /\ UNCHANGED pod
      BY <1>2, <2>1, <2>4, <3>2 DEF Retry, Points, Creating
    <3> QED  BY <2>4, <3>1, <3>2 DEF Retry
  <2> QED  BY <1>7, <2>2, <2>3, <2>4
<1>8. ASSUME NEW a \in All, Open(a) \/ WatchSees(a) \/ WatchCloses(a)
      PROVE  PodInv'
  <2>1. AtPod(a) /\ ~Idles(point[a])
    BY <1>8 DEF Open, WatchSees, WatchCloses, Idles, AtPod
  <2>2. CASE Open(a)
    BY <1>2, <2>1, <2>2 DEF Open, Points, Creating
  <2>3. CASE WatchSees(a)
    BY <1>2, <2>1, <2>3 DEF WatchSees, Points, Creating
  <2>4. CASE WatchCloses(a)
    BY <1>2, <2>1, <2>4 DEF WatchCloses, Fails, Points, Creating
  <2> QED  BY <1>8, <2>2, <2>3, <2>4
<1>9. ASSUME NEW a \in All, Delete(a) \/ Interrupted(a) \/ WorkerLost(a)
      PROVE  PodInv'
  <2>1. CASE Delete(a)
    <3>1. point[a] = "delete" /\ ~Idles(point[a]) /\ ~AtPod(a)
      BY <2>1 DEF Delete, Idles, AtPod
    <3>2. CASE DeletePod
      BY <1>5, <2>1, <3>1, <3>2 DEF Delete
    <3>3. CASE UNCHANGED pod
      BY <1>2, <2>1, <3>1, <3>3 DEF Delete, Points, Creating
    <3> QED  BY <2>1, <3>2, <3>3 DEF Delete
  <2>2. CASE Interrupted(a)
    <3>1. CASE point[a] \in {"create", "clear", "retry"} /\ Goto(a, "done") /\ Answer(a, "error")
      BY <1>2, <2>2, <3>1 DEF Interrupted, Points, Idles, Creating
    <3>2. CASE AtPod(a) /\ Goto(a, "delete") /\ Answer(a, "error")
      BY <1>2, <2>2, <3>2 DEF Interrupted, Points, Idles, AtPod, Creating
    <3> QED  BY <2>2, <3>1, <3>2 DEF Interrupted, Fails, AtPod
  <2>3. CASE WorkerLost(a)
    BY <1>2, <2>3 DEF WorkerLost, Active, Idles, Points, Creating
  <2> QED  BY <1>9, <2>1, <2>2, <2>3
<1>10. ASSUME NEW a \in All, ReadLogs(a)
       PROVE  PodInv'
  <2>1. point[a] = "logs" /\ AtPod(a) /\ ~Idles(point[a])
    BY <1>10 DEF ReadLogs, AtPod, Idles
  <2>2. CASE Fails(a) /\ UNCHANGED read
    BY <1>2, <1>10, <2>1, <2>2 DEF ReadLogs, Fails, Points, Creating
  <2>3. CASE /\ Exists /\ Goto(a, "status") /\ UNCHANGED answer
             /\ read' = [read EXCEPT ![a].logs = pod.owner]
    <3>1. /\ point'[a] = "status" /\ \A b \in All : b # a => point'[b] = point[b]
      BY <2>3, GotoTypes, <1>0 DEF Points
    <3>2. InTurn'
      BY <2>1, <3>1 DEF PodInv, InTurn
    <3>3. OwnPodOnly'
      BY <1>10, <2>1, <3>1 DEF PodInv, OwnPodOnly, AtPod, ReadLogs, cleanup
    <3>4. pod.owner = a
      BY <2>1, <2>3 DEF Exists, PodInv, OwnPodOnly
    <3>5. read'[a].logs = a /\ \A b \in All : b # a => read'[b] = read[b]
      BY <1>0, <2>3, <3>4 DEF TypeOK
    <3>6. ReadsOwn' /\ ResultFromOwnPod'
      BY <1>10, <2>1, <2>3, <3>1, <3>5 DEF PodInv, ReadsOwn, ResultFromOwnPod, ReadLogs, cleanup
    <3>7. OnePodEach'
      BY <1>10, <2>1, <3>1 DEF PodInv, OnePodEach, Creating, ReadLogs, cleanup
    <3> QED  BY <1>0, <3>2, <3>3, <3>6, <3>7 DEF PodInv
  <2> QED  BY <1>10, <2>2, <2>3 DEF ReadLogs
<1>11. ASSUME NEW a \in All, ReadStatus(a)
       PROVE  PodInv'
  <2>1. point[a] = "status" /\ AtPod(a) /\ ~Idles(point[a])
    BY <1>11 DEF ReadStatus, AtPod, Idles
  <2>2. CASE Fails(a) /\ UNCHANGED read
    BY <1>2, <1>11, <2>1, <2>2 DEF ReadStatus, Fails, Points, Creating
  <2>3. CASE /\ Exists /\ Goto(a, "delete")
             /\ Answer(a, IF pod.killed THEN "killed" ELSE "result")
             /\ read' = [read EXCEPT ![a].status = pod.owner]
    <3>1. /\ point'[a] = "delete" /\ \A b \in All : b # a => point'[b] = point[b]
      BY <2>3, GotoTypes, <1>0 DEF Points
    <3>2. InTurn'
      BY <2>1, <3>1 DEF PodInv, InTurn
    <3>3. OwnPodOnly'
      BY <1>11, <2>1, <3>1 DEF PodInv, OwnPodOnly, AtPod, ReadStatus, cleanup
    <3>4. pod.owner = a /\ (pod.killed => a \in mistaken)
      BY <2>1, <2>3 DEF Exists, PodInv, OwnPodOnly
    <3>5. read[a].logs = a /\ read[a] \in [logs : 0..Attempts, status : 0..Attempts]
      BY <1>0, <2>1 DEF PodInv, ReadsOwn, TypeOK
    <3>6. read' = [read EXCEPT ![a] = [read[a] EXCEPT !.status = a]]
      BY <1>0, <2>3, <3>4 DEF TypeOK
    <3>7. /\ read'[a] = [logs |-> a, status |-> a]
          /\ \A b \in All : b # a => read'[b] = read[b]
      BY <1>01, <3>5, <3>6
    <3>8. /\ answer'[a] \in {"result", "killed"} /\ (answer'[a] = "killed" => a \in mistaken)
          /\ \A b \in All : b # a => answer'[b] = answer[b]
      BY <1>0, <2>3, <3>4, AnswerTypes
    <3>9. ReadsOwn'
      BY <3>1, <3>7, <3>8 DEF PodInv, ReadsOwn
    <3>10. ResultFromOwnPod'
      BY <1>11, <3>7, <3>8 DEF PodInv, ResultFromOwnPod, ReadStatus, cleanup
    <3>11. OnePodEach'
      BY <1>11, <2>1, <3>1 DEF PodInv, OnePodEach, Creating, ReadStatus, cleanup
    <3> QED  BY <1>0, <3>2, <3>3, <3>9, <3>10, <3>11 DEF PodInv
  <2> QED  BY <1>11, <2>2, <2>3 DEF ReadStatus
<1>12. ASSUME NEW a \in All, GiveUp(a)
       PROVE  PodInv'
  BY <1>4, <1>12 DEF GiveUp, PodInv, OwnPodOnly, OnePodEach, cleanup
<1>13. CASE Cluster
  <2>0. pod \in Pod
    BY <1>0 DEF TypeOK
  <2>1. CASE CommandEnds
    <3>1. /\ pod'.owner = pod.owner /\ pod'.killed = pod.killed /\ pod'.deleting = pod.deleting
          /\ pod'.ended /\ ~pod.ended /\ ~pod.finished
      BY <2>0, <2>1 DEF CommandEnds, Pod, PodInv, OwnPodOnly
    <3> QED  BY <1>4, <2>1, <3>1 DEF CommandEnds, PodInv, OwnPodOnly, OnePodEach, cleanup
  <2>2. CASE ContainersStopped
    <3>1. pod'.owner = pod.owner /\ pod'.finished /\ pod'.ended
      BY <2>0, <2>2 DEF ContainersStopped, Pod
    <3>2. \A a \in All : AtPod(a) => pod.owner = 0 \/ pod.owner \in mistaken
      BY <2>2 DEF ContainersStopped, PodInv, OwnPodOnly
    <3> QED  BY <1>4, <2>2, <3>1, <3>2 DEF ContainersStopped, cleanup
  <2>3. CASE PodGone
    BY <1>4, <2>3 DEF PodGone, NoPod, NewPod, cleanup
  <2>4. CASE HourPasses
    <3>1. /\ pod'.owner = pod.owner /\ pod'.killed = pod.killed /\ pod'.deleting = pod.deleting
          /\ pod'.ended = pod.ended /\ pod'.finished = pod.finished
      BY <2>0, <2>4 DEF HourPasses, Pod
    <3> QED  BY <1>4, <2>4, <3>1 DEF HourPasses, PodInv, OwnPodOnly, OnePodEach, cleanup
  <2> QED  BY <1>13, <2>1, <2>2, <2>3, <2>4 DEF Cluster
<1>14. CASE CleanupStalePods
  <2>1. CASE UNCHANGED <<pod, mistaken>>
    BY <1>4, <1>14, <2>1 DEF CleanupStalePods, CleanupLists, CleanupDeletes, CleanupFails,
                             Stale, PodInv, OwnPodOnly, OnePodEach
  <2>2. CASE CleanupDeletes
    <3>1. /\ pod'.owner = pod.owner /\ pod'.killed = pod.killed /\ pod'.deleting = Exists
          /\ pod'.ended = pod.ended /\ pod'.finished = pod.finished
      BY <1>0, <2>2 DEF CleanupDeletes, DeletePod, TypeOK, Pod
    <3>2. mistaken \subseteq mistaken'
      BY <2>2 DEF CleanupDeletes
    <3>3. ASSUME NEW a \in All, AtPod(a), pod.owner = a
          PROVE  a \in mistaken' \/ (~pod'.killed /\ (pod'.deleting => pod'.finished))
      <4>1. CASE a \in mistaken
        BY <3>2, <4>1
      <4>2. CASE a # listed
        BY <1>01, <2>2, <3>3, <4>2 DEF CleanupDeletes, Exists
      <4>3. CASE a = listed /\ a \notin mistaken
        BY <1>01, <3>1, <3>3, <4>3 DEF PodInv, OwnPodOnly, OnePodEach, Exists
      <4> QED  BY <4>1, <4>2, <4>3
    <3>4. \A a \in All : AtPod(a) /\ pod'.owner # 0 => pod.owner = a
      BY <3>1 DEF PodInv, OwnPodOnly
    <3> QED  BY <1>4, <2>2, <3>1, <3>2, <3>3, <3>4 DEF CleanupDeletes, PodInv, OwnPodOnly, OnePodEach
  <2> QED  BY <1>14, <2>1, <2>2 DEF CleanupStalePods, CleanupLists, CleanupFails
<1>15. CASE UNCHANGED vars
  BY <1>15 DEF vars, cleanup, PodInv, TypeOK, InTurn, OwnPodOnly, AtPod, ReadsOwn,
               OnePodEach, ResultFromOwnPod
<1> QED  BY <1>6, <1>7, <1>8, <1>9, <1>10, <1>11, <1>12, <1>13, <1>14, <1>15 DEF Next, RunPod

\* A step returns the log and the exit code of the pod it created, and nobody
\* but a mistaken cleanup stopped its command, when a run of the workflow ID
\* reaches the step only after the activity of the run before has ended.
\* With runs that overlap it is not so, as the README says.
THEOREM ResultOwn == ~Overlap => (Spec => []ResultFromOwnPod)
<1> SUFFICES ASSUME ~Overlap
             PROVE  Spec => []ResultFromOwnPod
  OBVIOUS
<1>1. Init => PodInv
  BY StepPodOK, PodStart
     DEF Init, PodInv, InTurn, OwnPodOnly, OnePodEach, AtPod, ReadsOwn, ResultFromOwnPod, NoPod, NewPod,
         Creating, All
<1>2. PodInv /\ [Next]_vars => PodInv'
  BY StepPodOK, OwnPodStep
<1>3. PodInv => ResultFromOwnPod
  BY DEF PodInv
<1> QED  BY <1>1, <1>2, <1>3, PTL DEF Spec
============================================================================
