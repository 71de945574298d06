------------------------- MODULE PipelineRunProofs -------------------------
(***************************************************************************)
(* Proofs about PipelineRun, for any pipelines and whatever goes wrong.    *)
(***************************************************************************)
EXTENDS PipelineRun, TLAPS

----------------------------------------------------------------------------
(* The inductive invariant *)

Working   == {"lock", "role", "run", "hook", "matrix", "trigger"}
LoopAt    == Working \cup {"step"}
AfterAt   == {"always", "onFailure", "report", "cleanup"}
Recorded  == ToSet(results)

\* Nothing has happened before the steps.
Fresh ==
  /\ at \in {"clone", "pending"} =>
       i = 1 /\ results = <<>> /\ completed = {} /\ overall = "passed" /\ ran = {}
  /\ at \in {"clone", "pending", "dispatch", "tidy"} => ~lock

\* Results, completed steps and commands are of steps the loop has reached, and
\* a step that is worked on was found to have its dependencies completed.
InPlace ==
  /\ at \in Working => i \in DOMAIN plan.steps /\ DepsOK(step)
  /\ completed \subseteq 1..(i - 1)
  /\ \A r \in Recorded : r.step \in DOMAIN plan.steps /\ r.step < i
  /\ \A j \in ran : j <= i
  /\ i \in ran => at \in {"run", "hook"}
  /\ at = "run" => cancelled \/ i \in ran
  /\ at = "hook" => outcome # "none" /\ (cancelled \/ i \in hooked)

\* A step is completed exactly when all of its results are good.
Grounded ==
  /\ \A j \in ran : Ready(j)
  /\ \A d \in completed : \A r \in Of(d) : Good(r)
  /\ at \in LoopAt => \A d \in 1..(i - 1) : d \in completed \/ \E r \in Of(d) : ~Good(r)
  /\ SkippedForCause

Verdicts ==
  /\ at \in LoopAt \cup AfterAt => (Failing(overall) <=> \E r \in Recorded : Failing(r.status))
  /\ at \notin {"cleanup", "closed"} => commit \in {"none", "pending"}
  /\ at = "cleanup" =>
       /\ commit = "success" => ~Failing(overall)
       /\ commit = "failure" => Failing(overall)
  /\ CommitAgrees

Posted ==
  /\ at \notin {"onFailure", "report", "cleanup", "closed"} => posts = {}
  /\ at = "onFailure" => posts = IF plan.always THEN {"always"} ELSE {}
  /\ PostFollows

\* The lock is taken before the role, and kept until the step is over.
LockKept ==
  /\ HeldInStep
  /\ at = "role" /\ step.lock => lock
  /\ at = "lock" => step.lock

PipeInv == RunTypeOK /\ Fresh /\ InPlace /\ Grounded /\ Verdicts /\ Posted /\ LockKept

Result == [step : Nat, byName : BOOLEAN, status : Statuses]

----------------------------------------------------------------------------
(* Plans and results *)

LEMMA PlanTypes ==
  ASSUME PlansOK, RunTypeOK
  PROVE  /\ plan \in Plan /\ Len(plan.steps) \in Nat /\ DOMAIN plan.steps = 1..Len(plan.steps)
         /\ i \in Nat \ {0}
         /\ \A s \in DOMAIN plan.steps : plan.steps[s] \in StepConfig
         /\ \A point : InLoop(point) => i \in DOMAIN plan.steps /\ step \in StepConfig
<1>1. plan \in Plan /\ i \in Nat \ {0}
  BY DEF PlansOK, RunTypeOK
<1>2. plan.steps \in Seq(StepConfig)
  BY <1>1 DEF Plan
<1>3. /\ Len(plan.steps) \in Nat /\ DOMAIN plan.steps = 1..Len(plan.steps)
      /\ \A s \in DOMAIN plan.steps : plan.steps[s] \in StepConfig
  BY <1>2
<1>4. \A point : InLoop(point) => i \in DOMAIN plan.steps /\ step \in StepConfig
  BY <1>1, <1>3 DEF InLoop, step
<1> QED  BY <1>1, <1>3, <1>4

LEMMA ConcatElements ==
  ASSUME NEW S, NEW s \in Seq(S), NEW t \in Seq(S)
  PROVE  /\ s \o t \in Seq(S) /\ Len(s \o t) = Len(s) + Len(t)
         /\ \A j \in 1..(Len(s) + Len(t)) :
              (s \o t)[j] = IF j <= Len(s) THEN s[j] ELSE t[j - Len(s)]
OBVIOUS

\* A list of statuses recorded for a step: one result for each.
Outcomes(statuses, byName) ==
  {[step |-> i, byName |-> byName, status |-> st] : st \in ToSet(statuses)}

LEMMA RecordAdds ==
  ASSUME RunTypeOK, NEW statuses \in Seq(Statuses), NEW byName \in BOOLEAN, Record(statuses, byName)
  PROVE  /\ results' \in Seq(Result)
         /\ Recorded' = Recorded \cup Outcomes(statuses, byName)
         /\ i' = i + 1 /\ at' = "step" /\ outcome' = "none"
<1> DEFINE more == [k \in DOMAIN statuses |->
                      [step |-> i, byName |-> byName, status |-> statuses[k]]]
<1>1. i \in Nat /\ results \in Seq(Result) /\ Len(results) \in Nat /\ Len(statuses) \in Nat
      /\ DOMAIN statuses = 1..Len(statuses) /\ DOMAIN results = 1..Len(results)
  BY DEF RunTypeOK, Result
<1>2. \A k \in DOMAIN statuses : statuses[k] \in Statuses
  OBVIOUS
<1>3. \A k \in 1..Len(statuses) : more[k] \in Result
  BY <1>1, <1>2 DEF Result
<1>4. more \in Seq(Result) /\ Len(more) = Len(statuses) /\ DOMAIN more = 1..Len(statuses)
      /\ \A k \in 1..Len(statuses) :
           more[k] = [step |-> i, byName |-> byName, status |-> statuses[k]]
  BY <1>1, <1>3
<1>5. results' = results \o more
  BY DEF Record
<1> HIDE DEF more
<1>6. /\ results' \in Seq(Result) /\ Len(results') = Len(results) + Len(statuses)
      /\ DOMAIN results' = 1..(Len(results) + Len(statuses))
      /\ \A k \in 1..Len(results) : results'[k] = results[k]
      /\ \A k \in 1..Len(statuses) : results'[Len(results) + k] = more[k]
  <2>1. /\ results \o more \in Seq(Result) /\ Len(results \o more) = Len(results) + Len(statuses)
        /\ \A j \in 1..(Len(results) + Len(statuses)) :
             (results \o more)[j] = IF j <= Len(results) THEN results[j] ELSE more[j - Len(results)]
    <3>1. results \in Seq(Result) /\ more \in Seq(Result)
      BY <1>1, <1>4
    <3>2. /\ results \o more \in Seq(Result) /\ Len(results \o more) = Len(results) + Len(more)
          /\ \A j \in 1..(Len(results) + Len(more)) :
               (results \o more)[j] = IF j <= Len(results) THEN results[j] ELSE more[j - Len(results)]
      BY ONLY <3>1, ConcatElements
    <3>3. Len(more) = Len(statuses)
      BY <1>4
    <3> QED  BY ONLY <3>2, <3>3
  <2>2. DOMAIN results' = 1..(Len(results) + Len(statuses))
    BY <1>1, <1>5, <2>1
  <2>3. \A k \in 1..Len(results) : results'[k] = results[k]
    BY <1>1, <1>5, <2>1
  <2>4. \A k \in 1..Len(statuses) : results'[Len(results) + k] = more[k]
    <3> TAKE k \in 1..Len(statuses)
    <3>1. /\ Len(results) + k \in 1..(Len(results) + Len(statuses))
          /\ ~(Len(results) + k <= Len(results)) /\ (Len(results) + k) - Len(results) = k
      BY <1>1
    <3> QED  BY <1>5, <2>1, <3>1
  <2> QED  BY <1>5, <2>1, <2>2, <2>3, <2>4
<1>7. ASSUME NEW r \in Recorded
      PROVE  r \in Recorded'
  <2>1. PICK k \in DOMAIN results : results[k] = r
    BY <1>7 DEF Recorded, ToSet
  <2>2. k \in DOMAIN results' /\ results'[k] = r
    BY <1>1, <1>6, <2>1
  <2> QED  BY <2>2 DEF Recorded, ToSet
<1>8. ASSUME NEW r \in Outcomes(statuses, byName)
      PROVE  r \in Recorded'
  <2>1. PICK k \in DOMAIN statuses : r = [step |-> i, byName |-> byName, status |-> statuses[k]]
    BY <1>8 DEF Outcomes, ToSet
  <2>2. Len(results) + k \in DOMAIN results' /\ results'[Len(results) + k] = r
    BY <1>1, <1>4, <1>6, <2>1
  <2> QED  BY <2>2 DEF Recorded, ToSet
<1>9. ASSUME NEW r \in Recorded'
      PROVE  r \in Recorded \cup Outcomes(statuses, byName)
  <2>1. PICK k \in DOMAIN results' : results'[k] = r
    BY <1>9 DEF Recorded, ToSet
  <2>2. CASE k \in DOMAIN results
    BY <1>1, <1>6, <2>1, <2>2 DEF Recorded, ToSet
  <2>3. CASE k \notin DOMAIN results
    <3> DEFINE m == k - Len(results)
    <3>1. m \in 1..Len(statuses) /\ k = Len(results) + m
      BY <1>1, <1>6, <2>3
    <3>2. r = [step |-> i, byName |-> byName, status |-> statuses[m]]
      BY <1>4, <1>6, <2>1, <3>1
    <3> HIDE DEF m
    <3> QED  BY <1>1, <3>1, <3>2 DEF Outcomes, ToSet
  <2> QED  BY <2>2, <2>3
<1> QED  BY <1>6, <1>7, <1>8, <1>9 DEF Record

\* The properties speak of the places of results; their set says the same.
LEMMA AsASet ==
  /\ \A s : Of(s) = {r \in Recorded : r.step = s}
  /\ (\E k \in DOMAIN results : Failing(results[k].status)) <=> \E r \in Recorded : Failing(r.status)
  /\ SkippedForCause <=>
       \A r \in Recorded : r.status = "skipped" /\ r.byName =>
         \/ plan.steps[r.step].when
         \/ \E d \in plan.steps[r.step].deps : d >= r.step \/ \E q \in Of(d) : ~Good(q)
<1>1. \A s : Of(s) = {r \in Recorded : r.step = s}
  BY DEF Of, Recorded, ToSet
<1>2. (\E k \in DOMAIN results : Failing(results[k].status)) <=> \E r \in Recorded : Failing(r.status)
  BY DEF Recorded, ToSet
<1>3. SkippedForCause <=>
       \A r \in Recorded : r.status = "skipped" /\ r.byName =>
         \/ plan.steps[r.step].when
         \/ \E d \in plan.steps[r.step].deps : d >= r.step \/ \E q \in Of(d) : ~Good(q)
  BY DEF SkippedForCause, Recorded, ToSet
<1> QED  BY <1>1, <1>2, <1>3

LEMMA AsASetNext ==
  /\ \A s : Of(s)' = {r \in Recorded' : r.step = s}
  /\ (\E k \in DOMAIN results : Failing(results[k].status))' <=> \E r \in Recorded' : Failing(r.status)
  /\ SkippedForCause' <=>
       \A r \in Recorded' : r.status = "skipped" /\ r.byName =>
         \/ plan'.steps[r.step].when
         \/ \E d \in plan'.steps[r.step].deps : d >= r.step \/ \E q \in Of(d)' : ~Good(q)'
<1>1. \A s : Of(s)' = {r \in Recorded' : r.step = s}
  BY DEF Of, Recorded, ToSet
<1>2. (\E k \in DOMAIN results : Failing(results[k].status))' <=> \E r \in Recorded' : Failing(r.status)
  BY DEF Recorded, ToSet
<1>3. SkippedForCause' <=>
       \A r \in Recorded' : r.status = "skipped" /\ r.byName =>
         \/ plan'.steps[r.step].when
         \/ \E d \in plan'.steps[r.step].deps : d >= r.step \/ \E q \in Of(d)' : ~Good(q)'
  BY DEF SkippedForCause, Recorded, ToSet
<1> QED  BY <1>1, <1>2, <1>3

LEMMA RecordedTypes ==
  ASSUME RunTypeOK
  PROVE  results \in Seq(Result) /\ Recorded \subseteq Result
<1>1. results \in Seq(Result)
  BY DEF RunTypeOK, Result
<1>2. \A k \in DOMAIN results : results[k] \in Result
  BY <1>1
<1> QED  BY <1>1, <1>2 DEF Recorded, ToSet

----------------------------------------------------------------------------
(* The end of a step *)

\* What is recorded for a step fits with what is done to its dependents and to
\* the overall status: then everything keeps.
LEMMA StepOver ==
  ASSUME PlansOK, PipeInv, at \in LoopAt, i \in DOMAIN plan.steps,
         NEW statuses \in Seq(Statuses), NEW byName \in BOOLEAN, NEW ok \in BOOLEAN,
         Record(statuses, byName), Complete(ok),
         overall' \in {"passed", "failed", "cancelled"},
         Failing(overall') <=> Failing(overall) \/ \E st \in ToSet(statuses) : Failing(st),
         ok => /\ DepsOK(step)
               /\ \A st \in ToSet(statuses) :
                    ~Failing(st) /\ (st = "skipped" => byName /\ step.when /\ step.allowSkip),
         ~ok => \E st \in ToSet(statuses) :
                  Failing(st) \/ (st = "skipped" /\ ~(DepsOK(step) /\ step.when /\ step.allowSkip)),
         byName => \A st \in ToSet(statuses) : st = "skipped" => step.when \/ ~DepsOK(step),
         lock' = FALSE, hooked \subseteq hooked', hooked' \subseteq ran,
         i \in ran /\ step.post /\ ~cancelled => i \in hooked',
         UNCHANGED <<given, ran, posts, cancelled, outside, returned>>
  PROVE  PipeInv'
<1> DEFINE new == Outcomes(statuses, byName)
<1>0. RunTypeOK /\ Fresh /\ InPlace /\ Grounded /\ Verdicts /\ Posted /\ LockKept
  BY DEF PipeInv
<1>1. /\ i \in Nat \ {0} /\ plan' = plan /\ faults' = faults /\ step \in StepConfig
      /\ at \notin {"clone", "pending", "dispatch", "tidy", "cleanup", "closed"}
      /\ at \notin {"always", "onFailure", "report"}
      /\ i \in 1..Len(plan.steps) /\ DOMAIN plan.steps = 1..Len(plan.steps)
  BY <1>0, PlanTypes DEF given, LoopAt, Working, step
<1>2. /\ results' \in Seq(Result) /\ Recorded' = Recorded \cup new
      /\ i' = i + 1 /\ at' = "step" /\ outcome' = "none"
  BY <1>0, RecordAdds
<1>3. /\ \A r \in new : r.step = i /\ r.byName = byName /\ r.status \in ToSet(statuses)
      /\ \A st \in ToSet(statuses) : \E r \in new : r.status = st
  <2>1. \A r \in new : \E st \in ToSet(statuses) :
          r = [step |-> i, byName |-> byName, status |-> st]
    BY DEF Outcomes
  <2>2. \A st \in ToSet(statuses) : [step |-> i, byName |-> byName, status |-> st] \in new
    BY DEF Outcomes
  <2>3. \A r \in new : r.step = i /\ r.byName = byName /\ r.status \in ToSet(statuses)
    BY <2>1
  <2>4. \A st : [step |-> i, byName |-> byName, status |-> st].status = st
    OBVIOUS
  <2> HIDE DEF new
  <2> QED  BY <2>2, <2>3, <2>4
<1> HIDE DEF new
<1>4. /\ completed \subseteq 1..(i - 1) /\ completed' = IF ok THEN completed \cup {i} ELSE completed
      /\ \A r \in Recorded : r.step \in DOMAIN plan.steps /\ r.step < i
  BY <1>0 DEF InPlace, Complete
<1>5. Recorded \subseteq Result
  BY <1>0, RecordedTypes
<1>6. RunTypeOK'
  <2>1. completed' \subseteq 1..Len(plan.steps)
    BY <1>0, <1>1, <1>4 DEF RunTypeOK
  <2>2. /\ results' \in Seq([step : Nat, byName : BOOLEAN, status : Statuses])
    BY <1>2 DEF Result
  <2>4. at' \in Points /\ lock' \in BOOLEAN
    BY <1>2 DEF Points
  <2>5. i' \in Nat \ {0}
    BY <1>1, <1>2
  <2>3. UNCHANGED <<plan, faults, ran, posts, cancelled, late, commit, checkout, returned>>
    BY DEF given, outside
  <2> QED  BY <1>0, <1>2, <2>1, <2>2, <2>3, <2>4, <2>5 DEF RunTypeOK
<1>7. Fresh' /\ LockKept'
  BY <1>2 DEF Fresh, LockKept, HeldInStep
<1>8. InPlace'
  <2>1. \A j \in ran : j <= i
    BY <1>0 DEF InPlace
  <2>2. ran \subseteq 1..Len(plan.steps)
    BY <1>0 DEF RunTypeOK
  <2>3. completed' \subseteq 1..(i' - 1)
    <3>1. i' - 1 = i /\ i \in Nat /\ i >= 1
      BY <1>1, <1>2
    <3>2. \A d \in completed : d \in 1..i
      BY <1>4, <3>1
    <3>3. \A d \in completed' : d \in completed \/ d = i
      BY <1>4
    <3>4. completed' \subseteq 1..i
      BY <3>1, <3>2, <3>3
    <3> QED  BY <3>1, <3>4
  <2>4. \A r \in Recorded' : r.step \in DOMAIN plan'.steps /\ r.step < i'
    <3> TAKE r \in Recorded'
    <3>1. CASE r \in Recorded
      BY <1>1, <1>2, <1>4, <3>1
    <3>2. CASE r \in new
      BY <1>1, <1>2, <1>3, <3>2
    <3> QED  BY <1>2, <3>1, <3>2
  <2>5. \A j \in ran' : j <= i' /\ j # i'
    BY <1>1, <1>2, <2>1, <2>2
  <2> QED  BY <1>2, <2>3, <2>4, <2>5 DEF InPlace, Working
<1>9. \A s \in Nat : /\ s < i => Of(s)' = Of(s)
                     /\ s = i => Of(s)' = new
  <2> SUFFICES ASSUME NEW s \in Nat
               PROVE  (s < i => Of(s)' = Of(s)) /\ (s = i => Of(s)' = new)
    OBVIOUS
  <2>1. Of(s)' = {r \in Recorded' : r.step = s} /\ Of(s) = {r \in Recorded : r.step = s}
    BY AsASet, AsASetNext
  <2>2. ASSUME s < i PROVE Of(s)' = Of(s)
    BY <1>1, <1>2, <1>3, <2>1, <2>2
  <2>3. ASSUME s = i PROVE Of(s)' = new
    BY <1>1, <1>2, <1>3, <1>4, <2>1, <2>3
  <2> QED  BY <2>2, <2>3
<1>10. \A s : Of(s) \subseteq Of(s)'
  BY <1>2, AsASet, AsASetNext
<1>11. \A s \in 1..i : Ready(s)' <=> Ready(s)
  <2> SUFFICES ASSUME NEW s \in 1..i
               PROVE  completed' \cap 1..(s - 1) = completed \cap 1..(s - 1)
    BY <1>1 DEF Ready
  <2> QED  BY <1>1, <1>4
<1>12. Ready(i) <=> DepsOK(step)
  BY <1>4 DEF Ready, DepsOK, step
<1>13. \A r \in Recorded' : r.step \in 1..i /\ (Good(r)' <=> Good(r))
  <2> TAKE r \in Recorded'
  <2>1. r.step \in 1..i
    BY <1>1, <1>2, <1>3, <1>4
  <2>2. Ready(r.step)' <=> Ready(r.step)
    BY <1>11, <2>1
  <2> QED  BY <1>1, <2>1, <2>2 DEF Good
<1>14. ok => \A r \in new : Good(r)
  BY <1>3, <1>12 DEF Good, step
<1>15. ~ok => \E r \in new : ~Good(r)
  <2> SUFFICES ASSUME ~ok
               PROVE  \E r \in new : ~Good(r)
    OBVIOUS
  <2>1. PICK st \in ToSet(statuses) :
          Failing(st) \/ (st = "skipped" /\ ~(DepsOK(step) /\ step.when /\ step.allowSkip))
    OBVIOUS
  <2>2. PICK r \in new : r.status = st
    BY <1>3
  <2> QED  BY <1>3, <1>12, <2>1, <2>2 DEF Good, step
<1>16. Grounded'
  <2>1. \A j \in ran' : Ready(j)'
    <3> TAKE j \in ran'
    <3>1. j \in 1..i /\ Ready(j)
      BY <1>0, <1>1 DEF InPlace, Grounded, RunTypeOK
    <3> QED  BY <1>11, <3>1
  <2>2. \A d \in completed' : \A r \in Of(d)' : Good(r)'
    <3> SUFFICES ASSUME NEW d \in completed', NEW r \in Of(d)'
                 PROVE  Good(r)'
      OBVIOUS
    <3>1. r \in Recorded'
      BY AsASet, AsASetNext
    <3>2. CASE d \in completed
      <4>1. r \in Of(d)
        BY <1>1, <1>4, <1>9, <3>2
      <4> QED  BY <1>0, <1>13, <3>1, <3>2, <4>1 DEF Grounded
    <3>3. CASE d \notin completed
      <4>1. ok /\ d = i /\ r \in new
        BY <1>1, <1>4, <1>9, <3>3
      <4> QED  BY <1>13, <1>14, <3>1, <4>1
    <3> QED  BY <3>2, <3>3
  <2>3. \A d \in 1..(i' - 1) : d \in completed' \/ \E r \in Of(d)' : ~Good(r)'
    <3> TAKE d \in 1..(i' - 1)
    <3>1. CASE d = i
      <4>1. CASE ok
        BY <1>4, <3>1, <4>1
      <4>2. CASE ~ok
        <5>1. PICK r \in new : ~Good(r)
          BY <1>15, <4>2
        <5>2. r \in Recorded' /\ r \in Of(d)'
          BY <1>1, <1>2, <1>9, <3>1
        <5> QED  BY <1>13, <5>1, <5>2
      <4> QED  BY <4>1, <4>2
    <3>2. CASE d # i
      <4>1. d \in 1..(i - 1)
        BY <1>1, <1>2, <3>2
      <4>2. d \in completed \/ \E r \in Of(d) : ~Good(r)
        BY <1>0, <4>1 DEF Grounded
      <4>3. CASE d \in completed
        BY <1>4, <4>3
      <4>4. ASSUME NEW r \in Of(d), ~Good(r)
            PROVE  \E q \in Of(d)' : ~Good(q)'
        <5>1. r \in Of(d)' /\ r \in Recorded'
          BY <1>2, <1>10, AsASet, AsASetNext
        <5> QED  BY <1>13, <4>4, <5>1
      <4> QED  BY <4>2, <4>3, <4>4
    <3> QED  BY <3>1, <3>2
  <2>4. SkippedForCause'
    <3> SUFFICES ASSUME NEW r \in Recorded', r.status = "skipped", r.byName, ~plan.steps[r.step].when
                 PROVE  \E d \in plan.steps[r.step].deps : d >= r.step \/ \E q \in Of(d)' : ~Good(q)'
      BY <1>1, AsASet, AsASetNext
    <3>1. \A d : (\E q \in Of(d) : ~Good(q)) => \E q \in Of(d)' : ~Good(q)'
      <4> SUFFICES ASSUME NEW d, NEW q \in Of(d), ~Good(q)
                   PROVE  \E p \in Of(d)' : ~Good(p)'
        OBVIOUS
      <4>1. q \in Of(d)' /\ q \in Recorded'
        BY <1>2, <1>10, AsASet, AsASetNext
      <4> QED  BY <1>13, <4>1
    <3>2. CASE r \in Recorded
      <4>1. \E d \in plan.steps[r.step].deps : d >= r.step \/ \E q \in Of(d) : ~Good(q)
        BY <1>0, <3>2, AsASet, AsASetNext DEF Grounded
      <4> QED  BY <3>1, <4>1
    <3>3. CASE r \in new
      <4>1. r.step = i /\ ~DepsOK(step)
        BY <1>3, <3>3 DEF step
      <4>2. PICK d \in step.deps : d \notin completed
        BY <4>1 DEF DepsOK
      <4>3. d \in Nat \ {0}
        BY <1>1 DEF StepConfig
      <4>4. CASE d >= i
        BY <4>1, <4>2, <4>4 DEF step
      <4>5. CASE ~(d >= i)
        <5>1. d \in 1..(i - 1)
          BY <1>1, <4>3, <4>5
        <5>2. \E q \in Of(d) : ~Good(q)
          BY <1>0, <4>2, <5>1 DEF Grounded
        <5> QED  BY <3>1, <4>1, <4>2, <5>2 DEF step
      <4> QED  BY <4>4, <4>5
    <3> QED  BY <1>2, <3>2, <3>3
  <2> QED  BY <2>1, <2>2, <2>3, <2>4 DEF Grounded
<1>17. Verdicts'
  <2>1. Failing(overall) <=> \E r \in Recorded : Failing(r.status)
    BY <1>0 DEF Verdicts
  <2>2. (\E st \in ToSet(statuses) : Failing(st)) <=> \E r \in new : Failing(r.status)
    BY <1>3
  <2>3. Failing(overall') <=> \E r \in Recorded' : Failing(r.status)
    BY <1>2, <2>1, <2>2
  <2>4. commit' = commit /\ commit \in {"none", "pending"}
    BY <1>0, <1>1 DEF Verdicts, outside
  <2> QED  BY <1>2, <2>3, <2>4 DEF Verdicts, LoopAt, AfterAt, CommitAgrees, Failing
<1>18. Posted'
  <2>1. posts' = {} /\ PostCommandsFollow
    BY <1>0, <1>1 DEF Posted, PostFollows
  <2>2. PostCommandsFollow'
    <3> SUFFICES ASSUME NEW j \in ran, plan.steps[j].post, Of(j)' # {}, ~cancelled
                 PROVE  j \in hooked'
      BY <1>1 DEF PostCommandsFollow
    <3>1. j \in Nat /\ j <= i
      BY <1>0, <1>1 DEF InPlace, RunTypeOK
    <3>2. CASE j = i
      BY <3>2 DEF step
    <3>3. CASE j < i
      BY <1>9, <2>1, <3>1, <3>3 DEF PostCommandsFollow
    <3> QED  BY <1>1, <3>1, <3>2, <3>3
  <2> QED  BY <1>2, <2>1, <2>2 DEF Posted, PostFollows, PostStepsFollow
<1> QED  BY <1>6, <1>7, <1>8, <1>16, <1>17, <1>18 DEF PipeInv

----------------------------------------------------------------------------
(* Within a step *)

\* The step is worked on: its command and post commands are started under the
\* lock, if it has one, and nothing is recorded yet.
LEMMA StepOn ==
  ASSUME PlansOK, PipeInv, at \in LoopAt, i \in DOMAIN plan.steps, DepsOK(step), at' \in Working,
         UNCHANGED <<given, i, results, completed, overall, posts, cancelled, outside, returned>>,
         outcome' \in {"none", "passed", "failed", "cancelled"},
         lock' \in BOOLEAN,
         lock' => at' \in {"role", "run", "hook"} /\ step.lock,
         at' \in {"role", "run", "hook"} /\ step.lock => lock', at' = "lock" => step.lock,
         ran' \in {ran, ran \cup {i}}, i \in ran' => at' \in {"run", "hook"},
         at' = "run" => cancelled \/ i \in ran',
         hooked \subseteq hooked', hooked' \subseteq ran',
         at' = "hook" => outcome' # "none" /\ (cancelled \/ i \in hooked')
  PROVE  PipeInv'
<1>0. RunTypeOK /\ Fresh /\ InPlace /\ Grounded /\ Verdicts /\ Posted /\ LockKept
  BY DEF PipeInv
<1>1. /\ i \in Nat \ {0} /\ i \in 1..Len(plan.steps)
      /\ at \notin {"clone", "pending", "dispatch", "tidy", "cleanup", "closed"}
      /\ at \notin {"always", "onFailure", "report"}
      /\ at' \notin {"clone", "pending", "dispatch", "tidy", "cleanup", "closed"}
      /\ at' \notin {"always", "onFailure", "report"} /\ at' \in LoopAt
  BY <1>0, PlanTypes DEF LoopAt, Working
<1>2. UNCHANGED <<plan, faults, late, commit, checkout>> /\ Recorded' = Recorded
  BY DEF given, outside, Recorded
<1>3. RunTypeOK'
  <2>1. ran' \subseteq 1..Len(plan.steps)
    BY <1>0, <1>1 DEF RunTypeOK
  <2>2. at' \in Points
    BY DEF Working, Points
  <2> QED  BY <1>0, <1>2, <2>1, <2>2 DEF RunTypeOK
<1>4. Fresh'
  BY <1>1 DEF Fresh
<1>5. InPlace'
  <2>1. DepsOK(step)'
    BY <1>2 DEF DepsOK, step
  <2>2. \A j \in ran' : j <= i
    BY <1>0, <1>1 DEF InPlace
  <2> QED  BY <1>0, <1>2, <2>1, <2>2 DEF InPlace
<1>6. \A s : Of(s)' = Of(s) /\ (Ready(s)' <=> Ready(s))
  BY <1>2, AsASet, AsASetNext DEF Ready
<1>7. \A r : Good(r)' <=> Good(r)
  BY <1>2, <1>6 DEF Good
<1>8. Ready(i)
  BY <1>0 DEF InPlace, Ready, DepsOK, step
<1>9. Grounded'
  <2>1. SkippedForCause'
    BY <1>0, <1>2, <1>6, <1>7, AsASet, AsASetNext DEF Grounded
  <2>2. \A j \in ran' : Ready(j)'
    BY <1>0, <1>6, <1>8 DEF Grounded
  <2>3. /\ \A d \in completed : \A r \in Of(d)' : Good(r)'
        /\ \A d \in 1..(i - 1) : d \in completed \/ \E r \in Of(d)' : ~Good(r)'
    BY <1>0, <1>6, <1>7 DEF Grounded
  <2> QED  BY <2>1, <2>2, <2>3 DEF Grounded
<1>10. Verdicts'
  <2>1. commit \in {"none", "pending"} /\ (Failing(overall) <=> \E r \in Recorded : Failing(r.status))
    BY <1>0, <1>1 DEF Verdicts
  <2> QED  BY <1>1, <1>2, <2>1 DEF Verdicts, CommitAgrees
<1>11. Posted'
  <2>1. posts' = {} /\ PostCommandsFollow
    BY <1>0, <1>1 DEF Posted, PostFollows
  <2>2. Of(i) = {}
    BY <1>0, <1>1, AsASet DEF InPlace
  <2>3. PostCommandsFollow'
    BY <1>2, <1>6, <2>1, <2>2 DEF PostCommandsFollow
  <2> QED  BY <1>1, <2>1, <2>3 DEF Posted, PostFollows, PostStepsFollow
<1>12. LockKept'
  BY <1>2 DEF LockKept, HeldInStep, step, Working
<1> QED  BY <1>3, <1>4, <1>5, <1>9, <1>10, <1>11, <1>12 DEF PipeInv

----------------------------------------------------------------------------
(* Before and after the steps *)

\* Steps of the workflow outside of its loop leave the bookkeeping of the loop.
LEMMA MovesOn ==
  ASSUME PlansOK, PipeInv, at \notin Working, at' \notin Working, at' \in Points,
         UNCHANGED <<given, work, results, completed>>, cancelled => cancelled', i' \in {i, i + 1},
         at' \in LoopAt => at \in LoopAt \cup {"clone", "pending"} /\ UNCHANGED i,
         at' \in {"clone", "pending"} =>
           at \in {"clone", "pending"} /\ UNCHANGED <<i, overall>>
  PROVE  /\ Fresh' /\ InPlace' /\ Grounded' /\ LockKept'
         /\ Recorded' = Recorded /\ PostCommandsFollow'
<1>0. RunTypeOK /\ Fresh /\ InPlace /\ Grounded /\ Verdicts /\ Posted /\ LockKept
  BY DEF PipeInv
<1>1. /\ i \in Nat \ {0} /\ at \notin {"run", "hook", "role"} /\ at' \notin {"run", "hook", "role"}
      /\ UNCHANGED <<plan, lock, ran, hooked>> /\ Recorded' = Recorded
  BY <1>0, PlanTypes DEF Working, given, work, Recorded
<1>2. ~lock
  BY <1>0, <1>1 DEF LockKept, HeldInStep
<1>3. Fresh'
  BY <1>0, <1>1, <1>2 DEF Fresh
<1>4. InPlace'
  <2>1. \A r \in Recorded : r.step \in DOMAIN plan.steps /\ r.step < i /\ r.step \in Nat
    BY <1>0, RecordedTypes DEF InPlace, Result
  <2>2. \A r \in Recorded' : r.step \in DOMAIN plan'.steps /\ r.step < i'
    BY <1>1, <2>1
  <2>3. completed' \subseteq 1..(i' - 1)
    <3>1. completed \subseteq 1..(i - 1)
      BY <1>0 DEF InPlace
    <3>2. 1..(i - 1) \subseteq 1..(i' - 1)
      <4>1. i' = i \/ i' = i + 1
        OBVIOUS
      <4>2. CASE i' = i
        BY <4>2
      <4>3. CASE i' = i + 1
        <5>1. i' - 1 = i
          BY <1>1, <4>3
        <5>2. 1..(i - 1) \subseteq 1..i
          BY <1>1
        <5> QED  BY <5>1, <5>2
      <4> QED  BY <4>1, <4>2, <4>3
    <3> QED  BY <3>1, <3>2
  <2>4. \A j \in ran : j \in Nat /\ j < i
    BY <1>0, <1>1 DEF InPlace, RunTypeOK
  <2>5. \A j \in ran' : j <= i' /\ j # i'
    BY <1>1, <2>4
  <2> QED  BY <1>1, <2>2, <2>3, <2>5 DEF InPlace
<1>5. \A s : Of(s)' = Of(s) /\ (Ready(s)' <=> Ready(s))
  BY <1>1, AsASet, AsASetNext DEF Ready
<1>6. \A r : Good(r)' <=> Good(r)
  BY <1>1, <1>5 DEF Good
<1>7. Grounded'
  <2>1. SkippedForCause'
    BY <1>0, <1>1, <1>5, <1>6, AsASet, AsASetNext DEF Grounded
  <2>2. at' \in LoopAt => \A d \in 1..(i' - 1) : d \in completed \/ \E r \in Of(d) : ~Good(r)
    <3>1. CASE at \in LoopAt
      BY <1>0, <3>1 DEF Grounded
    <3>2. CASE at \in {"clone", "pending"}
      BY <1>0, <3>2 DEF Fresh
    <3> QED  BY <3>1, <3>2
  <2> QED  BY <1>0, <1>1, <1>5, <1>6, <2>1, <2>2 DEF Grounded
<1>8. LockKept'
  BY <1>1, <1>2 DEF LockKept, HeldInStep, Working
<1>9. PostCommandsFollow'
  BY <1>0, <1>1, <1>5 DEF Posted, PostFollows, PostCommandsFollow
<1> QED  BY <1>1, <1>3, <1>4, <1>7, <1>8, <1>9

\* The workflow begins, or ends early, without having told GitHub an end.
LEMMA BeginStep == PlansOK /\ PipeInv /\ Begin => PipeInv'
<1> SUFFICES ASSUME PlansOK, PipeInv, Begin
             PROVE  PipeInv'
  OBVIOUS
<1>0. RunTypeOK /\ Fresh /\ Verdicts /\ Posted /\ plan \in Plan
  BY PlanTypes DEF PipeInv
<1>1. at \in {"clone", "pending", "dispatch", "tidy"}
  BY DEF Begin, CloneSucceeds, CloneFails, DispatchCollects, DispatchDone, Tidy, SetPending,
         PendingFails
\* What every step of this kind does.
<1>2. ASSUME UNCHANGED <<given, outcome, results, completed, work, posts, cancelled>>,
             i' \in {i, i + 1}, overall' \in {"passed", "failed", "cancelled"},
             at' \in {"pending", "dispatch", "tidy", "step", "closed"},
             at' \in {"pending", "step"} =>
               at \in {"clone", "pending"} /\ UNCHANGED <<i, overall>>,
             returned' \in {"none", "passed", "failed", "cancelled", "skipped"},
             commit' \in {"none", "pending"}, late' \in BOOLEAN, checkout' \in BOOLEAN
      PROVE  PipeInv'
  <2>1. at \notin Working /\ at' \notin Working /\ at' \in Points /\ at \notin LoopAt \cup AfterAt
    BY <1>1, <1>2 DEF Working, Points, LoopAt, AfterAt
  <2>2. at' \in LoopAt => at' = "step"
    BY <1>2 DEF LoopAt, Working
  <2>3. /\ Fresh' /\ InPlace' /\ Grounded' /\ LockKept'
        /\ Recorded' = Recorded /\ PostCommandsFollow'
    BY <1>2, <2>1, <2>2, MovesOn
  <2>4. RunTypeOK'
    <3>1. i' \in Nat \ {0}
      BY <1>0, <1>2 DEF RunTypeOK
    <3>2. UNCHANGED <<plan, faults, lock, ran, hooked>>
      BY <1>2 DEF given, work
    <3> QED  BY <1>0, <1>2, <2>1, <3>1, <3>2 DEF RunTypeOK
  <2>5. Verdicts'
    <3>1. at' \in LoopAt \cup AfterAt => at' = "step"
      BY <1>2 DEF LoopAt, AfterAt, Working
    <3>2. at' = "step" => overall' = "passed" /\ Recorded' = {}
      BY <1>0, <1>2 DEF Fresh, Recorded, ToSet
    <3> QED  BY <1>2, <3>1, <3>2 DEF Verdicts, CommitAgrees, Failing
  <2>6. Posted'
    <3>1. posts' = {}
      BY <1>0, <1>1, <1>2 DEF Posted
    <3> QED  BY <1>2, <2>3, <3>1 DEF Posted, PostFollows, PostStepsFollow
  <2> QED  BY <2>3, <2>4, <2>5, <2>6 DEF PipeInv
<1>3. commit \in {"none", "pending"} /\ late \in BOOLEAN /\ checkout \in BOOLEAN
      /\ returned \in {"none", "passed", "failed", "cancelled", "skipped"}
      /\ overall \in {"passed", "failed", "cancelled"}
  BY <1>0, <1>1 DEF Verdicts, RunTypeOK
<1>4. EnterSteps => /\ at' \in {"step", "closed"}
                    /\ returned' \in {"none", "passed", "failed", "cancelled", "skipped"}
  BY <1>3 DEF EnterSteps, Return
<1>5. CASE CloneSucceeds
  <2>1. /\ at' \in {"pending", "dispatch", "tidy", "step", "closed"}
        /\ returned' \in {"none", "passed", "failed", "cancelled", "skipped"}
    BY <1>0, <1>3, <1>4, <1>5 DEF CloneSucceeds, Plan
  <2>2. UNCHANGED <<given, outcome, results, completed, work, posts, cancelled, i, overall, commit, late>>
    BY <1>5 DEF CloneSucceeds, loop
  <2> QED  BY <1>2, <1>3, <1>5, <2>1, <2>2 DEF CloneSucceeds
<1>6. CASE CloneFails \/ Tidy
  <2>1. /\ at' = "closed" /\ checkout' \in BOOLEAN
        /\ returned' \in {"none", "passed", "failed", "cancelled", "skipped"}
    BY <1>3, <1>6 DEF CloneFails, Tidy, Return
  <2>2. UNCHANGED <<given, outcome, results, completed, work, posts, cancelled, i, overall, commit, late>>
    BY <1>6 DEF CloneFails, Tidy, loop
  <2> QED  BY <1>2, <1>3, <2>1, <2>2
<1>7. CASE DispatchCollects
  BY <1>2, <1>3, <1>7 DEF DispatchCollects, outside
<1>8. CASE DispatchDone
  BY <1>2, <1>3, <1>8 DEF DispatchDone, outside, loop
<1>9. CASE SetPending \/ PendingFails
  <2>1. late' \in BOOLEAN /\ commit' \in {"none", "pending"} /\ checkout' = checkout
    BY <1>3, <1>9 DEF SetPending, PendingFails
  <2>2. UNCHANGED <<given, outcome, results, completed, work, posts, cancelled, i, overall>>
    BY <1>9 DEF SetPending, PendingFails, loop
  <2>3. at = "pending" /\ EnterSteps
    BY <1>9 DEF SetPending, PendingFails
  <2> QED  BY <1>2, <1>3, <1>4, <2>1, <2>2, <2>3
<1> QED  BY <1>5, <1>6, <1>7, <1>8, <1>9 DEF Begin

LEMMA EndStep == PlansOK /\ PipeInv /\ End => PipeInv'
<1> SUFFICES ASSUME PlansOK, PipeInv, End
             PROVE  PipeInv'
  OBVIOUS
<1>0. RunTypeOK /\ Verdicts /\ Posted
  BY DEF PipeInv
<1>1. /\ at \in {"step", "always", "onFailure", "report", "cleanup"}
      /\ at' \in {"always", "onFailure", "report", "cleanup", "closed"}
      /\ UNCHANGED <<given, work, loop, cancelled, late>>
  BY DEF End, LoopDone, PostAlways, PostOnFailure, Report, Cleanup, outside, Return
<1>2. /\ at \notin Working /\ at' \notin Working /\ at' \in Points /\ at' \notin LoopAt
      /\ UNCHANGED <<i, outcome, results, completed, overall, plan, faults, lock, ran, hooked>>
  BY <1>1 DEF Working, Points, LoopAt, loop, given, work
<1>3. /\ Fresh' /\ InPlace' /\ Grounded' /\ LockKept'
      /\ Recorded' = Recorded /\ PostCommandsFollow'
  BY <1>1, <1>2, MovesOn
<1>4. Failing(overall) <=> \E r \in Recorded : Failing(r.status)
  BY <1>0, <1>1 DEF Verdicts, LoopAt, AfterAt
<1>5. ASSUME posts' \subseteq {"always", "onFailure"}, checkout' \in BOOLEAN,
             commit' \in {"none", "pending", "success", "failure"},
             returned' \in {"none", "passed", "failed", "cancelled", "skipped"}
      PROVE  RunTypeOK'
  BY <1>0, <1>1, <1>2, <1>5 DEF RunTypeOK
<1>6. /\ posts \subseteq {"always", "onFailure"} /\ checkout \in BOOLEAN
      /\ commit \in {"none", "pending", "success", "failure"}
      /\ returned \in {"none", "passed", "failed", "cancelled", "skipped"}
      /\ overall \in {"passed", "failed", "cancelled"}
  BY <1>0 DEF RunTypeOK
<1>7. CASE LoopDone
  <2>1. at = "step" /\ at' = "always" /\ UNCHANGED <<posts, commit, checkout, returned>>
    BY <1>7 DEF LoopDone, outside
  <2>2. Posted'
    BY <1>0, <1>3, <2>1 DEF Posted, PostFollows, PostStepsFollow
  <2>3. Verdicts'
    BY <1>0, <1>2, <1>3, <1>4, <2>1 DEF Verdicts, CommitAgrees
  <2> QED  BY <1>3, <1>5, <1>6, <2>1, <2>2, <2>3 DEF PipeInv
<1>8. CASE PostAlways
  <2>1. at = "always" /\ at' = "onFailure" /\ UNCHANGED <<commit, checkout, returned>>
    BY <1>8 DEF PostAlways, outside
  <2>2. posts' = IF plan.always THEN {"always"} ELSE {}
    BY <1>0, <1>8, <2>1 DEF PostAlways, Post, Posted
  <2>3. Posted'
    BY <1>2, <1>3, <2>1, <2>2 DEF Posted, PostFollows, PostStepsFollow
  <2>4. Verdicts'
    BY <1>0, <1>2, <1>3, <1>4, <2>1 DEF Verdicts, CommitAgrees
  <2> QED  BY <1>3, <1>5, <1>6, <2>1, <2>2, <2>3, <2>4 DEF PipeInv
<1>9. CASE PostOnFailure
  <2>1. at = "onFailure" /\ at' = "report" /\ UNCHANGED <<commit, checkout, returned>>
    BY <1>9 DEF PostOnFailure, outside
  <2>2. /\ posts = IF plan.always THEN {"always"} ELSE {}
        /\ posts' = IF plan.onFailure /\ Failing(overall) THEN posts \cup {"onFailure"} ELSE posts
    BY <1>0, <1>9, <2>1 DEF PostOnFailure, Post, Posted
  <2>3. "always" \in posts' <=> plan.always
    BY <2>2
  <2>4. "onFailure" \in posts' <=> plan.onFailure /\ Failing(overall)
    BY <2>2
  <2>5. PostStepsFollow'
    BY <1>2, <1>3, <1>4, <2>3, <2>4, AsASetNext DEF PostStepsFollow
  <2>6. Posted'
    BY <1>3, <2>1, <2>5 DEF Posted, PostFollows
  <2>7. Verdicts'
    BY <1>0, <1>2, <1>3, <1>4, <2>1 DEF Verdicts, CommitAgrees
  <2>8. posts' \subseteq {"always", "onFailure"}
    BY <2>2
  <2> QED  BY <1>3, <1>5, <1>6, <2>1, <2>6, <2>7, <2>8 DEF PipeInv
<1>10. ASSUME at \in {"report", "cleanup"}, UNCHANGED posts
       PROVE  Posted'
  <2>1. PostStepsFollow
    BY <1>0 DEF Posted, PostFollows
  <2>2. PostStepsFollow'
    BY <1>2, <1>10, <2>1 DEF PostStepsFollow
  <2>3. at' \in {"cleanup", "closed"}
    BY <1>10 DEF End, LoopDone, PostAlways, PostOnFailure, Report, Cleanup, Return
  <2> QED  BY <1>3, <2>2, <2>3 DEF Posted, PostFollows
<1>11. CASE Report
  <2>1. at = "report" /\ at' = "cleanup" /\ UNCHANGED <<posts, checkout, returned>>
    BY <1>11 DEF Report
  <2>2. State = IF Failing(overall) THEN "failure" ELSE "success"
    BY <1>4, AsASet DEF State
  <2>3. commit \in {"none", "pending"} /\ commit' \in {commit, State}
    BY <1>0, <1>11, <2>1 DEF Report, Verdicts
  <2>4. Verdicts'
    BY <1>2, <1>3, <1>4, <2>1, <2>2, <2>3 DEF Verdicts, CommitAgrees, AfterAt
  <2>5. commit' \in {"none", "pending", "success", "failure"}
    BY <2>2, <2>3
  <2> QED  BY <1>3, <1>5, <1>6, <1>10, <2>1, <2>4, <2>5 DEF PipeInv
<1>12. CASE Cleanup
  <2>1. /\ at = "cleanup" /\ at' = "closed" /\ UNCHANGED <<posts, commit>>
        /\ returned' = overall /\ checkout' \in BOOLEAN
    BY <1>12 DEF Cleanup, Return
  <2>2. CommitAgrees'
    BY <1>0, <1>6, <2>1 DEF Verdicts, CommitAgrees, Failing
  <2>3. Verdicts'
    BY <2>1, <2>2 DEF Verdicts, LoopAt, Working, AfterAt
  <2> QED  BY <1>3, <1>5, <1>6, <1>10, <2>1, <2>3 DEF PipeInv
<1> QED  BY <1>7, <1>8, <1>9, <1>11, <1>12 DEF End

\* What happens to the run from outside.
LEMMA OutsideStep ==
  PlansOK /\ PipeInv /\ (CommandEnds \/ PendingArrivesLate \/ Cancel \/ UNCHANGED vars) => PipeInv'
<1> SUFFICES ASSUME PlansOK, PipeInv, CommandEnds \/ PendingArrivesLate \/ Cancel \/ UNCHANGED vars
             PROVE  PipeInv'
  OBVIOUS
<1>0. RunTypeOK /\ Fresh /\ InPlace /\ Grounded /\ Verdicts /\ Posted /\ LockKept
  BY DEF PipeInv
<1>1. /\ UNCHANGED <<plan, faults, at, i, outcome, results, completed, overall, lock, ran, hooked,
                     posts, checkout, returned>>
      /\ late' \in BOOLEAN /\ cancelled' \in BOOLEAN /\ (cancelled => cancelled')
      /\ commit' \in {commit, "pending"}
  BY <1>0 DEF CommandEnds, CommandStops, PendingArrivesLate, Cancel, vars, given, loop, work, outside,
         RunTypeOK
<1>2. Recorded' = Recorded /\ (\A s : Of(s)' = Of(s) /\ (Ready(s)' <=> Ready(s)))
  BY <1>1 DEF Recorded, Of, Ready
<1>3. \A r : Good(r)' <=> Good(r)
  BY <1>1, <1>2 DEF Good
<1>4. RunTypeOK'
  BY <1>0, <1>1 DEF RunTypeOK
<1>5. Fresh' /\ LockKept'
  BY <1>0, <1>1 DEF Fresh, LockKept, HeldInStep, step
<1>6. InPlace'
  BY <1>0, <1>1, <1>2 DEF InPlace, DepsOK, step
<1>7. Grounded'
  <2>1. SkippedForCause'
    BY <1>0, <1>1, <1>2, <1>3, AsASet, AsASetNext DEF Grounded
  <2> QED  BY <1>0, <1>1, <1>2, <1>3, <2>1 DEF Grounded
<1>8. Verdicts'
  BY <1>0, <1>1, <1>2 DEF Verdicts, CommitAgrees
<1>9. Posted'
  <2>1. PostCommandsFollow' /\ PostStepsFollow'
    BY <1>0, <1>1, <1>2 DEF Posted, PostFollows, PostCommandsFollow, PostStepsFollow
  <2> QED  BY <1>0, <1>1, <2>1 DEF Posted, PostFollows
<1> QED  BY <1>4, <1>5, <1>6, <1>7, <1>8, <1>9 DEF PipeInv

----------------------------------------------------------------------------
(* The steps of the loop *)

LEMMA OneStatus ==
  ASSUME NEW st \in Statuses
  PROVE  <<st>> \in Seq(Statuses) /\ ToSet(<<st>>) = {st}
<1>1. <<st>> \in Seq(Statuses) /\ DOMAIN <<st>> = {1} /\ <<st>>[1] = st
  OBVIOUS
<1> QED  BY <1>1 DEF ToSet

\* Recording one status.
LEMMA OneRecorded ==
  ASSUME PlansOK, PipeInv, at \in LoopAt, i \in DOMAIN plan.steps,
         NEW st \in Statuses, NEW byName \in BOOLEAN, NEW ok \in BOOLEAN,
         Record(<<st>>, byName), Complete(ok),
         overall' \in {"passed", "failed", "cancelled"},
         Failing(overall') <=> Failing(overall) \/ Failing(st),
         ok => /\ DepsOK(step) /\ ~Failing(st)
               /\ st = "skipped" => byName /\ step.when /\ step.allowSkip,
         ~ok => Failing(st) \/ (st = "skipped" /\ ~(DepsOK(step) /\ step.when /\ step.allowSkip)),
         byName /\ st = "skipped" => step.when \/ ~DepsOK(step),
         lock' = FALSE, hooked \subseteq hooked', hooked' \subseteq ran,
         i \in ran /\ step.post /\ ~cancelled => i \in hooked',
         UNCHANGED <<given, ran, posts, cancelled, outside, returned>>
  PROVE  PipeInv'
<1> DEFINE statuses == <<st>>
<1>1. statuses \in Seq(Statuses) /\ ToSet(statuses) = {st} /\ Record(statuses, byName)
  BY OneStatus
<1> HIDE DEF statuses
<1> QED  BY <1>1, StepOver

\* Where the loop is.
LEMMA LoopPlace ==
  ASSUME PlansOK, PipeInv
  PROVE  /\ \A p \in {"step", "matrix", "trigger", "lock", "role", "run", "hook"} :
              InLoop(p) => at = p /\ at \in LoopAt /\ i \in DOMAIN plan.steps /\ step \in StepConfig
         /\ at \in Working => DepsOK(step)
         /\ at \notin {"role", "run", "hook"} => lock = FALSE
         /\ at \notin {"run", "hook"} => i \notin ran
         /\ hooked \subseteq ran /\ overall \in {"passed", "failed", "cancelled"}
         /\ ran \in SUBSET (1..Len(plan.steps)) /\ cancelled \in BOOLEAN /\ lock \in BOOLEAN
         /\ outcome \in {"none", "passed", "failed", "cancelled"}
<1>0. RunTypeOK /\ InPlace /\ LockKept
  BY DEF PipeInv
<1>1. \A p \in {"step", "matrix", "trigger", "lock", "role", "run", "hook"} :
        InLoop(p) => at = p /\ at \in LoopAt /\ i \in DOMAIN plan.steps /\ step \in StepConfig
  BY <1>0, PlanTypes DEF InLoop, LoopAt, Working
<1>2. at \in Working => DepsOK(step)
  BY <1>0 DEF InPlace
<1>3. /\ at \notin {"role", "run", "hook"} => lock = FALSE
      /\ at \notin {"run", "hook"} => i \notin ran
  BY <1>0 DEF InPlace, LockKept, HeldInStep, RunTypeOK
<1> QED  BY <1>0, <1>1, <1>2, <1>3 DEF RunTypeOK

LEMMA SkipsAndGates ==
  PlansOK /\ PipeInv /\ (SkipUnmetDeps \/ SkipByCondition \/ Gate) => PipeInv'
<1> SUFFICES ASSUME PlansOK, PipeInv, SkipUnmetDeps \/ SkipByCondition \/ Gate
             PROVE  PipeInv'
  OBVIOUS
<1>1. /\ at = "step" /\ at \in LoopAt /\ i \in DOMAIN plan.steps /\ step \in StepConfig
      /\ lock = FALSE /\ i \notin ran /\ hooked \subseteq ran
      /\ overall \in {"passed", "failed", "cancelled"}
  BY LoopPlace DEF SkipUnmetDeps, SkipByCondition, Gate
<1>2. UNCHANGED <<given, lock, ran, hooked, posts, cancelled, outside, returned>>
  BY DEF SkipUnmetDeps, SkipByCondition, Gate, work
<1>3. {"skipped", "passed", "failed"} \subseteq Statuses
  BY DEF Statuses
<1>4. CASE SkipUnmetDeps
  <2>1. Complete(FALSE) /\ Record(<<"skipped">>, TRUE) /\ ~DepsOK(step) /\ overall' = overall
    BY <1>4 DEF SkipUnmetDeps, Complete
  <2> QED  BY <1>1, <1>2, <1>3, <2>1, OneRecorded DEF Failing
<1>5. CASE SkipByCondition
  <2>1. /\ Complete(step.allowSkip) /\ Record(<<"skipped">>, TRUE) /\ DepsOK(step) /\ step.when
        /\ overall' = overall /\ step.allowSkip \in BOOLEAN
    BY <1>1, <1>5 DEF SkipByCondition, StepConfig
  <2> QED  BY <1>1, <1>2, <1>3, <2>1, OneRecorded DEF Failing
<1>6. CASE Gate
  <2>1. DepsOK(step)
    BY <1>6 DEF Gate
  <2>2. CASE GatePasses
    <3>1. Complete(TRUE) /\ Record(<<"passed">>, TRUE) /\ overall' = overall
      BY <1>6, <2>2 DEF Gate, Complete
    <3> QED  BY <1>1, <1>2, <1>3, <2>1, <3>1, OneRecorded DEF Failing
  <2>3. CASE ~GatePasses
    <3>1. Complete(FALSE) /\ Record(<<"failed">>, TRUE) /\ overall' = "failed"
      BY <1>6, <2>3 DEF Gate, Complete
    <3> QED  BY <1>1, <1>2, <1>3, <2>1, <3>1, OneRecorded DEF Failing
  <2> QED  BY <2>2, <2>3
<1> QED  BY <1>4, <1>5, <1>6

\* The lists of a matrix are complete and good, or have a failure.
LEMMA MatrixLists ==
  ASSUME NEW statuses \in MatrixOutcomes
  PROVE  /\ statuses \in Seq(Statuses)
         /\ (\E k \in DOMAIN statuses : Failing(statuses[k]))
              <=> \E st \in ToSet(statuses) : Failing(st)
         /\ (\A st \in ToSet(statuses) : ~Failing(st)) => \A st \in ToSet(statuses) : st = "passed"
<1>1. statuses \in {<<>>, <<"failed", "failed">>, <<"passed", "failed">>, <<"passed", "passed">>,
                    <<"failed", "skipped">>}
  BY DEF MatrixOutcomes
<1>2. statuses \in Seq(Statuses)
  <2>1. "passed" \in Statuses /\ "failed" \in Statuses /\ "skipped" \in Statuses
    BY DEF Statuses
  <2>2. \A a, b \in Statuses : <<a, b>> \in Seq(Statuses)
    OBVIOUS
  <2>3. <<>> \in Seq(Statuses)
    OBVIOUS
  <2> QED  BY ONLY <1>1, <2>1, <2>2, <2>3
<1>3. (\E k \in DOMAIN statuses : Failing(statuses[k])) <=> \E st \in ToSet(statuses) : Failing(st)
  BY DEF ToSet
<1>4. ASSUME \A st \in ToSet(statuses) : ~Failing(st), NEW st \in ToSet(statuses)
      PROVE  st = "passed"
  <2>1. \A k \in DOMAIN statuses : statuses[k] \notin {"failed"}
    BY <1>4 DEF ToSet, Failing
  <2>2. statuses \in {<<>>, <<"passed", "passed">>}
    BY <1>1, <2>1
  <2>3. \A k \in DOMAIN statuses : statuses[k] = "passed"
    BY <2>2
  <2> QED  BY <1>4, <2>3 DEF ToSet
<1> QED  BY <1>2, <1>3, <1>4

LEMMA ChildSteps ==
  PlansOK /\ PipeInv
    /\ (StartMatrix \/ MatrixEnds \/ Triggered \/ StartTrigger \/ TriggerEnds) => PipeInv'
<1> SUFFICES ASSUME PlansOK, PipeInv,
                    StartMatrix \/ MatrixEnds \/ Triggered \/ StartTrigger \/ TriggerEnds
             PROVE  PipeInv'
  OBVIOUS
<1>1. /\ at \in {"step", "matrix", "trigger"} /\ at \in LoopAt
      /\ i \in DOMAIN plan.steps /\ step \in StepConfig /\ DepsOK(step)
  <2>1. CASE StartMatrix \/ Triggered \/ StartTrigger
    BY <2>1, LoopPlace DEF StartMatrix, Triggered, StartTrigger
  <2>2. CASE MatrixEnds
    BY <2>2, LoopPlace DEF MatrixEnds, Working
  <2>3. CASE TriggerEnds
    BY <2>3, LoopPlace DEF TriggerEnds, Working
  <2> QED  BY <2>1, <2>2, <2>3
<1>2. /\ lock = FALSE /\ i \notin ran /\ hooked \subseteq ran
      /\ overall \in {"passed", "failed", "cancelled"} /\ ran \in SUBSET (1..Len(plan.steps))
      /\ outcome \in {"none", "passed", "failed", "cancelled"}
  BY <1>1, LoopPlace
<1>3. UNCHANGED <<given, lock, ran, hooked, posts, cancelled, outside, returned>>
  BY DEF StartMatrix, MatrixEnds, Triggered, StartTrigger, TriggerEnds, work
<1>4. {"skipped", "passed", "failed", "cancelled", "triggered"} = Statuses
  BY DEF Statuses
<1>5. CASE StartMatrix \/ StartTrigger
  <2>1. UNCHANGED <<i, outcome, results, completed, overall>> /\ at' \in {"matrix", "trigger"}
    BY <1>5 DEF StartMatrix, StartTrigger, loop
  <2> QED  BY <1>1, <1>2, <1>3, <2>1, StepOn DEF Working
<1>6. CASE MatrixEnds
  <2>1. PICK statuses \in MatrixOutcomes :
          /\ Record(statuses, FALSE)
          /\ Complete(~(\E k \in DOMAIN statuses : Failing(statuses[k])))
          /\ overall' = IF \E k \in DOMAIN statuses : Failing(statuses[k]) THEN "failed" ELSE overall
    BY <1>6 DEF MatrixEnds
  <2>2. statuses \in Seq(Statuses)
    BY MatrixLists
  <2>3. CASE \E st \in ToSet(statuses) : Failing(st)
    <3>1. Complete(FALSE) /\ overall' = "failed"
      BY <2>1, <2>3, MatrixLists DEF Complete
    <3>2. Failing(overall')
      BY <3>1 DEF Failing
    <3> QED  BY <1>1, <1>2, <1>3, <2>1, <2>2, <2>3, <3>1, <3>2, StepOver
  <2>4. CASE \A st \in ToSet(statuses) : ~Failing(st)
    <3>1. Complete(TRUE) /\ overall' = overall
      BY <2>1, <2>4, MatrixLists DEF Complete
    <3>2. \A st \in ToSet(statuses) : st # "skipped"
      BY <2>4, MatrixLists
    <3> QED  BY <1>1, <1>2, <1>3, <2>1, <2>2, <2>4, <3>1, <3>2, StepOver
  <2> QED  BY <2>3, <2>4
<1>7. CASE Triggered
  <2>1. Complete(TRUE) /\ Record(<<"triggered">>, FALSE) /\ overall' = overall
    BY <1>7 DEF Triggered
  <2> QED  BY <1>1, <1>2, <1>3, <1>4, <2>1, OneRecorded DEF Failing
<1>8. CASE TriggerEnds
  <2>1. PICK child \in {"passed", "failed", "cancelled"} :
          /\ Record(<<Propagated(step, child)>>, FALSE)
          /\ Complete(Propagated(step, child) = "passed")
          /\ overall' = IF Failing(Propagated(step, child)) THEN "failed" ELSE overall
    BY <1>8 DEF TriggerEnds
  <2> DEFINE st == Propagated(step, child)
  <2>2. st \in {"passed", "failed", "cancelled"} /\ st \in Statuses
    BY <1>4 DEF Propagated
  <2>3. /\ Record(<<st>>, FALSE) /\ Complete(st = "passed")
        /\ overall' = IF Failing(st) THEN "failed" ELSE overall
    BY <2>1
  <2> HIDE DEF st
  <2>4. CASE st = "passed"
    <3>1. Complete(TRUE) /\ overall' = overall
      BY <2>3, <2>4 DEF Complete, Failing
    <3> QED  BY <1>1, <1>2, <1>3, <2>2, <2>3, <2>4, <3>1, OneRecorded DEF Failing
  <2>5. CASE st # "passed"
    <3>1. Complete(FALSE) /\ overall' = "failed" /\ Failing(st)
      BY <2>2, <2>3, <2>5 DEF Complete, Failing
    <3>2. Failing(overall')
      BY <3>1 DEF Failing
    <3> QED  BY <1>1, <1>2, <1>3, <2>2, <2>3, <2>5, <3>1, <3>2, OneRecorded
  <2> QED  BY <2>4, <2>5
<1> QED  BY <1>5, <1>6, <1>7, <1>8

\* A step that fails before its command is started.
LEMMA FailsEarly ==
  ASSUME PlansOK, PipeInv, at \in LoopAt, at \notin {"run", "hook"}, i \in DOMAIN plan.steps,
         Record(<<"failed">>, TRUE), overall' = "failed", lock' = FALSE,
         UNCHANGED <<given, completed, ran, hooked, posts, cancelled, outside, returned>>
  PROVE  PipeInv'
<1>1. i \notin ran /\ hooked \subseteq ran /\ hooked' = hooked /\ ran' = ran
  BY LoopPlace
<1>2. Complete(FALSE) /\ "failed" \in Statuses /\ Failing("failed") /\ Failing(overall')
  BY DEF Complete, Statuses, Failing
<1>3. overall' \in {"passed", "failed", "cancelled"}
  OBVIOUS
<1> QED  BY <1>1, <1>2, <1>3, OneRecorded

\* A step whose command is over.
LEMMA Finishes ==
  ASSUME PlansOK, PipeInv, at \in {"run", "hook"}, i \in DOMAIN plan.steps, DepsOK(step),
         NEW status \in {"passed", "failed", "cancelled"}, Finish(status),
         hooked' = hooked, step.post /\ ~cancelled => i \in hooked,
         UNCHANGED <<given, ran, posts, cancelled, outside, returned>>
  PROVE  PipeInv'
<1>1. /\ at \in LoopAt /\ hooked \subseteq ran /\ overall \in {"passed", "failed", "cancelled"}
      /\ status \in Statuses /\ lock' = FALSE /\ Record(<<status>>, TRUE)
      /\ hooked \subseteq hooked' /\ hooked' \subseteq ran
  BY LoopPlace DEF LoopAt, Working, Statuses, Finish
<1>2. CASE status = "passed"
  <2>1. Complete(TRUE) /\ overall' = overall /\ ~Failing(status) /\ status # "skipped"
    BY <1>2 DEF Finish, Complete, Failing
  <2> QED  BY <1>1, <2>1, OneRecorded
<1>3. CASE status # "passed"
  <2>1. Complete(FALSE) /\ overall' = status /\ Failing(status) /\ status # "skipped"
    BY <1>3 DEF Finish, Complete, Failing
  <2>2. Failing(overall') /\ overall' \in {"passed", "failed", "cancelled"}
    BY <2>1
  <2> QED  BY <1>1, <2>1, <2>2, OneRecorded
<1> QED  BY <1>2, <1>3

LEMMA RegularSteps ==
  PlansOK /\ PipeInv
    /\ (StartRegular \/ LockGranted \/ LockTimesOut \/ RoleAssumed \/ RoleFails
          \/ RunEnds \/ HookEnds) => PipeInv'
<1> SUFFICES ASSUME PlansOK, PipeInv,
                    StartRegular \/ LockGranted \/ LockTimesOut \/ RoleAssumed \/ RoleFails
                      \/ RunEnds \/ HookEnds
             PROVE  PipeInv'
  OBVIOUS
<1>1. /\ at \in {"step", "lock", "role", "run", "hook"} /\ at \in LoopAt
      /\ i \in DOMAIN plan.steps /\ step \in StepConfig
  BY LoopPlace DEF StartRegular, LockGranted, LockTimesOut, RoleAssumed, RoleFails,
                   RunEnds, HookEnds
<1>2. /\ at \in Working => DepsOK(step)
      /\ at \notin {"role", "run", "hook"} => lock = FALSE
      /\ at \notin {"run", "hook"} => i \notin ran
      /\ hooked \subseteq ran /\ outcome \in {"none", "passed", "failed", "cancelled"}
      /\ cancelled \in BOOLEAN /\ lock \in BOOLEAN /\ step.lock \in BOOLEAN
  BY <1>1, LoopPlace DEF StepConfig
<1>3. UNCHANGED <<given, posts, cancelled, outside, returned>>
  BY DEF StartRegular, LockGranted, LockTimesOut, RoleAssumed, RoleFails, RunEnds, HookEnds, work
<1>4. {"lock", "role", "run", "hook"} \subseteq Working
  BY DEF Working
<1>5. /\ lock => step.lock
      /\ at = "lock" => step.lock
      /\ at \in {"role", "run", "hook"} /\ step.lock => lock
  BY DEF PipeInv, LockKept, HeldInStep
<1>6. /\ at = "run" => cancelled \/ i \in ran
      /\ at = "hook" => outcome # "none" /\ (cancelled \/ i \in hooked)
  BY DEF PipeInv, InPlace
<1>7. CASE StartRegular
  <2>1. /\ UNCHANGED <<i, outcome, results, completed, overall, lock, hooked>>
        /\ at = "step" /\ DepsOK(step)
    BY <1>7 DEF StartRegular, InLoop, loop
  <2>2. \/ step.lock /\ at' = "lock" /\ ran' = ran
        \/ ~step.lock /\ step.role /\ at' = "role" /\ ran' = ran
        \/ ~step.lock /\ Run
    BY <1>7 DEF StartRegular, NoRun
  <2>3. /\ lock = FALSE /\ i \notin ran
    BY <1>2, <2>1
  <2>4. CASE ran' = ran
    BY <1>1, <1>2, <1>3, <1>4, <2>1, <2>2, <2>3, <2>4, StepOn DEF Run
  <2>5. CASE ran' # ran
    BY <1>1, <1>2, <1>3, <1>4, <2>1, <2>2, <2>3, <2>5, StepOn DEF Run
  <2> QED  BY <2>4, <2>5
<1>8. CASE LockGranted
  <2>1. /\ UNCHANGED <<i, outcome, results, completed, overall, hooked>>
        /\ at = "lock" /\ DepsOK(step) /\ lock' = TRUE
    BY <1>2, <1>4, <1>8 DEF LockGranted, InLoop, loop
  <2>2. \/ at' = "role" /\ ran' = ran
        \/ Run
    BY <1>8 DEF LockGranted, NoRun
  <2>3. i \notin ran /\ hooked' \subseteq ran' /\ hooked \subseteq hooked'
    BY <1>2, <2>1, <2>2 DEF Run
  <2>4. step.lock
    BY <1>5, <2>1
  <2>5. CASE at' = "role" /\ ran' = ran
    BY <1>1, <1>2, <1>3, <1>4, <2>1, <2>3, <2>4, <2>5, StepOn
  <2>6. CASE Run
    BY <1>1, <1>2, <1>3, <1>4, <2>1, <2>3, <2>4, <2>6, StepOn DEF Run
  <2> QED  BY <2>2, <2>5, <2>6
<1>9. CASE LockTimesOut
  <2>1. /\ at = "lock" /\ Record(<<"failed">>, TRUE) /\ overall' = "failed"
        /\ UNCHANGED <<completed, lock, ran, hooked>>
    BY <1>9 DEF LockTimesOut, InLoop, work
  <2> QED  BY <1>1, <1>2, <1>3, <2>1, FailsEarly
<1>10. CASE RoleAssumed
  <2>1. /\ UNCHANGED <<i, outcome, results, completed, overall, hooked, lock>>
        /\ at = "role" /\ DepsOK(step) /\ Run
    BY <1>2, <1>4, <1>10 DEF RoleAssumed, InLoop, loop
  <2>2. i \notin ran /\ hooked' \subseteq ran' /\ hooked \subseteq hooked'
    BY <1>2, <2>1 DEF Run
  <2> QED  BY <1>1, <1>2, <1>3, <1>4, <1>5, <2>1, <2>2, StepOn DEF Run
<1>11. CASE RoleFails
  <2>1. /\ at = "role" /\ Record(<<"failed">>, TRUE) /\ overall' = "failed" /\ lock' = FALSE
        /\ UNCHANGED <<completed, ran, hooked>>
    BY <1>11 DEF RoleFails, InLoop
  <2> QED  BY <1>1, <1>2, <1>3, <2>1, FailsEarly
<1>12. CASE RunEnds
  <2>1. /\ at = "run" /\ DepsOK(step) /\ ran' = ran
    BY <1>2, <1>4, <1>12 DEF RunEnds, InLoop
  <2>2. PICK status \in {"passed", "failed", "cancelled"} :
          IF step.post
          THEN /\ at' = "hook" /\ outcome' = status
               /\ StartHook
               /\ UNCHANGED <<i, results, completed, overall, lock>>
          ELSE Finish(status) /\ UNCHANGED hooked
    BY <1>12 DEF RunEnds, EndsOfWait
  <2>3. CASE step.post
    <3>1. hooked \subseteq hooked' /\ hooked' \subseteq ran /\ (cancelled \/ i \in hooked')
      BY <1>2, <1>6, <2>1, <2>2, <2>3 DEF StartHook
    <3> QED  BY <1>1, <1>2, <1>3, <1>4, <1>5, <2>1, <2>2, <2>3, <3>1, StepOn
  <2>4. CASE ~step.post
    BY <1>1, <1>3, <2>1, <2>2, <2>4, Finishes
  <2> QED  BY <2>3, <2>4
<1>13. CASE HookEnds
  <2>1. /\ at = "hook" /\ DepsOK(step) /\ Finish(outcome) /\ UNCHANGED <<ran, hooked>>
    BY <1>2, <1>4, <1>13 DEF HookEnds, InLoop
  <2>2. outcome \in {"passed", "failed", "cancelled"} /\ (cancelled \/ i \in hooked)
    BY <1>2, <1>6, <2>1
  <2> QED  BY <1>1, <1>3, <2>1, <2>2, Finishes
<1> QED  BY <1>7, <1>8, <1>9, <1>10, <1>11, <1>12, <1>13

----------------------------------------------------------------------------
(* The commands that are under way *)

\* Commands of a step with a lock go on without it only when the wait for them
\* has ended without them.
Commands ==
  /\ alive \subseteq (ran \X {"command"}) \cup (hooked \X {"post"})
  /\ CoversCommands
  /\ at = "run" => PostCommands(i) \notin alive
  /\ at = "hook" /\ Command(i) \in alive =>
       Failing(outcome) /\ (cancelled \/ May("unattended"))

LEMMA CommandPlace ==
  ASSUME PlansOK, PipeInv, Commands, NEW c \in alive
  PROVE  /\ c[1] \in ran /\ c[2] \in {"command", "post"} /\ c = <<c[1], c[2]>>
         /\ c[1] \in Nat /\ c[1] <= i /\ (c[1] = i => at \in {"run", "hook"})
<1>1. c[1] \in ran /\ c[2] \in {"command", "post"} /\ c = <<c[1], c[2]>>
  <2>1. hooked \subseteq ran
    BY DEF PipeInv, RunTypeOK
  <2>2. c \in ran \X {"command"} \/ c \in hooked \X {"post"}
    BY DEF Commands
  <2> QED  BY <2>1, <2>2
<1> QED  BY <1>1 DEF PipeInv, RunTypeOK, InPlace

\* A step that starts no command, and leaves those of the step under way alone.
LEMMA NoneStarted ==
  ASSUME PlansOK, PipeInv, Commands, alive' \subseteq alive,
         UNCHANGED <<given, ran, hooked>>, cancelled => cancelled', Recorded \subseteq Recorded',
         at \in {"run", "hook"} => UNCHANGED <<lock, i>>,
         at' = "run" => at = "run" \/ i' \notin ran,
         at' = "hook" => at = "hook" /\ UNCHANGED outcome
  PROVE  Commands'
<1>1. plan' = plan /\ (May("unattended")' <=> May("unattended"))
  BY DEF given, May
<1>2. \A c \in alive : Outlived(c) => Outlived(c)'
  BY <1>1, AsASet, AsASetNext DEF Outlived
<1>3. CoversCommands'
  <2> SUFFICES ASSUME NEW c \in alive', plan.steps[c[1]].lock
               PROVE  Covered(c)' \/ Outlived(c)'
    BY <1>1 DEF CoversCommands
  <2>1. Covered(c) \/ Outlived(c)
    BY DEF Commands, CoversCommands
  <2>2. CASE Covered(c)
    BY <2>2, CommandPlace DEF Covered
  <2> QED  BY <1>2, <2>1, <2>2
<1>4. at' = "run" => PostCommands(i)' \notin alive'
  <2>1. CASE at = "run"
    BY <2>1 DEF Commands, PostCommands
  <2>2. ASSUME i' \notin ran
        PROVE  PostCommands(i)' \notin alive'
    BY <2>2 DEF Commands, PostCommands, PipeInv, RunTypeOK
  <2> QED  BY <2>1, <2>2
<1>5. at' = "hook" => (Command(i)' \in alive' => Failing(outcome)' /\ (cancelled' \/ May("unattended")'))
  BY <1>1 DEF Commands, Command, Failing
<1> QED  BY <1>3, <1>4, <1>5 DEF Commands

\* The command of the step is started, under its lock.
LEMMA CommandStarted ==
  ASSUME PlansOK, PipeInv, PipeInv', Commands, at \notin {"run", "hook"}, Run,
         UNCHANGED <<given, i, results, hooked, cancelled>>
  PROVE  Commands'
<1>1. /\ plan' = plan /\ (May("unattended")' <=> May("unattended")) /\ at' = "run"
      /\ alive' \subseteq alive \cup {Command(i)}
      /\ Command(i) \in alive' => Command(i) \in ran' \X {"command"}
      /\ ran \subseteq ran'
  BY DEF given, May, Run, Command, Commands, PipeInv, RunTypeOK
<1>2. \A c \in alive : c[1] # i /\ Outlived(c)' = Outlived(c) /\ ~Covered(c)
  BY <1>1, CommandPlace DEF Outlived, Of, Covered
<1>3. step.lock => lock'
  BY <1>1 DEF PipeInv, LockKept, HeldInStep, step
<1>4. CoversCommands'
  <2> SUFFICES ASSUME NEW c \in alive', plan.steps[c[1]].lock
               PROVE  Covered(c)' \/ Outlived(c)'
    BY <1>1 DEF CoversCommands
  <2>1. CASE c \in alive
    BY <1>2, <2>1 DEF Commands, CoversCommands
  <2>2. CASE c = Command(i)
    BY <1>3, <2>2 DEF Covered, Command, step
  <2> QED  BY <1>1, <2>1, <2>2
<1>5. PostCommands(i)' \notin alive'
  BY <1>1, <1>2 DEF PostCommands, Command
<1>6. alive' \subseteq (ran' \X {"command"}) \cup (hooked' \X {"post"})
  BY <1>1 DEF Commands
<1> QED  BY <1>1, <1>4, <1>5, <1>6 DEF Commands

\* The step ends; the commands it leaves are recorded as not passed.
LEMMA CommandsLeft ==
  ASSUME PlansOK, PipeInv, Commands, at \in {"run", "hook"},
         NEW status \in {"passed", "failed", "cancelled"}, Finish(status),
         Command(i) \in alive => Failing(status) /\ (cancelled \/ May("unattended")),
         PostCommands(i) \in alive => cancelled \/ May("unattended"),
         UNCHANGED <<given, ran, hooked, alive, cancelled>>
  PROVE  Commands'
<1>1. plan' = plan /\ (May("unattended")' <=> May("unattended"))
  BY DEF given, May
<1>2. /\ Recorded' = Recorded \cup Outcomes(<<status>>, TRUE)
      /\ at' = "step"
  <2>1. status \in Statuses
    BY DEF Statuses
  <2>2. <<status>> \in Seq(Statuses) /\ Record(<<status>>, TRUE) /\ RunTypeOK
    BY <2>1, OneStatus DEF Finish, PipeInv
  <2> QED  BY <2>2, RecordAdds
<1>3. \E r \in Recorded' : r.step = i /\ r.status = status
  <2> DEFINE r == [step |-> i, byName |-> TRUE, status |-> status]
  <2>1. status \in Statuses
    BY DEF Statuses
  <2>2. r \in Outcomes(<<status>>, TRUE)
    BY <2>1, OneStatus DEF Outcomes
  <2>3. r \in Recorded' /\ r.step = i /\ r.status = status
    BY <1>2, <2>2
  <2> QED  BY <2>3
<1>4. CoversCommands'
  <2> SUFFICES ASSUME NEW c \in alive, plan.steps[c[1]].lock
               PROVE  Outlived(c)'
    BY <1>1 DEF CoversCommands
  <2>1. Covered(c) \/ Outlived(c)
    BY DEF Commands, CoversCommands
  <2>2. CASE Outlived(c)
    BY <1>1, <1>2, <2>2, AsASet, AsASetNext DEF Outlived
  <2>3. CASE c[1] = i
    <3>1. c \in {Command(i), PostCommands(i)}
      BY <2>3, CommandPlace DEF Command, PostCommands
    <3>2. CASE c = Command(i)
      <4>1. \E r \in Of(c[1])' : r.status = status
        BY <1>3, <2>3, AsASetNext
      <4>3. Failing(status) /\ (cancelled' \/ May("unattended")')
        BY <1>1, <3>2
      <4> QED  BY <4>1, <4>3 DEF Outlived, Failing
    <3>3. CASE c = PostCommands(i)
      BY <1>1, <3>3 DEF Outlived, PostCommands
    <3> QED  BY <3>1, <3>2, <3>3
  <2> QED  BY <2>1, <2>2, <2>3 DEF Covered
<1> QED  BY <1>2, <1>4 DEF Commands

LEMMA CommandsStep ==
  PlansOK /\ PipeInv /\ PipeInv' /\ Commands /\ [Next]_vars => Commands'
<1> SUFFICES ASSUME PlansOK, PipeInv, PipeInv', Commands, [Next]_vars
             PROVE  Commands'
  OBVIOUS
<1>1. ASSUME at' # "run", at' # "hook", at \notin {"run", "hook"},
             UNCHANGED <<given, ran, hooked, alive, cancelled>>, Recorded \subseteq Recorded'
      PROVE  Commands'
  BY <1>1, NoneStarted
<1>2. RunTypeOK
  BY DEF PipeInv
<1>3. ASSUME NEW statuses \in Seq(Statuses), NEW byName \in BOOLEAN, Record(statuses, byName)
      PROVE  at' = "step" /\ Recorded \subseteq Recorded'
  BY <1>2, <1>3, RecordAdds
<1>4. ASSUME NEW st \in Statuses, NEW byName \in BOOLEAN, Record(<<st>>, byName)
      PROVE  at' = "step" /\ Recorded \subseteq Recorded'
  BY <1>3, <1>4, OneStatus
<1>5. {"passed", "failed", "cancelled", "skipped", "triggered"} = Statuses
  BY DEF Statuses
<1>6. CASE Begin \/ End
  <2>1. /\ at \in {"clone", "dispatch", "tidy", "pending", "step", "always", "onFailure",
                   "report", "cleanup"}
        /\ at' \notin {"run", "hook"}
        /\ UNCHANGED <<given, work, results, cancelled>>
    <3>1. EnterSteps => at' \in {"step", "closed"}
      BY DEF EnterSteps, Return
    <3>2. CASE CloneSucceeds
      BY <1>2, <3>1, <3>2, PlanTypes DEF CloneSucceeds, Plan, loop
    <3>3. CASE Begin /\ ~CloneSucceeds
      BY <3>1, <3>3 DEF Begin, CloneFails, DispatchCollects, DispatchDone, Tidy, SetPending,
                   PendingFails, Return, loop
    <3>4. CASE End
      BY <3>4 DEF End, LoopDone, PostAlways, PostOnFailure, Report, Cleanup, Return, loop
    <3> QED  BY <1>6, <3>2, <3>3, <3>4
  <2> QED  BY <1>1, <2>1 DEF work, Recorded
<1>7. CASE SkipUnmetDeps \/ SkipByCondition \/ Gate \/ Triggered
  <2>1. at = "step" /\ UNCHANGED <<given, work, cancelled>>
    BY <1>7 DEF SkipUnmetDeps, SkipByCondition, Gate, Triggered, InLoop
  <2>2. \E st \in {"passed", "failed", "skipped", "triggered"} : \E b \in BOOLEAN : Record(<<st>>, b)
    BY <1>7 DEF SkipUnmetDeps, SkipByCondition, Gate, Triggered
  <2>3. at' = "step" /\ Recorded \subseteq Recorded'
    BY <1>4, <1>5, <2>2
  <2> QED  BY <1>1, <2>1, <2>3 DEF work
<1>8. CASE StartMatrix \/ StartTrigger
  <2>1. at = "step" /\ at' \in {"matrix", "trigger"} /\ UNCHANGED <<given, work, results, cancelled>>
    BY <1>8 DEF StartMatrix, StartTrigger, InLoop, loop
  <2> QED  BY <1>1, <2>1 DEF work, Recorded
<1>9. CASE MatrixEnds
  <2>1. at = "matrix" /\ UNCHANGED <<given, work, cancelled>>
    BY <1>9 DEF MatrixEnds, InLoop
  <2>2. \E statuses \in MatrixOutcomes : Record(statuses, FALSE)
    BY <1>9 DEF MatrixEnds
  <2>3. at' = "step" /\ Recorded \subseteq Recorded'
    BY <1>3, <2>2, MatrixLists
  <2> QED  BY <1>1, <2>1, <2>3 DEF work
<1>10. CASE TriggerEnds
  <2>1. at = "trigger" /\ UNCHANGED <<given, work, cancelled>>
    BY <1>10 DEF TriggerEnds, InLoop
  <2>2. \E st \in {"passed", "failed", "cancelled"} : Record(<<st>>, FALSE)
    <3>1. PICK child \in {"passed", "failed", "cancelled"} : Record(<<Propagated(step, child)>>, FALSE)
      BY <1>10 DEF TriggerEnds
    <3> QED  BY <3>1 DEF Propagated
  <2>3. at' = "step" /\ Recorded \subseteq Recorded'
    BY <1>4, <1>5, <2>2
  <2> QED  BY <1>1, <2>1, <2>3 DEF work
<1>11. CASE StartRegular \/ LockGranted \/ RoleAssumed
  <2>1. /\ at \in {"step", "lock", "role"}
        /\ UNCHANGED <<given, i, results, hooked, cancelled>>
        /\ Run \/ (at' \in {"lock", "role"} /\ NoRun)
    BY <1>11 DEF StartRegular, LockGranted, RoleAssumed, InLoop, loop
  <2>2. CASE Run
    BY <2>1, <2>2, CommandStarted
  <2>3. CASE at' \in {"lock", "role"} /\ NoRun
    BY <1>1, <2>1, <2>3 DEF NoRun, Recorded
  <2> QED  BY <2>1, <2>2, <2>3
<1>12. CASE LockTimesOut \/ RoleFails
  <2>1. at \in {"lock", "role"} /\ UNCHANGED <<given, ran, hooked, alive, cancelled>>
    BY <1>12 DEF LockTimesOut, RoleFails, InLoop, work
  <2>2. Record(<<"failed">>, TRUE)
    BY <1>12 DEF LockTimesOut, RoleFails
  <2>3. at' = "step" /\ Recorded \subseteq Recorded'
    BY <1>4, <1>5, <2>2
  <2> QED  BY <1>1, <2>1, <2>3
<1>13. CASE RunEnds
  <2>1. at = "run" /\ UNCHANGED <<given, ran, cancelled>> /\ PostCommands(i) \notin alive
    BY <1>13 DEF RunEnds, InLoop, Commands
  <2>2. PICK status \in EndsOfWait(Command(i)) :
          IF step.post
          THEN /\ at' = "hook" /\ outcome' = status
               /\ StartHook
               /\ UNCHANGED <<i, results, completed, overall, lock>>
          ELSE Finish(status) /\ UNCHANGED <<hooked, alive>>
    BY <1>13 DEF RunEnds
  <2>3. /\ status \in {"passed", "failed", "cancelled"}
        /\ Command(i) \in alive => Failing(status) /\ (cancelled \/ May("unattended"))
    BY DEF EndsOfWait, Failing
  <2>4. CASE ~step.post
    BY <2>1, <2>2, <2>3, <2>4, CommandsLeft
  <2>5. CASE step.post
    <3>1. /\ at' = "hook" /\ outcome' = status /\ UNCHANGED <<i, results, lock, plan>>
          /\ (May("unattended")' <=> May("unattended"))
          /\ alive' \subseteq alive \cup {PostCommands(i)} /\ hooked \subseteq hooked'
          /\ PostCommands(i) \in alive' => i \in hooked'
      BY <2>1, <2>2, <2>5 DEF StartHook, given, May
    <3>2. \A c : Outlived(c)' = Outlived(c) /\ Covered(c)' = Covered(c)
      BY <2>1, <3>1 DEF Outlived, Of, Covered
    <3>3. step.lock => lock
      BY <2>1 DEF PipeInv, LockKept, HeldInStep
    <3>4. CoversCommands'
      <4> SUFFICES ASSUME NEW c \in alive', plan.steps[c[1]].lock
                   PROVE  Covered(c) \/ Outlived(c)
        BY <3>1, <3>2 DEF CoversCommands
      <4>1. CASE c \in alive
        BY <4>1 DEF Commands, CoversCommands
      <4>2. CASE c = PostCommands(i)
        BY <3>3, <4>2 DEF Covered, PostCommands, step
      <4> QED  BY <3>1, <4>1, <4>2
    <3>5. alive' \subseteq (ran' \X {"command"}) \cup (hooked' \X {"post"})
      BY <2>1, <3>1 DEF Commands, PostCommands
    <3>6. Command(i)' \in alive' => Failing(outcome)' /\ (cancelled' \/ May("unattended")')
      BY <2>1, <2>3, <3>1 DEF Command, PostCommands, Failing
    <3> QED  BY <3>1, <3>4, <3>5, <3>6 DEF Commands
  <2> QED  BY <2>4, <2>5
<1>14. CASE HookEnds
  <2>1. /\ at = "hook" /\ Finish(outcome) /\ UNCHANGED <<given, ran, hooked, alive, cancelled>>
        /\ PostCommands(i) \in alive => cancelled \/ May("unattended")
    BY <1>14 DEF HookEnds, InLoop, EndsOfWait
  <2>2. outcome \in {"passed", "failed", "cancelled"}
    BY <1>2, <2>1 DEF PipeInv, InPlace, RunTypeOK
  <2> QED  BY <2>1, <2>2, CommandsLeft DEF Commands
<1>15. CASE CommandEnds \/ PendingArrivesLate \/ Cancel \/ UNCHANGED vars
  <2>1. /\ UNCHANGED <<given, at, i, outcome, results, lock, ran, hooked>>
        /\ alive' \subseteq alive /\ (cancelled => cancelled')
    BY <1>15 DEF CommandEnds, CommandStops, PendingArrivesLate, Cancel, vars, loop, work
  <2> QED  BY <2>1, NoneStarted DEF Recorded
<1> QED  BY <1>6, <1>7, <1>8, <1>9, <1>10, <1>11, <1>12, <1>13, <1>14, <1>15
            DEF Next, Workflow, Steps

----------------------------------------------------------------------------
(* The invariant of a run *)

LEMMA PipeStep == PlansOK /\ PipeInv /\ [Next]_vars => PipeInv'
<1> SUFFICES ASSUME PlansOK, PipeInv, [Next]_vars
             PROVE  PipeInv'
  OBVIOUS
<1>1. \/ Begin \/ End
      \/ SkipUnmetDeps \/ SkipByCondition \/ Gate
      \/ StartMatrix \/ MatrixEnds \/ Triggered \/ StartTrigger \/ TriggerEnds
      \/ StartRegular \/ LockGranted \/ LockTimesOut \/ RoleAssumed \/ RoleFails
      \/ RunEnds \/ HookEnds
      \/ CommandEnds \/ PendingArrivesLate \/ Cancel \/ UNCHANGED vars
  BY DEF Next, Workflow, Steps
<1> QED  BY <1>1, BeginStep, EndStep, OutsideStep, SkipsAndGates, ChildSteps, RegularSteps

LEMMA PipeStart == PlansOK /\ Init => PipeInv
<1> SUFFICES ASSUME PlansOK, Init
             PROVE  PipeInv
  OBVIOUS
<1>1. results = <<>> /\ at = "clone" /\ results \in Seq(Result) /\ DOMAIN results = {}
  BY DEF Init
<1>2. Recorded = {} /\ \A s : Of(s) = {}
  BY <1>1 DEF Recorded, ToSet, Of
<1>3. RunTypeOK
  <2>1. results \in Seq([step : Nat, byName : BOOLEAN, status : Statuses])
    BY <1>1 DEF Result
  <2>2. plan \in Plans /\ faults \in FaultSets /\ at \in Points
    BY DEF Init, Points
  <2>3. completed = {} /\ ran = {} /\ hooked = {} /\ posts = {} /\ i = 1
    BY DEF Init
  <2>4. /\ outcome = "none" /\ overall = "passed" /\ commit = "none" /\ returned = "none"
        /\ lock \in BOOLEAN /\ late \in BOOLEAN /\ cancelled \in BOOLEAN /\ checkout \in BOOLEAN
    BY DEF Init
  <2> QED  BY <2>1, <2>2, <2>3, <2>4 DEF RunTypeOK
<1>4. Fresh /\ LockKept
  BY DEF Init, Fresh, LockKept, HeldInStep
<1>5. InPlace
  BY <1>2 DEF Init, InPlace, Working
<1>6. Grounded
  BY <1>1, <1>2 DEF Init, Grounded, SkippedForCause, LoopAt, Working
<1>7. Verdicts
  BY DEF Init, Verdicts, CommitAgrees, LoopAt, Working, AfterAt
<1>8. Posted
  BY DEF Init, Posted, PostFollows, PostStepsFollow, PostCommandsFollow
<1> QED  BY <1>3, <1>4, <1>5, <1>6, <1>7, <1>8 DEF PipeInv

\* Whatever the plan, what goes wrong and when the run is cancelled, the parts
\* of the invariant hold of the run of ci_pipeline.go at every wait.
LEMMA PipelineHolds == Spec => [](PipeInv /\ Commands)
<1>1. PlansOK
  BY PlansOK
<1>2. Init => Commands
  BY DEF Init, Commands, CoversCommands
<1> QED  BY <1>1, <1>2, PipeStart, PipeStep, CommandsStep, PTL DEF Spec

----------------------------------------------------------------------------
(* What follows from it *)

\* The state of a run keeps its shape: results are of steps of the plan, the
\* statuses are those of the activities' types, and only what was started is
\* under way.
THEOREM PipelineTyped == Spec => []TypeOK
<1>1. PipeInv /\ Commands => TypeOK
  BY DEF PipeInv, Commands, TypeOK
<1> QED  BY <1>1, PipelineHolds, PTL

\* A command is started only when everything its step depends on is over and
\* good, and a step is skipped only for a cause: for every plan, with any mix of
\* gates, conditions, matrices and triggers between the steps.
THEOREM DependenciesDoDecide == Spec => []DependenciesDecide
<1>1. PipeInv => DependenciesDecide
  <2> SUFFICES ASSUME PipeInv
               PROVE  DependenciesDecide
    OBVIOUS
  <2>1. Grounded
    BY DEF PipeInv
  <2>2. ASSUME NEW j \in ran, NEW d \in plan.steps[j].deps
        PROVE  d < j /\ \A r \in Of(d) : Good(r)
    <3>1. j \in Nat /\ d \in completed \cap 1..(j - 1)
      BY <2>1, <2>2 DEF Grounded, Ready, PipeInv, RunTypeOK
    <3> QED  BY <2>1, <3>1 DEF Grounded
  <2> QED  BY <2>1, <2>2 DEF DependenciesDecide, RunsOnGoodGround, Grounded
<1> QED  BY <1>1, PipelineHolds, PTL

\* The overall status, the results and what GitHub is told never contradict
\* each other, whenever the run is cancelled and whichever reports are lost.
THEOREM VerdictsDoAgree == Spec => []VerdictsAgree
<1>1. PipeInv => VerdictsAgree
  <2> SUFFICES ASSUME PipeInv
               PROVE  VerdictsAgree
    OBVIOUS
  <2>1. Verdicts
    BY DEF PipeInv
  <2>2. OverallAgrees
    BY <2>1, AsASet DEF Verdicts, OverallAgrees, AfterLoop, AfterAt
  <2> QED  BY <2>1, <2>2 DEF VerdictsAgree, Verdicts
<1> QED  BY <1>1, PipelineHolds, PTL

\* The post steps of the pipeline and the post commands of its steps are run
\* when they have to be.
THEOREM PostDoesFollow == Spec => []PostFollows
<1>1. PipeInv => PostFollows
  BY DEF PipeInv, Posted
<1> QED  BY <1>1, PipelineHolds, PTL

\* A step with a lock holds it through its command and its post commands, and
\* the lock is released on every way out of the step: a timeout, a role that
\* cannot be assumed, a failure, a cancellation.  A command that goes on without
\* the lock is one whose wait was cancelled or timed out, and its step has not
\* passed.
THEOREM LockCovers == Spec => []LockCoversStep
<1>1. PipeInv /\ Commands => LockCoversStep
  BY DEF PipeInv, LockKept, Commands, LockCoversStep
<1> QED  BY <1>1, PipelineHolds, PTL
============================================================================
