----------------------------- MODULE StepOrder -----------------------------
(***************************************************************************)
(* What the validator says of depends_on (internal/config/pipeline.go):    *)
(* names, references and cycles; and the loop of the pipeline workflow     *)
(* that runs the steps in the order of the file.                           *)
(*                                                                         *)
(* detectCycle is a search in depth.  Its recursion is a machine here: the *)
(* calls of visit under way are the names of `path', and `turn' holds how  *)
(* far their loops are, after that of the loop over the steps.             *)
(***************************************************************************)
EXTENDS Naturals, SequencesExt

CONSTANTS
  StepNames,
  NoName,     \* the name of a step that has none
  Pipelines   \* what the files list: sequences of steps

Names == StepNames \cup {NoName}

\* A step: its name, and the names it depends on in the order listed.
Step == [name : Names, deps : Seq(StepNames)]

ASSUME OrderOK == NoName \notin StepNames /\ Pipelines \subseteq Seq(Step)

VARIABLES
  steps,      \* of the pipeline that is asked about
  phase,
  mark,       \* visited
  path,       \* the names on the way
  turn,       \* where the loop over the steps is, and those of the names of path
  cycle,      \* what detectCycle returns
  ran,        \* the steps that runSteps has been through
  completed   \* of runSteps

order == <<steps, phase, mark, path, turn, cycle, ran, completed>>

Named(n) == {i \in DOMAIN steps : steps[i].name = n}

\* graph[s.Name] = s.DependsOn: the last step of a name counts, and an unknown
\* name depends on nothing.
Graph(n) ==
  IF Named(n) = {} THEN <<>>
  ELSE steps[CHOOSE i \in Named(n) : \A j \in Named(n) : j <= i].deps

OrderStart ==
  /\ phase = "search"
  /\ mark = [n \in Names |-> ""]
  /\ path = <<>> /\ turn = <<1>>
  /\ cycle = <<>>
  /\ ran = 0 /\ completed = {}

OrderInit == steps \in Pipelines /\ OrderStart

----------------------------------------------------------------------------
(* detectCycle *)

\* What the k-th loop goes through.
Loop(k) ==
  IF k = 1 THEN [i \in DOMAIN steps |-> steps[i].name] ELSE Graph(path[k - 1])

Innermost == Loop(Len(turn))

Advanced(loops) == [loops EXCEPT ![Len(loops)] = @ + 1]

Calling(n) ==
  /\ phase = "search"
  /\ Last(turn) \in DOMAIN Innermost
  /\ n = Innermost[Last(turn)]

\* visit(n) where n is done.
SkipDone(n) ==
  /\ Calling(n) /\ mark[n] = "done"
  /\ turn' = Advanced(turn)
  /\ UNCHANGED <<steps, phase, mark, path, cycle, ran, completed>>

\* visit(n) where n is on the way: every call returns true.
MeetCycle(n) ==
  /\ Calling(n) /\ mark[n] = "seen"
  /\ cycle' = path
  /\ phase' = "run"
  /\ UNCHANGED <<steps, mark, path, turn, ran, completed>>

Enter(n) ==
  /\ Calling(n) /\ mark[n] = ""
  /\ mark' = [mark EXCEPT ![n] = "seen"]
  /\ path' = Append(path, n)
  /\ turn' = Append(turn, 1)
  /\ UNCHANGED <<steps, phase, cycle, ran, completed>>

\* Mutant: a name that was visited keeps its mark.
StaysSeen == mark

MarkedDone == [mark EXCEPT ![Last(path)] = "done"]

Leave ==
  /\ phase = "search" /\ path # <<>>
  /\ Last(turn) > Len(Innermost)
  /\ mark' = MarkedDone
  /\ path' = Front(path)
  /\ turn' = Advanced(Front(turn))
  /\ UNCHANGED <<steps, phase, cycle, ran, completed>>

NoCycle ==
  /\ phase = "search" /\ path = <<>>
  /\ Last(turn) > Len(Innermost)
  /\ phase' = "run"
  /\ UNCHANGED <<steps, mark, path, turn, cycle, ran, completed>>

----------------------------------------------------------------------------
\* validatePipeline, as far as it is about steps.
Accepted ==
  /\ \A i \in DOMAIN steps : steps[i].name # NoName /\ Named(steps[i].name) = {i}
  /\ \A i \in DOMAIN steps : \A d \in ToSet(steps[i].deps) : Named(d) # {}
  /\ cycle = <<>>

DepsOK(step) == ToSet(step.deps) \subseteq completed

\* runSteps when no step fails: one whose dependencies have not run is skipped.
RunNext ==
  /\ phase = "run" /\ ran < Len(steps)
  /\ ran' = ran + 1
  /\ completed' = completed \cup {n \in Names : n = steps[ran + 1].name /\ DepsOK(steps[ran + 1])}
  /\ UNCHANGED <<steps, phase, mark, path, turn, cycle>>

OrderNext ==
  \/ \E n \in Names : SkipDone(n) \/ MeetCycle(n) \/ Enter(n)
  \/ Leave \/ NoCycle
  \/ RunNext

OrderSpec == OrderInit /\ [][OrderNext]_order

----------------------------------------------------------------------------
DependsOn(m, n) == n \in ToSet(Graph(m))

\* The names of S wait for each other: every one of them for another of them.
KnotOf(S) == \A m \in S : \E n \in S : DependsOn(m, n)

Knot == \E S \in (SUBSET Names) \ {{}} : KnotOf(S)

Chain(names) ==
  /\ \A i \in 1..(Len(names) - 1) : DependsOn(names[i], names[i + 1])
  /\ \E n \in ToSet(names) : DependsOn(Last(names), n)

\* Every variable keeps its shape, and each call of visit has its loop.
OrderTypeOK ==
  /\ steps \in Seq(Step) /\ phase \in {"search", "run"}
  /\ mark \in [Names -> {"", "seen", "done"}]
  /\ path \in Seq(Names) /\ turn \in Seq(Nat \ {0}) /\ Len(turn) = Len(path) + 1
  /\ cycle \in Seq(Names)
  /\ ran \in 0..Len(steps) /\ completed \subseteq Names

\* A cycle is reported exactly when steps wait for each other, and the chain
\* that the report names is one: no step of it but waits for the next, and the
\* last for one of them.
CyclesFound ==
  phase = "run" =>
    /\ Knot <=> cycle # <<>>
    /\ cycle # <<>> => Chain(cycle)

ListedInOrder ==
  \A i \in DOMAIN steps : \A d \in ToSet(steps[i].deps) : \E j \in 1..(i - 1) : steps[j].name = d

AllCompleted == \A i \in DOMAIN steps : steps[i].name \in completed

\* A pipeline that is accepted runs every step when none fails, exactly if the
\* file lists each after those it depends on.
RunsListedInOrder ==
  phase = "run" /\ ran = Len(steps) /\ Accepted => (AllCompleted <=> ListedInOrder)

\* The validator finds the cycles there are and no others, and what it accepts
\* runs, when it is listed in order.
OrderJudged == CyclesFound /\ RunsListedInOrder

\* Not met: every accepted pipeline runs all its steps ("Step names this step
\* waits for").
AcceptedAllRun ==
  phase = "run" /\ ran = Len(steps) /\ Accepted => AllCompleted
=============================================================================
