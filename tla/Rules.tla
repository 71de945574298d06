------------------------------- MODULE Rules -------------------------------
(***************************************************************************)
(* The rules a pipeline file is read by: the order of its steps, the       *)
(* triggers of its pipelines, the matrix of a step.  They share nothing,   *)
(* so a behaviour is about one of them, and the others have some case that *)
(* they never look at.                                                     *)
(***************************************************************************)
EXTENDS StepOrder, Triggers, MatrixExpansion

ASSUME RulesOK == Pipelines # {} /\ TriggerCases # {} /\ MatrixCases # {}

VARIABLE rule

SomeSteps   == CHOOSE list \in Pipelines : TRUE
SomeTrigger == CHOOSE c \in TriggerCases : TRUE
SomeMatrix  == CHOOSE m \in MatrixCases : TRUE

Init ==
  /\ rule \in {"order", "triggers", "matrix"}
  /\ steps \in IF rule = "order" THEN Pipelines ELSE {SomeSteps}
  /\ asked \in IF rule = "triggers" THEN TriggerCases ELSE {SomeTrigger}
  /\ ask \in IF rule = "matrix" THEN MatrixCases ELSE {SomeMatrix}
  /\ OrderStart /\ verdict = {} /\ MatrixStart

JudgeOrder == rule = "order" /\ OrderNext /\ UNCHANGED <<selection, matrix, rule>>

JudgeTriggers == rule = "triggers" /\ Judge /\ UNCHANGED <<order, matrix, rule>>

JudgeMatrix == rule = "matrix" /\ MatrixNext /\ UNCHANGED <<order, selection, rule>>

Next == JudgeOrder \/ JudgeTriggers \/ JudgeMatrix

Spec == Init /\ [][Next]_<<order, selection, matrix, rule>>

TypeOK == OrderTypeOK /\ MatrixTypeOK
=============================================================================
