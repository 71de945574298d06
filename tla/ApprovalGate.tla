---------------------------- MODULE ApprovalGate ----------------------------
(***************************************************************************)
(* The approval workflow (internal/workflows/approval.go): a note to Slack *)
(* whose failure is ignored, then a selector over the approval signals and *)
(* a timer.  Signals are kept from the start of the run; a cancellation    *)
(* ends the note and makes the timer ready.  The worker learns of what     *)
(* happened by workflow tasks, several events at a time.                   *)
(***************************************************************************)
EXTENDS Naturals, Sequences

CONSTANTS
  Answers,      \* approval signals, [approved, approver]
  MaxAnswers,   \* bound: signals sent to one gate
  NoteAttempts  \* attempts at the note (3)

ASSUME GateOK == NoteAttempts \in Nat \ {0}

TimedOut == [approved |-> FALSE, approver |-> "timeout"]

VARIABLES
  gate,      \* "noting", "waiting" or "done"
  attempts,  \* at the note that failed
  noted,     \* the activity of the note is over
  received,  \* signals in the order of the history
  halted,    \* the timer fired, or the run was cancelled
  heard,     \* how many signals came before that
  outcome    \* the result, once there is one

gateVars == <<gate, attempts, noted, received, halted, heard, outcome>>

GateInit ==
  /\ gate \in {"noting", "waiting"}   \* without a Slack address it waits at once
  /\ attempts = 0 /\ noted = FALSE
  /\ received = <<>> /\ halted = FALSE /\ heard = 0
  /\ outcome = {}

----------------------------------------------------------------------------
(* What happens to the run *)

NoteFails ==
  /\ gate = "noting" /\ ~noted /\ attempts' = attempts + 1
  /\ noted' = (attempts' = NoteAttempts)
  /\ UNCHANGED <<gate, received, halted, heard, outcome>>

NoteSent ==
  /\ gate = "noting" /\ ~noted /\ noted' = TRUE
  /\ UNCHANGED <<gate, attempts, received, halted, heard, outcome>>

Signal(a) ==
  /\ gate # "done" /\ Len(received) < MaxAnswers
  /\ received' = Append(received, a)
  /\ heard' = IF halted THEN heard ELSE heard + 1
  /\ UNCHANGED <<gate, attempts, noted, halted, outcome>>

Fire ==
  /\ gate = "waiting" /\ ~halted /\ halted' = TRUE
  /\ UNCHANGED <<gate, attempts, noted, received, heard, outcome>>

Cancel ==
  /\ gate # "done" /\ ~halted /\ halted' = TRUE
  /\ UNCHANGED <<gate, attempts, noted, received, heard, outcome>>

----------------------------------------------------------------------------
(* The workflow *)

Return(result) ==
  /\ gate' = "done" /\ outcome' = {result}
  /\ UNCHANGED <<attempts, noted, received, halted, heard>>

\* Mutant: a cancelled gate ends without a result.
SelectUnset ==
  /\ gate = "noting" /\ (noted \/ halted)
  /\ IF received # <<>> THEN Return(Head(received))
     ELSE gate' = (IF halted THEN "done" ELSE "waiting")
          /\ UNCHANGED <<attempts, noted, received, halted, heard, outcome>>

\* The note is over, or its wait cancelled: Select asks the signals first.
Select ==
  /\ gate = "noting" /\ (noted \/ halted)
  /\ IF received # <<>> THEN Return(Head(received))
     ELSE IF halted THEN Return(TimedOut)
     ELSE gate' = "waiting" /\ UNCHANGED <<attempts, noted, received, halted, heard, outcome>>

\* Mutant: the last signal of the task decides.
WakeByLast ==
  /\ gate = "waiting"
  /\ \/ heard > 0 /\ Return(received[Len(received)])
     \/ heard = 0 /\ halted /\ Return(TimedOut)

\* A waiting Select returns on the first event that makes one of its cases
\* ready; what else the task brings is not looked at.
Wake ==
  /\ gate = "waiting"
  /\ \/ heard > 0 /\ Return(Head(received))
     \/ heard = 0 /\ halted /\ Return(TimedOut)

GateNext ==
  \/ NoteFails \/ NoteSent \/ (\E a \in Answers : Signal(a)) \/ Fire \/ Cancel
  \/ Select \/ Wake

----------------------------------------------------------------------------
GateTypeOK ==
  /\ gate \in {"noting", "waiting", "done"} /\ attempts \in 0..NoteAttempts
  /\ received \in Seq(Answers) /\ heard \in 0..Len(received)
  /\ gate = "done" <=> outcome # {}

\* The first answer decides when it came before the timer fired or the run was
\* cancelled, also while the note was tried again; no later answer opens or
\* closes the gate, and without an answer it does not open.
FirstAnswerDecides ==
  gate = "done" =>
    /\ heard > 0 => outcome = {Head(received)}
    /\ outcome # {TimedOut} => received # <<>> /\ outcome = {Head(received)}
=============================================================================
