-------------------------- MODULE WebhookDispatch --------------------------
(***************************************************************************)
(* How the webhook server starts runs (cmd/webhook/main.go): the GitHub    *)
(* webhook, the custom webhook and the manual trigger, for one repository  *)
(* and one branch, with the operator's registration of the repository      *)
(* (internal/store/repo.go keeps it).  Requests are handled concurrently:  *)
(* every call to the store or to Temporal is a step of its own.            *)
(*                                                                         *)
(* Temporal has at most one open run per workflow ID; starting the ID of   *)
(* an open run does not fail, it answers with that run.                    *)
(***************************************************************************)
EXTENDS Naturals, SequencesExt, FiniteSets

CONSTANTS
  Pushes,    \* GitHub deliveries for the branch
  Triggers,  \* custom webhooks and manual triggers
  Ticks,     \* how far the millisecond clock may go
  Modes,     \* whether requests come one at a time, when no run is open
  Operators  \* what operators do: "register" and "delete"

Requests == Pushes \cup Triggers

ASSUME DispatchOK ==
  /\ Pushes \cap Triggers = {} /\ Ticks \in Nat /\ Modes \subseteq BOOLEAN
  /\ Operators \subseteq {"register", "delete"}

VARIABLES
  serial, \* the mode of this behaviour
  at,     \* where each request is
  repo,   \* the registration: "absent", "default" (automatic) or "custom"
  runs,   \* the runs started so far, by their start order
  run,    \* the run each request was answered with, 0 for none
  clock   \* milliseconds

vars == <<serial, at, repo, runs, run, clock>>

Init ==
  /\ serial \in Modes
  /\ at = [d \in Requests |-> "new"]
  /\ repo \in {"absent", "default", "custom"}
  /\ runs = <<>>
  /\ run = [d \in Requests |-> 0]
  /\ clock = 0

\* Mutant: a workflow ID is not used again.
Used(id) == {k \in DOMAIN runs : runs[k].id = id}

\* The ID of a push names the branch, that of a trigger the millisecond.
WorkflowID(d) == IF d \in Pushes THEN <<"branch", 0>> ELSE <<"at", clock>>

Open(id) == {k \in DOMAIN runs : runs[k].id = id /\ runs[k].state # "closed"}

Quiet ==
  /\ \A d \in Requests : at[d] \in {"new", "done"}
  /\ \A k \in DOMAIN runs : runs[k].state = "closed"

\* Nothing overlaps when requests are serial.
MayBegin == serial => Quiet

Goto(d, point) == at' = [at EXCEPT ![d] = point]

----------------------------------------------------------------------------
(* The GitHub webhook. *)

\* Mutant: every webhook registers the repository.
LookupAlwaysRegisters(d) ==
  /\ d \in Pushes /\ at[d] = "new" /\ MayBegin
  /\ Goto(d, "register")
  /\ UNCHANGED <<serial, repo, runs, run, clock>>

Lookup(d) ==
  /\ d \in Pushes /\ at[d] = "new" /\ MayBegin
  /\ Goto(d, IF repo = "absent" THEN "register" ELSE "cancel")
  /\ UNCHANGED <<serial, repo, runs, run, clock>>

\* Register overwrites what is there.
AutoRegister(d) ==
  /\ at[d] = "register"
  /\ repo' = "default"
  /\ Goto(d, "cancel")
  /\ UNCHANGED <<serial, runs, run, clock>>

\* Mutant: every run of the repository is cancelled.
CancelAll(d) ==
  /\ at[d] = "cancel"
  /\ runs' = [k \in DOMAIN runs |->
                IF runs[k].state = "open" THEN [runs[k] EXCEPT !.state = "cancelling"]
                ELSE runs[k]]
  /\ Goto(d, "start")
  /\ UNCHANGED <<serial, repo, run, clock>>

\* The cancellation is a request: the run goes on until it has dealt with it.
CancelPrevious(d) ==
  /\ at[d] = "cancel"
  /\ runs' = [k \in DOMAIN runs |->
                IF k \in Open(WorkflowID(d)) THEN [runs[k] EXCEPT !.state = "cancelling"]
                ELSE runs[k]]
  /\ Goto(d, "start")
  /\ UNCHANGED <<serial, repo, run, clock>>

----------------------------------------------------------------------------
(* The custom webhook and the manual trigger: repositories must be known. *)

LookupTrigger(d) ==
  /\ d \in Triggers /\ at[d] = "new" /\ MayBegin
  /\ Goto(d, IF repo = "absent" THEN "done" ELSE "start")
  /\ UNCHANGED <<serial, repo, runs, run, clock>>

----------------------------------------------------------------------------


\* Answer with the open run of the ID, or with a new one.
Start(d) ==
  /\ at[d] = "start"
  /\ \/ \E k \in Open(WorkflowID(d)) :
          run' = [run EXCEPT ![d] = k] /\ UNCHANGED runs
     \/ /\ Open(WorkflowID(d)) = {}
        /\ runs' = Append(runs, [id |-> WorkflowID(d), input |-> d, state |-> "open"])
        /\ run' = [run EXCEPT ![d] = Len(runs) + 1]
  /\ Goto(d, "done")
  /\ UNCHANGED <<serial, repo, clock>>

\* Mutant: the error is ignored and the request answered all the same.
StartFailsUnnoticed(d) ==
  /\ at[d] = "start"
  /\ run' = [run EXCEPT ![d] = Len(runs) + 1]
  /\ Goto(d, "done")
  /\ UNCHANGED <<serial, repo, runs, clock>>

\* Temporal cannot be reached: the handler goes on without a run.
StartFails(d) ==
  /\ at[d] = "start"
  /\ Goto(d, "done")
  /\ UNCHANGED <<serial, repo, runs, run, clock>>

RunCloses(k) ==
  /\ runs[k].state # "closed"
  /\ runs' = [runs EXCEPT ![k].state = "closed"]
  /\ UNCHANGED <<serial, at, repo, run, clock>>

Register ==
  /\ "register" \in Operators /\ MayBegin
  /\ repo' = "custom"
  /\ UNCHANGED <<serial, at, runs, run, clock>>

Delete ==
  /\ "delete" \in Operators /\ MayBegin
  /\ repo' = "absent"
  /\ UNCHANGED <<serial, at, runs, run, clock>>

Tick == clock < Ticks /\ clock' = clock + 1 /\ UNCHANGED <<serial, at, repo, runs, run>>

Handle(d) ==
  \/ Lookup(d) \/ AutoRegister(d) \/ CancelPrevious(d) \/ LookupTrigger(d)
  \/ Start(d) \/ StartFails(d)

Next ==
  \/ \E d \in Requests : Handle(d)
  \/ \E k \in DOMAIN runs : RunCloses(k)
  \/ Register \/ Delete \/ Tick

Spec == Init /\ [][Next]_vars

----------------------------------------------------------------------------
(* Properties *)

\* Every variable keeps its shape.
TypeOK ==
  /\ serial \in Modes
  /\ at \in [Requests -> {"new", "register", "cancel", "start", "done"}]
  /\ repo \in {"absent", "default", "custom"}
  /\ runs \in Seq([id : {"branch", "at"} \X (0..Ticks), input : Requests,
                   state : {"open", "cancelling", "closed"}])
  /\ run \in [Requests -> 0..Len(runs)]
  /\ clock \in 0..Ticks

\* A request that was accepted is built: the run it was answered with has its
\* commit and parameters.
AcceptedIsBuilt ==
  \A d \in Requests : run[d] # 0 => runs[run[d]].input = d

\* Requests that do not overlap with others, or with their runs, are built.
BuiltWhenSerial == serial => AcceptedIsBuilt

\* What an operator has registered is not replaced by the defaults of the
\* automatic registration, when no webhook was under way.
KeepsRegistration == [][serial => ~(repo = "custom" /\ repo' = "default")]_vars

\* A run is asked to stop only for another push of its branch: never the run of
\* a custom webhook or a manual trigger, and never for the push it builds.
CancelledForAnotherPush ==
  \A k \in DOMAIN runs : runs[k].state = "cancelling" =>
    /\ runs[k].input \in Pushes
    /\ \E d \in Pushes \ {runs[k].input} : at[d] \in {"start", "done"}
============================================================================
