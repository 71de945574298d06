----------------------- MODULE WebhookDispatchProofs -----------------------
(***************************************************************************)
(* Proofs about WebhookDispatch, for any number of requests.               *)
(***************************************************************************)
EXTENDS WebhookDispatch, TLAPS

----------------------------------------------------------------------------
(* The inductive invariant *)

Under(d) == at[d] \in {"register", "cancel", "start"}

\* The workflow ID of a run tells whether a push started it.
Named ==
  \A k \in DOMAIN runs : runs[k].id = <<"branch", 0>> <=> runs[k].input \in Pushes

\* Only pushes register the repository and cancel runs.
PushesOnly == \A d \in Requests : at[d] \in {"register", "cancel"} => d \in Pushes

\* A request has a run only when it has been answered.
RunsAnswered ==
  /\ \A k \in DOMAIN runs : at[runs[k].input] = "done"
  /\ \A d \in Requests : run[d] # 0 => at[d] = "done"

\* Serial requests are under way one at a time, when no run is open, and the
\* operator does not register meanwhile.
Alone ==
  serial => \A d \in Requests : Under(d) =>
    /\ \A e \in Requests : Under(e) => e = d
    /\ \A k \in DOMAIN runs : runs[k].state = "closed"
    /\ at[d] = "register" => repo = "absent"

DispatchInv ==
  /\ TypeOK /\ Named /\ PushesOnly /\ RunsAnswered /\ Alone
  /\ CancelledForAnotherPush /\ BuiltWhenSerial

Entry == [id : {"branch", "at"} \X (0..Ticks), input : Requests,
          state : {"open", "cancelling", "closed"}]

Places == {"new", "register", "cancel", "start", "done"}

LEMMA Shapes ==
  ASSUME TypeOK
  PROVE  /\ runs \in Seq(Entry) /\ Len(runs) \in Nat /\ DOMAIN runs = 1..Len(runs)
         /\ \A k \in DOMAIN runs : runs[k] \in Entry /\ runs[k].input \in Requests
         /\ at \in [Requests -> Places] /\ run \in [Requests -> 0..Len(runs)]
<1>1. runs \in Seq(Entry) /\ at \in [Requests -> Places] /\ run \in [Requests -> 0..Len(runs)]
  BY DEF TypeOK, Entry, Places
<1>2. \A k \in DOMAIN runs : runs[k] \in Entry
  BY <1>1
<1> QED  BY <1>1, <1>2 DEF Entry

\* The ID of a push names the branch, that of a trigger does not.
LEMMA IDs ==
  ASSUME DispatchOK, TypeOK, NEW d \in Requests
  PROVE  /\ WorkflowID(d) \in {"branch", "at"} \X (0..Ticks)
         /\ WorkflowID(d) = <<"branch", 0>> <=> d \in Pushes
<1>1. Ticks \in Nat /\ clock \in 0..Ticks
  BY DEF DispatchOK, TypeOK
<1>2. CASE d \in Pushes
  BY <1>1, <1>2 DEF WorkflowID
<1>3. CASE d \notin Pushes
  <2>1. WorkflowID(d) = <<"at", clock>> /\ "at" # "branch"
    BY <1>3 DEF WorkflowID
  <2> QED  BY <1>1, <1>3, <2>1
<1> QED  BY <1>2, <1>3

----------------------------------------------------------------------------
(* Steps that do not touch the runs *)

\* A request moves on, and the registration may change.
LEMMA Moves ==
  ASSUME DispatchOK, DispatchInv, NEW d \in Requests, NEW point \in Places, Goto(d, point),
         UNCHANGED <<serial, runs, run, clock>>, repo' \in {"absent", "default", "custom"},
         at[d] # "done", point # "new",
         at[d] = "new" => MayBegin, at[d] = "start" => point = "done",
         point = "register" => repo' = "absent", point \in {"register", "cancel"} => d \in Pushes
  PROVE  DispatchInv'
<1>0. TypeOK /\ Named /\ PushesOnly /\ RunsAnswered /\ Alone /\ CancelledForAnotherPush /\ BuiltWhenSerial
  BY DEF DispatchInv
<1>1. /\ at' \in [Requests -> Places] /\ at'[d] = point
      /\ \A e \in Requests : e # d => at'[e] = at[e]
  BY <1>0, Shapes DEF Goto
<1>2. TypeOK'
  BY <1>0, <1>1 DEF TypeOK, Places
<1>3. Named' /\ BuiltWhenSerial'
  BY <1>0 DEF Named, BuiltWhenSerial, AcceptedIsBuilt
<1>4. RunsAnswered'
  <2>1. \A e \in Requests : at[e] = "done" => at'[e] = "done"
    BY <1>1
  <2>2. \A k \in DOMAIN runs : runs[k].input \in Requests
    BY <1>0, Shapes
  <2> QED  BY <1>0, <2>1, <2>2 DEF RunsAnswered
<1>5. Alone'
  <2> SUFFICES ASSUME serial, NEW e \in Requests, Under(e)'
               PROVE  /\ \A f \in Requests : Under(f)' => f = e
                      /\ \A k \in DOMAIN runs : runs[k].state = "closed"
                      /\ at'[e] = "register" => repo' = "absent"
    BY DEF Alone
  <2>1. \A f \in Requests : f # d => ~Under(f)
    <3>1. CASE at[d] = "new"
      BY <3>1, <1>0 DEF MayBegin, Quiet, Under
    <3>2. CASE at[d] # "new"
      <4>1. Under(d)
        BY <3>2, <1>0 DEF Under, TypeOK
      <4> QED  BY <1>0, <4>1 DEF Alone
    <3> QED  BY <3>1, <3>2
  <2>2. \A k \in DOMAIN runs : runs[k].state = "closed"
    <3>1. CASE at[d] = "new"
      BY <3>1 DEF MayBegin, Quiet
    <3>2. CASE at[d] # "new"
      <4>1. Under(d)
        BY <3>2, <1>0 DEF Under, TypeOK
      <4> QED  BY <1>0, <4>1 DEF Alone
    <3> QED  BY <3>1, <3>2
  <2>3. \A f \in Requests : Under(f)' => f = d
    BY <1>1, <2>1 DEF Under
  <2> QED  BY <1>1, <2>2, <2>3
<1>6. CancelledForAnotherPush'
  <2>1. \A e \in Pushes : at[e] \in {"start", "done"} => at'[e] \in {"start", "done"}
    BY <1>1 DEF Requests
  <2> QED  BY <1>0, <2>1 DEF CancelledForAnotherPush
<1>7. PushesOnly'
  BY <1>0, <1>1 DEF PushesOnly
<1> QED  BY <1>2, <1>3, <1>4, <1>5, <1>6, <1>7 DEF DispatchInv

\* A change of the states of runs: they are cancelled for another push, or
\* closed.
LEMMA RunsChange ==
  ASSUME DispatchOK, DispatchInv, NEW d \in Requests,
         runs' \in Seq(Entry), Len(runs') = Len(runs),
         \A k \in DOMAIN runs : /\ runs'[k].id = runs[k].id /\ runs'[k].input = runs[k].input
                                /\ runs[k].state = "closed" => runs'[k].state = "closed"
                                /\ \/ runs'[k].state \in {runs[k].state, "closed"}
                                   \/ /\ at[d] = "cancel" /\ d \in Pushes /\ Goto(d, "start")
                                      /\ runs[k].id = <<"branch", 0>>,
         UNCHANGED <<serial, repo, run, clock>>,
         UNCHANGED at \/ (at[d] = "cancel" /\ Goto(d, "start"))
  PROVE  DispatchInv'
<1>0. TypeOK /\ Named /\ PushesOnly /\ RunsAnswered /\ Alone /\ CancelledForAnotherPush /\ BuiltWhenSerial
  BY DEF DispatchInv
<1>1. /\ at' \in [Requests -> Places]
      /\ \A e \in Requests : e # d => at'[e] = at[e]
      /\ at'[d] = at[d] \/ (at[d] = "cancel" /\ at'[d] = "start")
  BY <1>0, Shapes DEF Goto, Places
<1>2. DOMAIN runs' = DOMAIN runs /\ \A k \in DOMAIN runs : runs[k].input \in Requests
  BY <1>0, Shapes
<1>3. TypeOK'
  BY <1>0, <1>1 DEF TypeOK, Places, Entry
<1>4. Named'
  BY <1>0, <1>2 DEF Named
<1>5. RunsAnswered'
  BY <1>0, <1>1, <1>2 DEF RunsAnswered
<1>6. Alone'
  <2>1. \A e \in Requests : Under(e)' <=> Under(e)
    BY <1>1 DEF Under
  <2>2. \A e \in Requests : at'[e] = "register" => at[e] = "register"
    BY <1>1
  <2> QED  BY <1>0, <1>2, <2>1, <2>2 DEF Alone
<1>7. CancelledForAnotherPush'
  <2> SUFFICES ASSUME NEW k \in DOMAIN runs, runs'[k].state = "cancelling"
               PROVE  /\ runs[k].input \in Pushes
                      /\ \E e \in Pushes \ {runs[k].input} : at'[e] \in {"start", "done"}
    BY <1>2 DEF CancelledForAnotherPush
  <2>1. CASE runs[k].state = "cancelling"
    <3>1. \A e \in Pushes : at[e] \in {"start", "done"} => at'[e] \in {"start", "done"}
      BY <1>1 DEF Requests
    <3> QED  BY <1>0, <2>1, <3>1 DEF CancelledForAnotherPush
  <2>2. CASE runs[k].state # "cancelling"
    <3>1. at[d] = "cancel" /\ runs[k].id = <<"branch", 0>> /\ d \in Pushes /\ Goto(d, "start")
      BY <2>2
    <3>2. runs[k].input \in Pushes /\ at[runs[k].input] = "done"
      BY <1>0, <3>1 DEF Named, RunsAnswered
    <3>3. d # runs[k].input
      BY <3>1, <3>2
    <3>4. at'[d] = "start"
      BY <1>0, <3>1, Shapes DEF Goto
    <3> QED  BY <3>1, <3>2, <3>3, <3>4
  <2> QED  BY <2>1, <2>2
<1>8. BuiltWhenSerial'
  <2>1. \A e \in Requests : run[e] # 0 => run[e] \in DOMAIN runs
    BY <1>0, Shapes
  <2> QED  BY <1>0, <1>2, <2>1 DEF BuiltWhenSerial, AcceptedIsBuilt
<1>9. PushesOnly'
  BY <1>0, <1>1 DEF PushesOnly
<1> QED  BY <1>3, <1>4, <1>5, <1>6, <1>7, <1>8, <1>9 DEF DispatchInv

----------------------------------------------------------------------------
(* The steps *)

LEMMA CancelStep ==
  ASSUME DispatchOK, DispatchInv, NEW d \in Requests, CancelPrevious(d)
  PROVE  DispatchInv'
<1>0. TypeOK /\ d \in Pushes
  BY DEF DispatchInv, PushesOnly, CancelPrevious
<1>1. /\ runs' = [k \in DOMAIN runs |->
                    IF k \in Open(WorkflowID(d)) THEN [runs[k] EXCEPT !.state = "cancelling"]
                    ELSE runs[k]]
      /\ UNCHANGED <<serial, repo, run, clock>> /\ at[d] = "cancel" /\ Goto(d, "start")
  BY DEF CancelPrevious
<1>2. \A k \in DOMAIN runs :
        /\ runs'[k] \in Entry /\ runs'[k].id = runs[k].id /\ runs'[k].input = runs[k].input
        /\ k \in Open(WorkflowID(d)) => runs[k].state # "closed" /\ runs[k].id = <<"branch", 0>>
        /\ k \notin Open(WorkflowID(d)) => runs'[k].state = runs[k].state
  <2> TAKE k \in DOMAIN runs
  <2>1. runs[k] \in Entry
    BY <1>0, Shapes
  <2>2. CASE k \in Open(WorkflowID(d))
    <3>1. runs'[k] = [runs[k] EXCEPT !.state = "cancelling"]
      BY <1>1, <2>2
    <3>2. runs[k].state # "closed" /\ runs[k].id = <<"branch", 0>>
      BY <1>0, <2>2 DEF Open, WorkflowID
    <3> QED  BY <2>1, <2>2, <3>1, <3>2 DEF Entry
  <2>3. CASE k \notin Open(WorkflowID(d))
    BY <1>1, <2>1, <2>3
  <2> QED  BY <2>2, <2>3
<1>3. runs' \in Seq(Entry) /\ Len(runs') = Len(runs)
  <2>1. DOMAIN runs = 1..Len(runs) /\ Len(runs) \in Nat
    BY <1>0, Shapes
  <2>2. runs' = [k \in 1..Len(runs) |->
                    IF k \in Open(WorkflowID(d)) THEN [runs[k] EXCEPT !.state = "cancelling"]
                    ELSE runs[k]]
    BY <1>1, <2>1
  <2> QED  BY <1>2, <2>1, <2>2
<1> QED  BY <1>0, <1>1, <1>2, <1>3, RunsChange

LEMMA CloseStep ==
  ASSUME DispatchOK, DispatchInv, NEW k \in DOMAIN runs, RunCloses(k)
  PROVE  DispatchInv'
<1>0. TypeOK
  BY DEF DispatchInv
<1>1. /\ runs' = [runs EXCEPT ![k] = [runs[k] EXCEPT !.state = "closed"]]
      /\ UNCHANGED <<serial, at, repo, run, clock>>
  BY DEF RunCloses
<1>2. runs[k] \in Entry /\ runs \in Seq(Entry) /\ runs[k].input \in Requests
  BY <1>0, Shapes
<1>3. [runs[k] EXCEPT !.state = "closed"] \in Entry
  BY <1>2 DEF Entry
<1>4. runs' \in Seq(Entry) /\ Len(runs') = Len(runs)
  BY <1>1, <1>2, <1>3
<1>5. \A j \in DOMAIN runs : /\ runs'[j].id = runs[j].id /\ runs'[j].input = runs[j].input
                             /\ runs[j].state = "closed" => runs'[j].state = "closed"
                             /\ runs'[j].state \in {runs[j].state, "closed"}
  <2> TAKE j \in DOMAIN runs
  <2>1. runs'[j] = IF j = k THEN [runs[k] EXCEPT !.state = "closed"] ELSE runs[j]
    BY <1>1, <1>2
  <2>2. runs[j] \in Entry
    BY <1>0, Shapes
  <2> QED  BY <2>1, <2>2 DEF Entry
<1> QED  BY <1>1, <1>2, <1>4, <1>5, RunsChange

\* A new run is of the request that is answered with it; an open one of the
\* same ID is that of another request.
LEMMA StartStep ==
  ASSUME DispatchOK, DispatchInv, NEW d \in Requests, Start(d)
  PROVE  DispatchInv'
<1>0. TypeOK /\ Named /\ PushesOnly /\ RunsAnswered /\ Alone /\ CancelledForAnotherPush /\ BuiltWhenSerial
  BY DEF DispatchInv
<1>1. /\ at \in [Requests -> Places] /\ at[d] = "start" /\ at' = [at EXCEPT ![d] = "done"]
      /\ UNCHANGED <<serial, repo, clock>>
  BY <1>0, Shapes DEF Start, Goto
<1>2. /\ at' \in [Requests -> Places] /\ at'[d] = "done"
      /\ \A e \in Requests : at'[e] = at[e] \/ at'[e] = "done"
      /\ \A e \in Requests : Under(e)' => Under(e) /\ e # d
      /\ \A e \in Requests : at'[e] = "register" => at[e] = "register"
  BY <1>1 DEF Under, Places
<1>3. Under(d)
  BY <1>1 DEF Under
<1>4. /\ Len(runs) \in Nat /\ DOMAIN runs = 1..Len(runs) /\ runs \in Seq(Entry)
      /\ run \in [Requests -> 0..Len(runs)] /\ \A k \in DOMAIN runs : runs[k].input \in Requests
  BY <1>0, Shapes
<1>5. \A e \in Pushes : at[e] \in {"start", "done"} => at'[e] \in {"start", "done"}
  BY <1>2 DEF Requests
<1>6. serial => \A e \in Requests : ~Under(e)'
  BY <1>0, <1>2, <1>3 DEF Alone
<1>7. Alone'
  BY <1>1, <1>6 DEF Alone
<1>8. PushesOnly'
  BY <1>0, <1>2 DEF PushesOnly
<1>9. ASSUME NEW k \in Open(WorkflowID(d)), run' = [run EXCEPT ![d] = k], UNCHANGED runs
      PROVE  DispatchInv'
  <2>1. k \in DOMAIN runs /\ runs[k].state # "closed"
    BY <1>9 DEF Open
  <2>2. run' \in [Requests -> 0..Len(runs')]
    BY <1>4, <1>9, <2>1
  <2>3. TypeOK'
    BY <1>0, <1>1, <1>2, <1>9, <2>2 DEF TypeOK, Places
  <2>4. RunsAnswered'
    <3>1. \A e \in Requests : e # d => run'[e] = run[e]
      BY <1>4, <1>9
    <3> QED  BY <1>0, <1>2, <1>4, <1>9, <3>1 DEF RunsAnswered
  <2>5. Named' /\ CancelledForAnotherPush'
    BY <1>0, <1>5, <1>9 DEF Named, CancelledForAnotherPush
  <2>6. ~serial
    BY <1>0, <1>3, <2>1 DEF Alone
  <2> QED  BY <1>1, <1>7, <1>8, <2>3, <2>4, <2>5, <2>6 DEF DispatchInv, BuiltWhenSerial
<1>10. ASSUME runs' = Append(runs, [id |-> WorkflowID(d), input |-> d, state |-> "open"]),
             run' = [run EXCEPT ![d] = Len(runs) + 1]
      PROVE  DispatchInv'
  <2> DEFINE new == [id |-> WorkflowID(d), input |-> d, state |-> "open"]
  <2>1. new \in Entry /\ new.input = d /\ new.state = "open" /\ new.id = WorkflowID(d)
    BY <1>0, IDs DEF Entry
  <2>2. runs' = Append(runs, new)
    BY <1>10
  <2> HIDE DEF new
  <2>3. /\ runs' \in Seq(Entry) /\ Len(runs') = Len(runs) + 1 /\ DOMAIN runs' = 1..(Len(runs) + 1)
        /\ runs'[Len(runs) + 1] = new /\ \A k \in DOMAIN runs : runs'[k] = runs[k]
    BY <1>4, <2>1, <2>2
  <2>4. \A k \in DOMAIN runs' : k \in DOMAIN runs \/ k = Len(runs) + 1
    BY <1>4, <2>3
  <2>5. run' \in [Requests -> 0..Len(runs')]
    BY <1>4, <1>10, <2>3
  <2>6. TypeOK'
    BY <1>0, <1>1, <1>2, <2>3, <2>5 DEF TypeOK, Places, Entry
  <2>7. Named'
    BY <1>0, <2>1, <2>3, <2>4, IDs DEF Named
  <2>8. RunsAnswered'
    <3>1. \A e \in Requests : e # d => run'[e] = run[e]
      BY <1>4, <1>10
    <3>2. \A k \in DOMAIN runs' : at'[runs'[k].input] = "done"
      BY <1>0, <1>2, <1>4, <2>1, <2>3, <2>4 DEF RunsAnswered
    <3> QED  BY <1>0, <1>2, <3>1, <3>2 DEF RunsAnswered
  <2>9. CancelledForAnotherPush'
    <3> SUFFICES ASSUME NEW k \in DOMAIN runs', runs'[k].state = "cancelling"
                 PROVE  /\ runs'[k].input \in Pushes
                        /\ \E e \in Pushes \ {runs'[k].input} : at'[e] \in {"start", "done"}
      BY DEF CancelledForAnotherPush
    <3>1. k \in DOMAIN runs /\ runs'[k] = runs[k]
      BY <2>1, <2>3, <2>4
    <3> QED  BY <1>0, <1>5, <3>1 DEF CancelledForAnotherPush
  <2>10. BuiltWhenSerial'
    <3> SUFFICES ASSUME serial, NEW e \in Requests, run'[e] # 0
                 PROVE  runs'[run'[e]].input = e
      BY <1>1 DEF BuiltWhenSerial, AcceptedIsBuilt
    <3>1. CASE e = d
      BY <1>4, <1>10, <2>1, <2>3, <3>1
    <3>2. CASE e # d
      <4>1. run'[e] = run[e] /\ run[e] \in DOMAIN runs
        BY <1>4, <1>10, <3>2
      <4> QED  BY <1>0, <2>3, <4>1 DEF BuiltWhenSerial, AcceptedIsBuilt
    <3> QED  BY <3>1, <3>2
  <2> QED  BY <1>7, <1>8, <2>6, <2>7, <2>8, <2>9, <2>10 DEF DispatchInv
<1> QED  BY <1>9, <1>10 DEF Start

LEMMA HandleStep ==
  ASSUME DispatchOK, DispatchInv, NEW d \in Requests, Handle(d)
  PROVE  DispatchInv'
<1>0. /\ TypeOK /\ repo \in {"absent", "default", "custom"}
      /\ at[d] \in {"register", "cancel"} => d \in Pushes
  BY DEF DispatchInv, TypeOK, PushesOnly
<1>1. CASE Lookup(d)
  <2>1. Goto(d, IF repo = "absent" THEN "register" ELSE "cancel")
    BY <1>1 DEF Lookup
  <2>2. CASE repo = "absent"
    BY <1>0, <1>1, <2>1, <2>2, Moves DEF Lookup, Places
  <2>3. CASE repo # "absent"
    BY <1>0, <1>1, <2>1, <2>3, Moves DEF Lookup, Places
  <2> QED  BY <2>2, <2>3
<1>2. CASE AutoRegister(d)
  BY <1>0, <1>2, Moves DEF AutoRegister, Places
<1>3. CASE LookupTrigger(d)
  <2>1. Goto(d, IF repo = "absent" THEN "done" ELSE "start")
    BY <1>3 DEF LookupTrigger
  <2>2. CASE repo = "absent"
    BY <1>0, <1>3, <2>1, <2>2, Moves DEF LookupTrigger, Places
  <2>3. CASE repo # "absent"
    BY <1>0, <1>3, <2>1, <2>3, Moves DEF LookupTrigger, Places
  <2> QED  BY <2>2, <2>3
<1>4. CASE StartFails(d)
  BY <1>0, <1>4, Moves DEF StartFails, Places
<1> QED  BY <1>1, <1>2, <1>3, <1>4, CancelStep, StartStep DEF Handle

LEMMA DispatchStep == DispatchOK /\ DispatchInv /\ [Next]_vars => DispatchInv'
<1> SUFFICES ASSUME DispatchOK, DispatchInv, [Next]_vars
             PROVE  DispatchInv'
  OBVIOUS
<1>0. TypeOK /\ Named /\ PushesOnly /\ RunsAnswered /\ Alone /\ CancelledForAnotherPush /\ BuiltWhenSerial
  BY DEF DispatchInv
\* The operator, the clock or nothing.
<1>1. ASSUME UNCHANGED <<serial, at, runs, run>>, clock' \in 0..Ticks,
             repo' \in {"absent", "default", "custom"},
             repo' = repo \/ MayBegin
      PROVE  DispatchInv'
  <2>1. TypeOK'
    BY <1>0, <1>1 DEF TypeOK
  <2>2. Alone'
    <3>1. CASE repo' = repo
      BY <1>0, <1>1, <3>1 DEF Alone, Under
    <3>2. CASE MayBegin
      BY <1>1, <3>2 DEF Alone, Under, MayBegin, Quiet
    <3> QED  BY <1>1, <3>1, <3>2
  <2>3. Named' /\ PushesOnly' /\ RunsAnswered' /\ CancelledForAnotherPush' /\ BuiltWhenSerial'
    BY <1>0, <1>1
       DEF Named, PushesOnly, RunsAnswered, CancelledForAnotherPush, BuiltWhenSerial, AcceptedIsBuilt
  <2> QED  BY <2>1, <2>2, <2>3 DEF DispatchInv
<1>2. repo \in {"absent", "default", "custom"} /\ clock \in 0..Ticks /\ Ticks \in Nat
  BY <1>0 DEF TypeOK, DispatchOK
<1>3. CASE \E d \in Requests : Handle(d)
  BY <1>3, HandleStep
<1>4. CASE \E k \in DOMAIN runs : RunCloses(k)
  BY <1>4, CloseStep
<1>5. CASE Register
  BY <1>1, <1>2, <1>5 DEF Register
<1>6. CASE Delete
  BY <1>1, <1>2, <1>6 DEF Delete
<1>7. CASE Tick
  BY <1>1, <1>2, <1>7 DEF Tick
<1>8. CASE UNCHANGED vars
  BY <1>1, <1>2, <1>8 DEF vars
<1> QED  BY <1>3, <1>4, <1>5, <1>6, <1>7, <1>8 DEF Next

LEMMA DispatchStart == DispatchOK /\ Init => DispatchInv
<1> SUFFICES ASSUME DispatchOK, Init
             PROVE  DispatchInv
  OBVIOUS
<1>1. runs = <<>> /\ DOMAIN runs = {} /\ Len(runs) = 0
  BY DEF Init
<1>2. TypeOK
  <2>1. clock \in 0..Ticks
    BY DEF Init, DispatchOK
  <2>2. run \in [Requests -> 0..Len(runs)]
    BY <1>1 DEF Init
  <2>3. runs \in Seq([id : {"branch", "at"} \X (0..Ticks), input : Requests,
                      state : {"open", "cancelling", "closed"}])
    BY <1>1
  <2> QED  BY <2>1, <2>2, <2>3 DEF Init, TypeOK
<1>3. Named /\ PushesOnly /\ RunsAnswered /\ Alone /\ CancelledForAnotherPush
  BY <1>1 DEF Init, Named, PushesOnly, RunsAnswered, Alone, Under, CancelledForAnotherPush
<1>4. BuiltWhenSerial
  BY DEF Init, BuiltWhenSerial, AcceptedIsBuilt
<1> QED  BY <1>2, <1>3, <1>4 DEF DispatchInv

LEMMA DispatchHolds == Spec => []DispatchInv
<1>1. DispatchOK
  BY DispatchOK
<1> QED  BY <1>1, DispatchStart, DispatchStep, PTL DEF Spec

----------------------------------------------------------------------------
(* What follows from it *)

\* The state of the dispatch keeps its shape.
THEOREM DispatchTyped == Spec => []TypeOK
<1>1. DispatchInv => TypeOK
  BY DEF DispatchInv
<1> QED  BY <1>1, DispatchHolds, PTL

\* However many deliveries and manual triggers are handled at once, in whatever
\* order they look up, cancel and start: a run is asked to stop only for another
\* push of its branch.
THEOREM CancelledOnlyForPushes == Spec => []CancelledForAnotherPush
<1>1. DispatchInv => CancelledForAnotherPush
  BY DEF DispatchInv
<1> QED  BY <1>1, DispatchHolds, PTL

\* Requests that overlap neither each other nor open runs are answered with a
\* run of their own commit; requests that do are not (a finding).
THEOREM SerialRequestsBuilt == Spec => []BuiltWhenSerial
<1>1. DispatchInv => BuiltWhenSerial
  BY DEF DispatchInv
<1> QED  BY <1>1, DispatchHolds, PTL

\* No step replaces what the operator has registered by the defaults of the
\* automatic registration, when no webhook was under way.
THEOREM RegistrationKept == Spec => KeepsRegistration
<1>1. DispatchInv /\ [Next]_vars => [serial => ~(repo = "custom" /\ repo' = "default")]_vars
  <2> SUFFICES ASSUME DispatchInv, Next, serial, repo = "custom", repo' = "default"
               PROVE  FALSE
    OBVIOUS
  <2>1. PICK d \in Requests : AutoRegister(d)
    BY DEF Next, Handle, Lookup, CancelPrevious, LookupTrigger, Start, StartFails,
           RunCloses, Register, Delete, Tick
  <2>2. at[d] = "register" /\ Under(d)
    BY <2>1 DEF AutoRegister, Under
  <2> QED  BY <2>2 DEF DispatchInv, Alone
<1> QED  BY <1>1, DispatchHolds, PTL DEF Spec, KeepsRegistration
============================================================================
