---------------------------- MODULE LockManager ----------------------------
(***************************************************************************)
(* The LockManager workflow (internal/workflows/lock_manager.go), the      *)
(* AcquireLock / ReleaseLock helpers of the pipeline workflows that use    *)
(* it, and the operator's endpoints of cmd/webhook that signal it.         *)
(*                                                                         *)
(* All communication is by Temporal signals.  Signals to the manager are   *)
(* kept in arrival order in `inbox'; signals to a pipeline are addressed   *)
(* by workflow ID, so they outlive a run of that ID, and are kept in       *)
(* `grants' whether still in flight or already buffered in the run.        *)
(***************************************************************************)
EXTENDS Naturals, SequencesExt, Listing

CONSTANTS
  Clients,     \* workflow IDs of the pipelines that take locks
  Resources,   \* lockable resource names
  Pools,       \* lock pool labels
  PoolDefs,    \* the (label, resources) pairs operators register
  Script,      \* per client, the locks its steps ask for, in step order
  None,        \* the empty string / the absent map key
  Admin,       \* the requester "admin-force-release"
  Budget,      \* how often each kind of fault or outside event may happen
  HistoryLimit \* stands for the 10000 events of history that a run may have

Events == {"timeout", "lose", "terminate", "rerun", "force", "register"}

Want     == [resource : Resources \cup {None}, pool : Pools \cup {None}]
Request  == [requester : Clients \cup {Admin},
             resource : Resources \cup {None}, pool : Pools \cup {None}]
Registration == [label : Pools, resources : Seq(Resources)]
Queued   == [requester : Clients,
             resource : Resources \cup {None}, pool : Pools \cup {None}]
Signal   == [kind : {"acquire"}, req : Queued]
              \cup [kind : {"release"}, req : Request]
              \cup [kind : {"register"}, def : Registration]

ASSUME ConstantsOK ==
  /\ None \notin Clients \cup Resources \cup Pools \cup {Admin}
  /\ Admin \notin Clients
  /\ PoolDefs \subseteq Registration
  /\ Script \in [Clients -> Seq(Want)]
  /\ Budget \in [Events -> Nat]
  /\ HistoryLimit \in Nat

VARIABLES
  locks,    \* resource -> holder, None when the map has no such key
  pools,    \* label -> resources, empty when not registered
  queue,    \* requests that could not be granted
  inbox,    \* signals sent to the manager and not yet handled
  history,  \* length of the run's history, counted in signals handled
  phase,    \* where each client is
  step,     \* the locking step each client is at
  held,     \* the resource AcquireLock returned for the running step
  grants,   \* "lock-acquired" signals sent to each client, not yet received
  budget    \* what is left of Budget

manager == <<locks, pools, queue, history>>
client  == <<phase, step, held>>
vars    == <<locks, pools, queue, inbox, history, phase, step, held, grants, budget>>

Phases == {"ready", "waiting", "running", "closed"}

Init ==
  /\ locks   = [r \in Resources |-> None]
  /\ pools   = [p \in Pools |-> <<>>]
  /\ queue   = <<>>
  /\ inbox   = <<>>
  /\ history = 0
  /\ phase   = [c \in Clients |-> "ready"]
  /\ step    = [c \in Clients |-> 1]
  /\ held    = [c \in Clients |-> None]
  /\ grants  = [c \in Clients |-> <<>>]
  /\ budget  = Budget

----------------------------------------------------------------------------
(* The manager's handlers. *)

Rank(kind) == CASE kind = "acquire" -> 1 [] kind = "release" -> 2 [] OTHER -> 3

\* The selector looks at its channels in the order they were added, and the
\* signals that have reached the run are a prefix of the inbox: a signal is
\* overtaken only by later ones of an earlier channel.
Selectable(i) ==
  /\ i \in DOMAIN inbox
  /\ \A j \in 1..(i - 1) : Rank(inbox[j].kind) > Rank(inbox[i].kind)

\* The first resource of the pool that is free in lk: a set of at most one.
FirstFree(lk, label) ==
  {r \in Resources : \E i \in DOMAIN pools[label] :
     /\ pools[label][i] = r /\ lk[r] = None
     /\ \A j \in 1..(i - 1) : lk[pools[label][j]] # None}

\* Mutant: a named lock is granted without looking whether it is held.
AvailableUnchecked(lk, req) ==
  IF req.pool # None THEN FirstFree(lk, req.pool)
  ELSE {r \in Resources : r = req.resource}

\* What the request gets right away.
Available(lk, req) ==
  IF req.pool # None THEN FirstFree(lk, req.pool)
  ELSE {r \in Resources : r = req.resource /\ lk[r] = None}

Consume(i) ==
  /\ history <= HistoryLimit
  /\ inbox' = RemoveAt(inbox, i)
  /\ history' = history + 1

\* Record the holder and signal "lock-acquired" to it.
GrantFrom(lk, r, c) ==
  /\ locks' = [lk EXCEPT ![r] = c]
  /\ grants' = [grants EXCEPT ![c] = Append(@, r)]

\* Mutant: the newest request is served first.
EnqueueFirst(req) == <<req>> \o queue

Enqueue(req) == Append(queue, req)

HandleAcquire(i) ==
  /\ Selectable(i) /\ inbox[i].kind = "acquire"
  /\ Consume(i)
  /\ LET req == inbox[i].req IN
       \/ /\ \E r \in Available(locks, req) : GrantFrom(locks, r, req.requester)
          /\ UNCHANGED queue
       \/ /\ Available(locks, req) = {}
          /\ queue' = Enqueue(req)
          /\ UNCHANGED <<locks, grants>>
  /\ UNCHANGED <<pools, client, budget>>

\* The resource a release names, or else any one its requester holds.
ReleaseTargets(req) ==
  LET own == {r \in Resources : locks[r] = req.requester}
  IN IF req.resource # None THEN {req.resource}
     ELSE IF own # {} THEN own ELSE {None}

\* Mutant: pool requests are forgotten once queued.
ServedNamedOnly(q, lk, released) ==
  {r \in Resources : q.pool = None /\ r = q.resource /\ r = released}

\* What a queued request gets when `released' has just been freed.
Served(q, lk, released) ==
  IF q.pool # None THEN FirstFree(lk, q.pool)
  ELSE {r \in Resources : r = q.resource /\ r = released}

\* The holder is not compared with the requester; one waiter at most is served.
HandleRelease(i) ==
  /\ Selectable(i) /\ inbox[i].kind = "release"
  /\ Consume(i)
  /\ \E released \in ReleaseTargets(inbox[i].req) :
       LET freed == [r \in Resources |-> IF r = released THEN None ELSE locks[r]] IN
       \/ \E k \in DOMAIN queue :
            /\ \A j \in 1..(k - 1) : Served(queue[j], freed, released) = {}
            /\ \E r \in Served(queue[k], freed, released) :
                 GrantFrom(freed, r, queue[k].requester)
            /\ queue' = RemoveAt(queue, k)
       \/ /\ \A k \in DOMAIN queue : Served(queue[k], freed, released) = {}
          /\ locks' = freed
          /\ UNCHANGED <<queue, grants>>
  /\ UNCHANGED <<pools, client, budget>>

\* Registering a pool does not look at the queue.
HandleRegister(i) ==
  /\ Selectable(i) /\ inbox[i].kind = "register"
  /\ Consume(i)
  /\ pools' = [pools EXCEPT ![inbox[i].def.label] = inbox[i].def.resources]
  /\ UNCHANGED <<locks, queue, grants, client, budget>>

\* The new run is started without arguments: its maps and queue are empty.
\* The signals delivered to the old run and not handled are lost with it.
ContinueAsNew ==
  /\ history > HistoryLimit
  /\ locks' = [r \in Resources |-> None]
  /\ pools' = [p \in Pools |-> <<>>]
  /\ queue' = <<>>
  /\ history' = 0
  /\ \E delivered \in 0..Len(inbox) :
       inbox' = SubSeq(inbox, delivered + 1, Len(inbox))
  /\ UNCHANGED <<client, grants, budget>>

----------------------------------------------------------------------------
(* A pipeline's locking steps. *)

Spend(event) ==
  /\ budget[event] > 0
  /\ budget' = [budget EXCEPT ![event] = @ - 1]

\* The error of SignalExternalWorkflow is dropped, so a signal the manager
\* never gets goes unnoticed.
SendOrLose(signal) ==
  \/ inbox' = Append(inbox, signal) /\ UNCHANGED budget
  \/ Spend("lose") /\ UNCHANGED inbox

HasStep(c) == step[c] <= Len(Script[c])

\* Mutant: the two names swapped.
SwappedRequestOf(c, resource, pool) ==
  [requester |-> c, resource |-> pool, pool |-> resource]

RequestOf(c, resource, pool) ==
  [requester |-> c, resource |-> resource, pool |-> pool]

\* AcquireLock: signal the manager, then wait.
Acquire(c) ==
  /\ phase[c] = "ready" /\ HasStep(c)
  /\ LET want == Script[c][step[c]] IN
       SendOrLose([kind |-> "acquire", req |-> RequestOf(c, want.resource, want.pool)])
  /\ phase' = [phase EXCEPT ![c] = "waiting"]
  /\ UNCHANGED <<manager, step, held, grants>>

\* The first buffered "lock-acquired" signal ends the wait, whatever request
\* of this workflow ID it answers; its resource is the one later released.
Acquired(c) ==
  /\ phase[c] = "waiting" /\ grants[c] # <<>>
  /\ held' = [held EXCEPT ![c] = Head(grants[c])]
  /\ grants' = [grants EXCEPT ![c] = Tail(@)]
  /\ phase' = [phase EXCEPT ![c] = "running"]
  /\ UNCHANGED <<manager, inbox, step, budget>>

\* Mutant: the pipeline releases what it did not get.
TimeoutReleases(c) ==
  /\ phase[c] = "waiting"
  /\ Spend("timeout")
  /\ inbox' = Append(inbox, [kind |-> "release",
                             req |-> RequestOf(c, Script[c][step[c]].resource, None)])
  /\ phase' = [phase EXCEPT ![c] = "ready"]
  /\ step' = [step EXCEPT ![c] = @ + 1]
  /\ UNCHANGED <<manager, held, grants>>

\* The timer fires, or the run is cancelled: the step fails, the loop goes
\* on with the next one and the request stays with the manager.
AcquireTimeout(c) ==
  /\ phase[c] = "waiting"
  /\ Spend("timeout")
  /\ phase' = [phase EXCEPT ![c] = "ready"]
  /\ step' = [step EXCEPT ![c] = @ + 1]
  /\ UNCHANGED <<manager, inbox, held, grants>>

\* Mutant: a path out of the step that does not release.
FinishWithoutRelease(c) ==
  /\ phase[c] = "running"
  /\ held' = [held EXCEPT ![c] = None]
  /\ phase' = [phase EXCEPT ![c] = "ready"]
  /\ step' = [step EXCEPT ![c] = @ + 1]
  /\ UNCHANGED <<manager, inbox, grants, budget>>

\* The step ends, in whatever status, or its role assumption fails.
FinishStep(c) ==
  /\ phase[c] = "running"
  /\ SendOrLose([kind |-> "release", req |-> RequestOf(c, held[c], None)])
  /\ held' = [held EXCEPT ![c] = None]
  /\ phase' = [phase EXCEPT ![c] = "ready"]
  /\ step' = [step EXCEPT ![c] = @ + 1]
  /\ UNCHANGED <<manager, grants>>

\* The run is over; the signals buffered in it are gone, those still in
\* flight are not.
CloseRun(c) ==
  /\ phase' = [phase EXCEPT ![c] = "closed"]
  /\ held' = [held EXCEPT ![c] = None]
  /\ \E buffered \in 0..Len(grants[c]) :
       grants' = [grants EXCEPT ![c] = SubSeq(@, buffered + 1, Len(@))]
  /\ UNCHANGED <<manager, inbox, step>>

Close(c) ==
  /\ phase[c] = "ready" /\ ~HasStep(c)
  /\ CloseRun(c)
  /\ UNCHANGED budget

\* A triggered pipeline is terminated when its parent closes.
Terminate(c) ==
  /\ phase[c] # "closed"
  /\ Spend("terminate")
  /\ CloseRun(c)

\* A later event starts a new run under the same workflow ID.
Rerun(c) ==
  /\ phase[c] = "closed"
  /\ Spend("rerun")
  /\ phase' = [phase EXCEPT ![c] = "ready"]
  /\ step' = [step EXCEPT ![c] = 1]
  /\ UNCHANGED <<manager, inbox, held, grants>>

\* A signal to a closed workflow fails; the manager does not look.
GrantFails(c) ==
  /\ phase[c] = "closed" /\ grants[c] # <<>>
  /\ grants' = [grants EXCEPT ![c] = Tail(@)]
  /\ UNCHANGED <<manager, inbox, client, budget>>

----------------------------------------------------------------------------
(* The operator's endpoints. *)

ForceRelease(r) ==
  /\ Spend("force")
  /\ inbox' = Append(inbox, [kind |-> "release", req |-> RequestOf(Admin, r, None)])
  /\ UNCHANGED <<manager, client, grants>>

RegisterPool(def) ==
  /\ Spend("register")
  /\ inbox' = Append(inbox, [kind |-> "register", def |-> def])
  /\ UNCHANGED <<manager, client, grants>>

----------------------------------------------------------------------------
HandleSignal ==
  \E i \in DOMAIN inbox : HandleAcquire(i) \/ HandleRelease(i) \/ HandleRegister(i)

Pipeline(c) ==
  \/ Acquire(c) \/ Acquired(c) \/ AcquireTimeout(c) \/ FinishStep(c)
  \/ Close(c) \/ Terminate(c) \/ Rerun(c) \/ GrantFails(c)

\* Without the two events that break the manager's bookkeeping.
CoreNext ==
  \/ HandleSignal
  \/ \E c \in Clients : Pipeline(c)
  \/ \E def \in PoolDefs : RegisterPool(def)

Next ==
  \/ CoreNext
  \/ ContinueAsNew
  \/ \E r \in Resources : ForceRelease(r)

Spec     == Init /\ [][Next]_vars
CoreSpec == Init /\ [][CoreNext]_vars

\* Operators register the pools before they enable the pipelines.
PoolsFirst ==
  \A c \in Clients : Acquire(c) => \A def \in PoolDefs : pools[def.label] = def.resources

PooledSpec == Init /\ [][CoreNext /\ PoolsFirst]_vars

\* The worker keeps polling, so the manager handles what it is sent; a
\* pipeline's workflow tasks run and its steps end at their own timeouts.
\* Nothing is assumed of timers, faults and operators.
Progress ==
  /\ WF_vars(HandleSignal)
  /\ \A c \in Clients : WF_vars(Acquire(c) \/ Acquired(c) \/ FinishStep(c) \/ Close(c))

FairSpec     == Spec /\ Progress
FairCoreSpec == CoreSpec /\ Progress

----------------------------------------------------------------------------
(* Properties *)

\* Every variable keeps its shape: the manager's maps and queue hold requests
\* of known workflows, and a client records a resource only while it runs.
TypeOK ==
  /\ locks \in [Resources -> Clients \cup {None}]
  /\ pools \in [Pools -> Seq(Resources)]
  /\ queue \in Seq(Queued)
  /\ inbox \in Seq(Signal)
  /\ history \in Nat
  /\ phase \in [Clients -> Phases]
  /\ step \in [Clients -> Nat \ {0}]
  /\ held \in [Clients -> Resources \cup {None}]
  /\ grants \in [Clients -> Seq(Resources)]
  /\ budget \in [Events -> Nat]

\* Two pipelines never run a step under the same resource at the same time
\* (AcquireLock returned it to both and neither has released it).
MutualExclusion ==
  \A c, d \in Clients : held[c] # None /\ held[c] = held[d] => c = d

\* Every hold of a resource is accounted for exactly once: by the grant on its
\* way to the holder, by the step running under it, or by the release on its
\* way back; nothing else refers to a held or a free resource.
HeldIsRecorded ==
  \A c \in Clients :
    /\ phase[c] = "running" <=> held[c] # None
    /\ held[c] # None => locks[held[c]] = c

GrantIsRecorded ==
  \A c \in Clients : \A i \in DOMAIN grants[c] :
    /\ locks[grants[c][i]] = c
    /\ grants[c][i] # held[c]
    /\ \A j \in DOMAIN grants[c] : grants[c][i] = grants[c][j] => i = j

ReleaseIsOwed ==
  \A i \in DOMAIN inbox : inbox[i].kind = "release" =>
    LET req == inbox[i].req IN
    /\ req.requester \in Clients /\ req.resource \in Resources
    /\ locks[req.resource] = req.requester
    /\ held[req.requester] # req.resource
    /\ \A k \in DOMAIN grants[req.requester] : grants[req.requester][k] # req.resource
    /\ \A j \in DOMAIN inbox :
         inbox[j].kind = "release" /\ inbox[j].req.resource = req.resource => i = j

OneTokenPerLock == HeldIsRecorded /\ GrantIsRecorded /\ ReleaseIsOwed

\* Releasing never takes a lock away from another pipeline: a release the
\* holder did not send changes no holder, unless an operator sent it.
ReleasesOnlyOwnLock ==
  [][\A i \in DOMAIN inbox :
       HandleRelease(i) /\ inbox[i].req.requester # Admin =>
         \A r \in Resources : locks[r] \notin {None, inbox[i].req.requester}
                               => locks'[r] = locks[r]]_vars

\* To its users the manager is a lock service: running a step under a lock is
\* exclusive use of it.
inUse == {<<c, held[c]>> : c \in {d \in Clients : held[d] # None}}

Promise == INSTANCE ExclusiveUse WITH Users <- Clients

IsLockService == Promise!Spec

HoldsWhatItAskedFor ==
  \A c \in Clients : phase[c] = "running" =>
    LET want == Script[c][step[c]] IN
    IF want.pool # None THEN held[c] \in ToSet(pools[want.pool])
    ELSE held[c] = want.resource

NoIdleWaiter ==
  \A k \in DOMAIN queue : Available(locks, queue[k]) = {}

\* Who asks is served, and with what was asked for: no request waits in the
\* queue while the manager could grant it, and a step that runs under a lock
\* has the resource it named, or a member of the pool as registered.
ServedAsAsked == NoIdleWaiter /\ HoldsWhatItAskedFor

\* Named waiters of one resource are served in the order they queued: a step
\* leaves their list alone, appends to it, or takes its head (or a new run of
\* the manager forgets them all).
WaitsFor(q, r) == {k \in DOMAIN q : q[k].pool = None /\ q[k].resource = r}

NamedWaiters(r) == Picked(queue, WaitsFor(queue, r))

InOrder(r) ==
  LET before == NamedWaiters(r)
      after  == NamedWaiters(r)'
  IN \/ after = before
     \/ before # <<>> /\ after = Tail(before)
     \/ after # <<>> /\ before = Front(after)
     \/ queue' = <<>>

ServedInOrder == [][\A r \in Resources : InOrder(r)]_vars

\* A pipeline waiting for a lock gets one.
EveryWaiterServed ==
  \A c \in Clients : phase[c] = "waiting" ~> phase[c] = "running"

\* A lock does not stay with one pipeline forever.
LocksComeBack ==
  \A r \in Resources : \A c \in Clients : locks[r] = c ~> locks[r] # c
============================================================================
