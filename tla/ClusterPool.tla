---------------------------- MODULE ClusterPool ----------------------------
(***************************************************************************)
(* The ClusterPool workflow (internal/workflows/cluster_pool.go) and the   *)
(* HelmTestPipeline workflows that lease clusters from it                  *)
(* (internal/workflows/helmtest.go).                                       *)
(*                                                                         *)
(* The pool leases "an available cluster" by ranging over a Go map, whose  *)
(* order is not the same when the workflow is replayed from its history on *)
(* another worker.  The signals it sent are in the history and are not     *)
(* compared by content, so a replay may end in a state that the run was    *)
(* never in.  `replays' keeps every state the history so far can be        *)
(* replayed to, the present one included.                                  *)
(***************************************************************************)
EXTENDS Naturals, SequencesExt, FiniteSets

CONSTANTS
  Callers,      \* workflow IDs of the helm tests
  DesiredSize,  \* desiredSize, 0 when not given
  MaxSize,      \* maxSize, 0 when not given
  Budget        \* how often each kind of event may happen

Events == {"retry", "age", "fail", "replay"}

Desired == IF DesiredSize = 0 THEN 1 ELSE DesiredSize
Maximum == IF MaxSize = 0 THEN 3 ELSE MaxSize

ASSUME PoolConstantsOK ==
  /\ IsFiniteSet(Callers) /\ Callers \cap Nat = {}
  /\ DesiredSize \in Nat /\ MaxSize \in Nat
  /\ Budget \in [Events -> Nat]

\* A lease handled provisions one cluster at most.
Names == 1..(Desired + Cardinality(Callers) + Budget["retry"])

VARIABLES
  pool,          \* the map: known clusters and the leased ones among them
  replays,       \* the values of `pool' that a replay may compute
  provisioning,  \* clusters being provisioned
  nextID,        \* names used so far
  aged,          \* clusters older than the TTL
  inbox,         \* signals sent to the pool and not yet handled
  sleeping,      \* callers whose request is sent again after a minute
  offers,        \* the lease-result on its way to each caller, 0 for none
  phase,         \* where each caller is
  using,         \* the cluster each caller tests on, 0 for none
  adrift,        \* the cluster its RunHelmTest works on though it was given up
  commit,        \* the status of each caller's commit
  budget         \* what is left of Budget

clusters == <<pool, replays, provisioning, nextID, aged>>
callers  == <<phase, using, adrift, commit>>
vars     == <<clusters, inbox, sleeping, offers, callers, budget>>

Initial == IF Desired < Maximum THEN Desired ELSE Maximum

Init ==
  /\ pool = [known |-> {}, leased |-> {}]
  /\ replays = {pool}
  /\ provisioning = 1..Initial /\ nextID = Initial
  /\ aged = {} /\ inbox = <<>> /\ sleeping = {}
  /\ offers = [c \in Callers |-> 0]
  /\ phase = [c \in Callers |-> "start"]
  /\ using = [c \in Callers |-> 0] /\ adrift = using
  /\ commit = [c \in Callers |-> "none"]
  /\ budget = Budget

Spend(event) ==
  /\ budget[event] > 0
  /\ budget' = [budget EXCEPT ![event] = @ - 1]

----------------------------------------------------------------------------
(* The pool. *)

\* Mutant: leased clusters are not passed over.
AvailableToo(p) == p.known

Available(p) == p.known \ p.leased

\* What handling a lease request may do in state p: grant a cluster, and
\* replenish the pool; or provision one and ask for the request again; or
\* nothing at all.  Clusters being provisioned are not counted.
LeaseOutcomes(p) ==
  IF Available(p) # {} THEN
    {[pool |-> [p EXCEPT !.leased = @ \cup {x}], cluster |-> x,
      provision |-> Cardinality(Available(p)) - 1 < Desired
                      /\ Cardinality(p.known) < Maximum] : x \in Available(p)}
  ELSE {[pool |-> p, cluster |-> 0, provision |-> Cardinality(p.known) < Maximum]}

\* The signals have been delivered up to some point, leases are looked at first.
Selectable(k) ==
  /\ k \in DOMAIN inbox
  /\ \A j \in 1..(k - 1) : inbox[j].kind = "release" /\ inbox[k].kind = "lease"

HandleLease(k) ==
  /\ Selectable(k) /\ inbox[k].kind = "lease"
  /\ inbox' = RemoveAt(inbox, k)
  /\ \E o \in LeaseOutcomes(pool) :
       /\ pool' = o.pool
       /\ replays' = {r.pool : r \in {r \in UNION {LeaseOutcomes(p) : p \in replays} :
                        (r.cluster = 0 <=> o.cluster = 0) /\ r.provision = o.provision}}
       /\ nextID' = IF o.provision THEN nextID + 1 ELSE nextID
       /\ provisioning' = IF o.provision THEN provisioning \cup {nextID + 1} ELSE provisioning
       /\ IF o.cluster # 0
          THEN /\ offers' = [offers EXCEPT ![inbox[k].from] = o.cluster]
               /\ UNCHANGED sleeping
          ELSE /\ sleeping' = IF o.provision THEN sleeping \cup {inbox[k].from} ELSE sleeping
               /\ UNCHANGED offers
  /\ UNCHANGED <<aged, callers, budget>>

\* Mutant: a release is forgotten.
NotReturned(p, name) == p

Returned(p, name) == [p EXCEPT !.leased = @ \ {name}]

HandleRelease(k) ==
  /\ Selectable(k) /\ inbox[k].kind = "release"
  /\ inbox' = RemoveAt(inbox, k)
  /\ pool' = Returned(pool, inbox[k].cluster)
  /\ replays' = {Returned(p, inbox[k].cluster) : p \in replays}
  /\ UNCHANGED <<provisioning, nextID, aged, sleeping, offers, callers, budget>>

\* Mutant: the sleeping coroutine ends and does not signal.
WakeQuietly(c) ==
  /\ c \in sleeping /\ Spend("retry")
  /\ sleeping' = sleeping \ {c}
  /\ UNCHANGED <<clusters, inbox, offers, callers>>

\* The sleeping coroutine signals the pool again.
Wake(c) ==
  /\ c \in sleeping /\ Spend("retry")
  /\ sleeping' = sleeping \ {c}
  /\ inbox' = Append(inbox, [kind |-> "lease", from |-> c, cluster |-> 0])
  /\ UNCHANGED <<clusters, offers, callers>>

Added(p, name) == [p EXCEPT !.known = @ \cup {name}]

Provisioned(name) ==
  /\ name \in provisioning
  /\ provisioning' = provisioning \ {name}
  /\ pool' = Added(pool, name)
  /\ replays' = {Added(p, name) : p \in replays}
  /\ UNCHANGED <<nextID, aged, inbox, sleeping, offers, callers, budget>>

ProvisionFails(name) ==
  /\ name \in provisioning /\ Spend("fail")
  /\ provisioning' = provisioning \ {name}
  /\ UNCHANGED <<pool, replays, nextID, aged, inbox, sleeping, offers, callers>>

Age(name) ==
  /\ name \in pool.known \ aged /\ Spend("age")
  /\ aged' = aged \cup {name}
  /\ UNCHANGED <<pool, replays, provisioning, nextID, inbox, sleeping, offers, callers>>

\* Mutant: the TTL is applied to leased clusters as well.
ExpiredAll(p) == p.known \cap aged

Expired(p) == Available(p) \cap aged

Swept(p) == [p EXCEPT !.known = @ \ Expired(p)]

\* The TTL timer fires; DestroyCluster is not waited for.
Sweep ==
  /\ Expired(pool) # {}
  /\ pool' = Swept(pool)
  /\ replays' = {Swept(p) : p \in {q \in replays :
                   Cardinality(Expired(q)) = Cardinality(Expired(pool))}}
  /\ UNCHANGED <<provisioning, nextID, aged, inbox, sleeping, offers, callers, budget>>

\* The worker dies or drops the workflow from its cache: it is replayed.
Replay ==
  /\ Spend("replay")
  /\ pool' \in replays
  /\ UNCHANGED <<replays, provisioning, nextID, aged, inbox, sleeping, offers, callers>>

----------------------------------------------------------------------------
(* The helm tests. *)

RequestLease(c) ==
  /\ phase[c] = "start"
  /\ phase' = [phase EXCEPT ![c] = "waiting"]
  /\ commit' = [commit EXCEPT ![c] = "pending"]
  /\ inbox' = Append(inbox, [kind |-> "lease", from |-> c, cluster |-> 0])
  /\ UNCHANGED <<clusters, sleeping, offers, using, adrift, budget>>

LeaseArrives(c) ==
  /\ phase[c] = "waiting" /\ offers[c] # 0
  /\ phase' = [phase EXCEPT ![c] = "testing"]
  /\ using' = [using EXCEPT ![c] = offers[c]]
  /\ offers' = [offers EXCEPT ![c] = 0]
  /\ UNCHANGED <<clusters, inbox, sleeping, adrift, commit, budget>>

\* The timer fires or the run is cancelled; the request stays with the pool
\* and nothing is reported.
LeaseTimeout(c) ==
  /\ phase[c] = "waiting"
  /\ phase' = [phase EXCEPT ![c] = "closed"]
  /\ UNCHANGED <<clusters, inbox, sleeping, offers, using, adrift, commit, budget>>

\* The deferred release, on a disconnected context.
Exit(c) ==
  /\ inbox' = Append(inbox, [kind |-> "release", from |-> c, cluster |-> using[c]])
  /\ using' = [using EXCEPT ![c] = 0]
  /\ phase' = [phase EXCEPT ![c] = "closed"]
  /\ UNCHANGED <<clusters, sleeping, offers, budget>>

\* Before the clone is there nothing works on the cluster.
CloneFails(c) ==
  /\ phase[c] = "testing"
  /\ Exit(c)
  /\ UNCHANGED <<adrift, commit>>

\* RunHelmTest answers: it is done with the cluster.
TestEnds(c) ==
  /\ phase[c] = "testing"
  /\ Exit(c)
  /\ \E state \in {"success", "failure"} : commit' = [commit EXCEPT ![c] = state]
  /\ UNCHANGED adrift

\* The run is cancelled, or the activity's timeout passes.  RunHelmTest sends no
\* heartbeat and does not hear of it; the release goes out all the same.
TestGivenUp(c) ==
  /\ phase[c] = "testing"
  /\ Exit(c)
  /\ adrift' = [adrift EXCEPT ![c] = using[c]]
  /\ commit' = [commit EXCEPT ![c] = "failure"]

\* The helm test that nobody waits for ends, some time.
HelmStops(c) ==
  /\ adrift[c] # 0
  /\ adrift' = [adrift EXCEPT ![c] = 0]
  /\ UNCHANGED <<clusters, inbox, sleeping, offers, phase, using, commit, budget>>

\* A lease-result for a workflow that is over.
OfferLost(c) ==
  /\ phase[c] = "closed" /\ offers[c] # 0
  /\ offers' = [offers EXCEPT ![c] = 0]
  /\ UNCHANGED <<clusters, inbox, sleeping, callers, budget>>

----------------------------------------------------------------------------
HandleSignal == \E k \in DOMAIN inbox : HandleLease(k) \/ HandleRelease(k)

Clusters ==
  \/ HandleSignal \/ Sweep
  \/ \E c \in Callers : Wake(c)
  \/ \E name \in Names : Provisioned(name) \/ ProvisionFails(name) \/ Age(name)

HelmTest(c) ==
  \/ RequestLease(c) \/ LeaseArrives(c) \/ LeaseTimeout(c)
  \/ CloneFails(c) \/ TestEnds(c) \/ TestGivenUp(c) \/ HelmStops(c)
  \/ OfferLost(c)

\* Without replays.
CoreNext == Clusters \/ \E c \in Callers : HelmTest(c)

Next == CoreNext \/ Replay

Spec     == Init /\ [][Next]_vars
CoreSpec == Init /\ [][CoreNext]_vars

\* The pool handles its signals and its coroutines run, activities end by
\* their timeouts, and so do the waits of a helm test; nothing is assumed of
\* the timer of a lease.
Progress ==
  /\ WF_vars(HandleSignal)
  /\ \A c \in Callers :
       /\ WF_vars(Wake(c))
       /\ WF_vars(RequestLease(c) \/ LeaseArrives(c)
                   \/ CloneFails(c) \/ TestEnds(c) \/ TestGivenUp(c))
  /\ \A name \in Names : WF_vars(Provisioned(name) \/ ProvisionFails(name))

FairCoreSpec == CoreSpec /\ Progress

----------------------------------------------------------------------------
(* Properties *)

PoolStates ==
  {p \in [known : SUBSET Names, leased : SUBSET Names] : p.leased \subseteq p.known}

\* Every variable keeps its shape.
TypeOK ==
  /\ pool \in PoolStates /\ pool \in replays /\ replays \subseteq PoolStates
  /\ provisioning \subseteq Names /\ nextID \in Names /\ aged \subseteq Names
  /\ inbox \in Seq([kind : {"lease", "release"}, from : Callers, cluster : Names \cup {0}])
  /\ sleeping \subseteq Callers
  /\ offers \in [Callers -> Names \cup {0}]
  /\ phase \in [Callers -> {"start", "waiting", "testing", "closed"}]
  /\ using \in [Callers -> Names \cup {0}] /\ adrift \in [Callers -> Names \cup {0}]
  /\ commit \in [Callers -> {"none", "pending", "success", "failure"}]
  /\ budget \in [Events -> Nat]

\* Clusters that a test given up still works on.
Strays == {adrift[c] : c \in Callers} \ {0}

\* A cluster is used by one helm test at a time.  Only a test that was given up
\* may work on beside another; until it stops, nobody is said to have the cluster.
inUse == {<<c, using[c]>> : c \in {d \in Callers : using[d] # 0 /\ using[d] \notin Strays}}

Promise == INSTANCE ExclusiveUse WITH Users <- Callers, Resources <- Names

IsLeaseService == Promise!Spec

ExclusiveLease ==
  \A c, d \in Callers : using[c] # 0 /\ using[c] = using[d] => c = d

NotDestroyedInUse ==
  \A c \in Callers : {using[c], offers[c]} \subseteq pool.known \cup {0}

\* The request of a test that waits for a cluster is not forgotten: it is on
\* its way to the pool, kept by it, or answered.
RequestKept ==
  \A c \in Callers : phase[c] = "waiting" =>
    \/ \E k \in DOMAIN inbox : inbox[k].kind = "lease" /\ inbox[k].from = c
    \/ c \in sleeping
    \/ offers[c] # 0

\* A test keeps its place, through expiry and failed provisioning: the cluster
\* it works on, or is about to, is not destroyed under it; and where the pool may
\* have a cluster for every test, no request for one is dropped.
PlacesKept ==
  NotDestroyedInUse /\ (Cardinality(Callers) <= Maximum => RequestKept)

\* The cluster of a test that got one comes back to the pool, however the
\* test ends.
TestsGiveBack ==
  \A c \in Callers : \A x \in Names :
    using[c] = x ~> x \notin pool.leased

----------------------------------------------------------------------------
(* Statements of the documents and comments that the code does not meet; *)
(* the README says how to see it.                                        *)

\* A leased cluster comes back to the pool.
ClustersComeBack == \A x \in Names : x \in pool.leased ~> x \notin pool.leased

\* No request is dropped (RequestKept), in a pool of any size; and the pool
\* never knows more clusters than its maximum.
WithinMaximum == Cardinality(pool.known) <= Maximum

\* A cluster that comes back is free: nothing works on the cluster of a test.
OneTestPerCluster == \A c \in Callers : using[c] \notin Strays
============================================================================
