------------------------- MODULE ClusterPoolProofs -------------------------
(***************************************************************************)
(* Proofs about ClusterPool, for any helm tests, any sizes of the pool and *)
(* any number of retries, expiries, failures and replays.                  *)
(***************************************************************************)
EXTENDS ClusterPool, FiniteSetTheorems, TLAPS

Signal == [kind : {"lease", "release"}, from : Callers, cluster : Names \cup {0}]

----------------------------------------------------------------------------
(* The inductive invariants *)

Asking    == {c \in Callers : \E k \in DOMAIN inbox : inbox[k].kind = "lease" /\ inbox[k].from = c}
Returning == {x \in Names \cup {0} :
                \E k \in DOMAIN inbox : inbox[k].kind = "release" /\ inbox[k].cluster = x}

\* A caller has one request, from its start to the answer.
OneRequest ==
  \A i, j \in DOMAIN inbox :
    inbox[i].kind = "lease" /\ inbox[j].kind = "lease" /\ inbox[i].from = inbox[j].from => i = j

Starting == {c \in Callers : phase[c] = "start"}

RequestsApart ==
  /\ OneRequest
  /\ Asking \cap Starting = {} /\ Asking \cap sleeping = {} /\ sleeping \cap Starting = {}

\* There is a name for every cluster that the requests to come, first ones and
\* repeated ones, may provision.
NamesSuffice ==
  /\ nextID >= 1
  /\ nextID + Cardinality(Starting \cup Asking) + budget["retry"]
       <= Desired + Cardinality(Callers) + Budget["retry"]

RequestInv == TypeOK /\ RequestsApart /\ NamesSuffice

\* A leased cluster is in one place: offered, used or on its way back.  What
\* is offered, used or on its way back is leased.
OneReturn ==
  \A i, j \in DOMAIN inbox :
    inbox[i].kind = "release" /\ inbox[j].kind = "release" /\ inbox[i].cluster = inbox[j].cluster
      => i = j

LeasesApart ==
  /\ OneReturn
  /\ Returning \subseteq pool.leased
  /\ \A c \in Callers :
       /\ using[c] # 0 => using[c] \in pool.leased \ Returning
       /\ offers[c] # 0 => offers[c] \in pool.leased \ Returning
       /\ using[c] # 0 <=> phase[c] = "testing"
  /\ \A c, d \in Callers :
       /\ using[c] # 0 /\ using[c] = using[d] => c = d
       /\ offers[c] # 0 /\ offers[c] = offers[d] => c = d
       /\ using[c] # 0 => using[c] # offers[d]

\* A cluster is leased for a request that was answered.
Unanswered == Starting \cup Asking \cup sleeping

LeasesAnswer == Cardinality(pool.leased) + Cardinality(Unanswered) <= Cardinality(Callers)

\* How a test leaves its cluster.
Leaves(c) == CloneFails(c) \/ TestEnds(c) \/ TestGivenUp(c)

\* Only a test that is over has a helm test that nobody waits for.
StraysClosed == \A c \in Callers : adrift[c] # 0 => phase[c] = "closed"

\* At most such a helm test ends.
Still == UNCHANGED <<clusters, inbox, sleeping, offers, phase, using, commit, budget>>

LeaseInv ==
  RequestInv /\ LeasesApart /\ LeasesAnswer /\ (Cardinality(Callers) <= Maximum => RequestKept)

----------------------------------------------------------------------------
(* Sequences: what a signal sent or handled does to the inbox *)

LEMMA ConcatElements ==
  ASSUME NEW S, NEW s \in Seq(S), NEW t \in Seq(S)
  PROVE  /\ s \o t \in Seq(S) /\ Len(s \o t) = Len(s) + Len(t)
         /\ \A j \in 1..(Len(s) + Len(t)) : (s \o t)[j] = IF j <= Len(s) THEN s[j] ELSE t[j - Len(s)]
OBVIOUS

\* Removing an element keeps the others, in order.
LEMMA RemoveAtElements ==
  ASSUME NEW S, NEW s \in Seq(S), NEW i \in DOMAIN s
  PROVE  /\ RemoveAt(s, i) \in Seq(S)
         /\ Len(RemoveAt(s, i)) = Len(s) - 1
         /\ \A j \in 1..(Len(s) - 1) :
              RemoveAt(s, i)[j] = IF j < i THEN s[j] ELSE s[j + 1]
<1> DEFINE front == SubSeq(s, 1, i - 1)
           back  == SubSeq(s, i + 1, Len(s))
<1>1. /\ i \in 1..Len(s) /\ Len(s) \in Nat
  OBVIOUS
<1>2. /\ front \in Seq(S) /\ Len(front) = i - 1
      /\ \A j \in 1..(i - 1) : front[j] = s[j]
  BY <1>1
<1>3. /\ back \in Seq(S) /\ Len(back) = Len(s) - i
      /\ \A j \in 1..(Len(s) - i) : back[j] = s[i + j]
  BY <1>1
<1> HIDE DEF front, back
<1>4. /\ front \o back \in Seq(S) /\ Len(front \o back) = Len(s) - 1
      /\ \A j \in 1..(Len(s) - 1) :
           (front \o back)[j] = IF j <= i - 1 THEN front[j] ELSE back[j - (i - 1)]
  <2>1. front \o back \in Seq(S) /\ Len(front \o back) = (i - 1) + (Len(s) - i)
    BY <1>2, <1>3, ConcatElements
  <2>2. \A j \in 1..((i - 1) + (Len(s) - i)) :
          (front \o back)[j] = IF j <= i - 1 THEN front[j] ELSE back[j - (i - 1)]
    BY <1>2, <1>3, ConcatElements
  <2>3. (i - 1) + (Len(s) - i) = Len(s) - 1
    BY <1>1
  <2> QED  BY <2>1, <2>2, <2>3
<1>5. \A j \in 1..(Len(s) - 1) : (front \o back)[j] = IF j < i THEN s[j] ELSE s[j + 1]
  <2> TAKE j \in 1..(Len(s) - 1)
  <2>1. CASE j < i
    BY <2>1, <1>1, <1>2, <1>4
  <2>2. CASE ~(j < i)
    <3>1. j - (i - 1) \in 1..(Len(s) - i) /\ i + (j - (i - 1)) = j + 1
      BY <2>2, <1>1
    <3>2. back[j - (i - 1)] = s[j + 1]
      BY <3>1, <1>3
    <3> QED  BY <2>2, <3>2, <1>1, <1>4
  <2> QED  BY <2>1, <2>2
<1>6. RemoveAt(s, i) = front \o back
  BY DEF RemoveAt, front, back
<1> QED  BY <1>4, <1>5, <1>6

\* The signals left are the ones that were not handled.
LEMMA RestOfInbox ==
  ASSUME inbox \in Seq(Signal), NEW k \in DOMAIN inbox, inbox' = RemoveAt(inbox, k)
  PROVE  /\ inbox' \in Seq(Signal)
         /\ \A j \in DOMAIN inbox' : \E i \in DOMAIN inbox \ {k} : inbox'[j] = inbox[i]
         /\ \A i \in DOMAIN inbox \ {k} : \E j \in DOMAIN inbox' : inbox'[j] = inbox[i]
         /\ \A h, j \in DOMAIN inbox' : h # j =>
              \E g, i \in DOMAIN inbox : g # i /\ inbox'[h] = inbox[g] /\ inbox'[j] = inbox[i]
<1>1. /\ inbox' \in Seq(Signal) /\ Len(inbox') = Len(inbox) - 1
      /\ \A j \in 1..(Len(inbox) - 1) :
           inbox'[j] = IF j < k THEN inbox[j] ELSE inbox[j + 1]
  BY RemoveAtElements
<1>2. /\ DOMAIN inbox = 1..Len(inbox) /\ Len(inbox) \in Nat /\ k \in 1..Len(inbox)
      /\ DOMAIN inbox' = 1..(Len(inbox) - 1)
  BY <1>1
<1> DEFINE old(j) == IF j < k THEN j ELSE j + 1
<1>3. \A j \in DOMAIN inbox' : old(j) \in DOMAIN inbox \ {k} /\ inbox'[j] = inbox[old(j)]
  BY <1>1, <1>2
<1>4. \A h, j \in DOMAIN inbox' : h # j => old(h) # old(j)
  BY <1>2
<1>5. \A i \in DOMAIN inbox \ {k} : \E j \in DOMAIN inbox' : old(j) = i
  <2> SUFFICES ASSUME NEW i \in DOMAIN inbox \ {k}
               PROVE  \E j \in DOMAIN inbox' : old(j) = i
    OBVIOUS
  <2>1. CASE i < k
    BY <1>2, <2>1
  <2>2. CASE i > k
    <3>1. i - 1 \in DOMAIN inbox' /\ old(i - 1) = i
      BY <1>2, <2>2
    <3> QED  BY <3>1
  <2> QED  BY <1>2, <2>1, <2>2
<1> HIDE DEF old
<1> QED  BY <1>1, <1>3, <1>4, <1>5

\* So what the signals of a kind are unique in stays unique.
LEMMA StillOne ==
  ASSUME inbox \in Seq(Signal), NEW k \in DOMAIN inbox, inbox' = RemoveAt(inbox, k)
  PROVE  (OneReturn => OneReturn') /\ (OneRequest => OneRequest')
<1>1. \A h, j \in DOMAIN inbox' : h # j =>
        \E g, i \in DOMAIN inbox : g # i /\ inbox'[h] = inbox[g] /\ inbox'[j] = inbox[i]
  BY RestOfInbox
<1>2. ASSUME OneReturn, NEW h \in DOMAIN inbox', NEW j \in DOMAIN inbox', h # j
      PROVE  ~(/\ inbox'[h].kind = "release" /\ inbox'[j].kind = "release"
               /\ inbox'[h].cluster = inbox'[j].cluster)
  <2>1. PICK g \in DOMAIN inbox, i \in DOMAIN inbox :
          g # i /\ inbox'[h] = inbox[g] /\ inbox'[j] = inbox[i]
    BY <1>1, <1>2, Zenon
  <2> QED  BY <1>2, <2>1 DEF OneReturn
<1>3. ASSUME OneRequest, NEW h \in DOMAIN inbox', NEW j \in DOMAIN inbox', h # j
      PROVE  ~(/\ inbox'[h].kind = "lease" /\ inbox'[j].kind = "lease"
               /\ inbox'[h].from = inbox'[j].from)
  <2>1. PICK g \in DOMAIN inbox, i \in DOMAIN inbox :
          g # i /\ inbox'[h] = inbox[g] /\ inbox'[j] = inbox[i]
    BY <1>1, <1>3, Zenon
  <2> QED  BY <1>3, <2>1 DEF OneRequest
<1>4. OneReturn => OneReturn'
  BY <1>2, Zenon DEF OneReturn
<1> QED  BY <1>3, <1>4, Zenon DEF OneRequest

LEMMA MoreInInbox ==
  ASSUME inbox \in Seq(Signal), NEW s \in Signal, inbox' = Append(inbox, s)
  PROVE  /\ inbox' \in Seq(Signal)
         /\ \A i \in DOMAIN inbox : i \in DOMAIN inbox' /\ inbox'[i] = inbox[i]
         /\ \E j \in DOMAIN inbox' : inbox'[j] = s /\ \A i \in DOMAIN inbox' : i = j \/ i \in DOMAIN inbox
<1>1. Append(inbox, s) \in Seq(Signal)
  OBVIOUS
<1>2. /\ DOMAIN inbox = 1..Len(inbox) /\ Len(inbox) \in Nat
      /\ DOMAIN inbox' = 1..(Len(inbox) + 1)
      /\ \A i \in 1..Len(inbox) : inbox'[i] = inbox[i]
      /\ inbox'[Len(inbox) + 1] = s
  BY <1>1
<1>3. /\ Len(inbox) + 1 \in DOMAIN inbox' /\ inbox'[Len(inbox) + 1] = s
      /\ \A i \in DOMAIN inbox' : i = Len(inbox) + 1 \/ i \in DOMAIN inbox
  BY <1>2
<1> QED  BY <1>1, <1>2, <1>3

LEMMA LeaseTaken ==
  ASSUME inbox \in Seq(Signal), NEW k \in DOMAIN inbox, inbox' = RemoveAt(inbox, k),
         inbox[k].kind = "lease"
  PROVE  /\ inbox' \in Seq(Signal) /\ inbox[k].from \in Asking
         /\ Returning' = Returning /\ (OneReturn => OneReturn')
         /\ OneRequest => OneRequest' /\ Asking' = Asking \ {inbox[k].from}
<1>0. inbox[k] \in Signal
  OBVIOUS
<1>1. inbox[k].from \in Asking
  BY <1>0 DEF Asking, Signal
<1>2. Returning' = Returning
  <2> SUFFICES ASSUME NEW y
               PROVE  y \in Returning' <=> y \in Returning
    OBVIOUS
  <2>1. ASSUME y \in Returning' PROVE y \in Returning
    BY <2>1, RestOfInbox DEF Returning
  <2>2. ASSUME y \in Returning PROVE y \in Returning'
    <3>1. PICK i \in DOMAIN inbox : inbox[i].kind = "release" /\ inbox[i].cluster = y
      BY <2>2 DEF Returning
    <3>2. PICK j \in DOMAIN inbox' : inbox'[j] = inbox[i]
      BY <3>1, RestOfInbox
    <3> QED  BY <2>2, <3>1, <3>2 DEF Returning
  <2> QED  BY <2>1, <2>2
<1>3. OneReturn => OneReturn'
  BY StillOne
<1>4. OneRequest => OneRequest'
  BY StillOne
<1>5. OneRequest => Asking' = Asking \ {inbox[k].from}
  <2> SUFFICES ASSUME OneRequest, NEW c \in Callers
               PROVE  c \in Asking' <=> c \in Asking /\ c # inbox[k].from
    BY DEF Asking
  <2>1. ASSUME c \in Asking' PROVE c \in Asking /\ c # inbox[k].from
    BY <2>1, RestOfInbox DEF Asking, OneRequest
  <2>2. ASSUME c \in Asking, c # inbox[k].from PROVE c \in Asking'
    BY <2>2, RestOfInbox DEF Asking
  <2> QED  BY <2>1, <2>2
<1> QED  BY <1>1, <1>2, <1>3, <1>4, <1>5, RestOfInbox

LEMMA ReleaseTaken ==
  ASSUME inbox \in Seq(Signal), NEW k \in DOMAIN inbox, inbox' = RemoveAt(inbox, k),
         inbox[k].kind = "release"
  PROVE  /\ inbox' \in Seq(Signal) /\ inbox[k].cluster \in Returning
         /\ Asking' = Asking /\ (OneRequest => OneRequest')
         /\ OneReturn => OneReturn' /\ Returning' = Returning \ {inbox[k].cluster}
<1>0. inbox[k] \in Signal
  OBVIOUS
<1>1. inbox[k].cluster \in Returning
  BY <1>0 DEF Returning, Signal
<1>2. Asking' = Asking
  <2> SUFFICES ASSUME NEW y
               PROVE  y \in Asking' <=> y \in Asking
    OBVIOUS
  <2>1. ASSUME y \in Asking' PROVE y \in Asking
    BY <2>1, RestOfInbox DEF Asking
  <2>2. ASSUME y \in Asking PROVE y \in Asking'
    <3>1. PICK i \in DOMAIN inbox : inbox[i].kind = "lease" /\ inbox[i].from = y
      BY <2>2 DEF Asking
    <3>2. PICK j \in DOMAIN inbox' : inbox'[j] = inbox[i]
      BY <3>1, RestOfInbox
    <3> QED  BY <2>2, <3>1, <3>2 DEF Asking
  <2> QED  BY <2>1, <2>2
<1>3. OneReturn => OneReturn'
  BY StillOne
<1>4. OneRequest => OneRequest'
  BY StillOne
<1>5. OneReturn => Returning' = Returning \ {inbox[k].cluster}
  <2> SUFFICES ASSUME OneReturn, NEW x \in Names \cup {0}
               PROVE  x \in Returning' <=> x \in Returning /\ x # inbox[k].cluster
    BY DEF Returning
  <2>1. ASSUME x \in Returning' PROVE x \in Returning /\ x # inbox[k].cluster
    BY <2>1, RestOfInbox DEF Returning, OneReturn
  <2>2. ASSUME x \in Returning, x # inbox[k].cluster PROVE x \in Returning'
    BY <2>2, RestOfInbox DEF Returning
  <2> QED  BY <2>1, <2>2
<1> QED  BY <1>1, <1>2, <1>3, <1>4, <1>5, RestOfInbox

LEMMA LeaseSent ==
  ASSUME inbox \in Seq(Signal), NEW c \in Callers,
         inbox' = Append(inbox, [kind |-> "lease", from |-> c, cluster |-> 0])
  PROVE  /\ inbox' \in Seq(Signal)
         /\ Returning' = Returning /\ (OneReturn => OneReturn')
         /\ Asking' = Asking \cup {c} /\ (OneRequest /\ c \notin Asking => OneRequest')
<1> DEFINE s == [kind |-> "lease", from |-> c, cluster |-> 0]
<1>1. s \in Signal /\ s.kind = "lease" /\ s.from = c
  BY DEF Signal
<1>2. inbox' = Append(inbox, s)
  OBVIOUS
<1> HIDE DEF s
<1>3. Returning' = Returning /\ (OneReturn => OneReturn')
  BY <1>1, <1>2, MoreInInbox DEF Returning, OneReturn
<1>4. Asking' = Asking \cup {c}
  BY <1>1, <1>2, MoreInInbox DEF Asking
<1>5. OneRequest /\ c \notin Asking => OneRequest'
  BY <1>1, <1>2, MoreInInbox DEF Asking, OneRequest
<1> QED  BY <1>1, <1>2, <1>3, <1>4, <1>5, MoreInInbox

LEMMA ReleaseSent ==
  ASSUME inbox \in Seq(Signal), NEW c \in Callers, NEW x \in Names,
         inbox' = Append(inbox, [kind |-> "release", from |-> c, cluster |-> x])
  PROVE  /\ inbox' \in Seq(Signal)
         /\ Asking' = Asking /\ (OneRequest => OneRequest')
         /\ Returning' = Returning \cup {x} /\ (OneReturn /\ x \notin Returning => OneReturn')
<1> DEFINE s == [kind |-> "release", from |-> c, cluster |-> x]
<1>1. s \in Signal /\ s.kind = "release" /\ s.cluster = x
  BY DEF Signal
<1>2. inbox' = Append(inbox, s)
  OBVIOUS
<1> HIDE DEF s
<1>3. Asking' = Asking /\ (OneRequest => OneRequest')
  BY <1>1, <1>2, MoreInInbox DEF Asking, OneRequest
<1>4. Returning' = Returning \cup {x}
  BY <1>1, <1>2, MoreInInbox DEF Returning
<1>5. OneReturn /\ x \notin Returning => OneReturn'
  BY <1>1, <1>2, MoreInInbox DEF Returning, OneReturn
<1> QED  BY <1>1, <1>2, <1>3, <1>4, <1>5, MoreInInbox

----------------------------------------------------------------------------
(* Types *)

LEMMA ConstantTypes ==
  ASSUME PoolConstantsOK
  PROVE  /\ Desired \in Nat \ {0} /\ Maximum \in Nat \ {0}
         /\ Cardinality(Callers) \in Nat /\ Budget["retry"] \in Nat
         /\ Names = 1..(Desired + Cardinality(Callers) + Budget["retry"])
<1>1. Desired \in Nat \ {0} /\ Maximum \in Nat \ {0}
  BY DEF PoolConstantsOK, Desired, Maximum
<1>2. Cardinality(Callers) \in Nat
  BY FS_CardinalityType DEF PoolConstantsOK
<1>3. Budget["retry"] \in Nat
  BY DEF PoolConstantsOK, Events
<1> QED  BY <1>1, <1>2, <1>3 DEF Names

\* Adding to or taking from a set of callers changes its size by one.
LEMMA SizeOfCallers ==
  ASSUME PoolConstantsOK, NEW S \in SUBSET Callers
  PROVE  /\ IsFiniteSet(S) /\ Cardinality(S) \in Nat /\ Cardinality(S) <= Cardinality(Callers)
         /\ \A c \in S : Cardinality(S \ {c}) = Cardinality(S) - 1 /\ Cardinality(S) >= 1
         /\ \A c \in Callers \ S : Cardinality(S \cup {c}) = Cardinality(S) + 1
<1>1. IsFiniteSet(S) /\ Cardinality(S) <= Cardinality(Callers)
  BY FS_Subset DEF PoolConstantsOK
<1>2. Cardinality(S) \in Nat
  BY <1>1, FS_CardinalityType
<1>3. \A c \in S : Cardinality(S \ {c}) = Cardinality(S) - 1 /\ Cardinality(S) >= 1
  <2> TAKE c \in S
  <2>1. Cardinality(S \ {c}) = Cardinality(S) - 1 /\ IsFiniteSet(S \ {c})
    BY <1>1, FS_RemoveElement
  <2>2. Cardinality(S \ {c}) \in Nat
    BY <2>1, FS_CardinalityType
  <2> QED  BY <1>2, <2>1, <2>2
<1>4. \A c \in Callers \ S : Cardinality(S \cup {c}) = Cardinality(S) + 1
  BY <1>1, FS_AddElement
<1> QED  BY <1>1, <1>2, <1>3, <1>4

LEMMA NewNameFits ==
  ASSUME PoolConstantsOK, RequestInv, Asking # {}
  PROVE  nextID + 1 \in Names
<1>1. Cardinality(Starting \cup Asking) \in Nat /\ Cardinality(Starting \cup Asking) >= 1
  BY SizeOfCallers DEF Starting, Asking
<1>2. nextID \in Nat /\ budget["retry"] \in Nat
  BY DEF RequestInv, TypeOK, Names, Events
<1> QED  BY <1>1, <1>2, ConstantTypes DEF RequestInv, NamesSuffice

LEMMA OutcomeTypes ==
  ASSUME NEW p \in PoolStates, NEW o \in LeaseOutcomes(p)
  PROVE  /\ o.pool \in PoolStates /\ o.cluster \in Names \cup {0} /\ o.provision \in BOOLEAN
         /\ o.pool.known = p.known
<1>1. CASE Available(p) # {}
  <2>1. PICK x \in Available(p) :
          o = [pool |-> [p EXCEPT !.leased = @ \cup {x}], cluster |-> x,
               provision |-> Cardinality(Available(p)) - 1 < Desired
                               /\ Cardinality(p.known) < Maximum]
    BY <1>1 DEF LeaseOutcomes
  <2>2. x \in p.known /\ x \in Names
    BY DEF Available, PoolStates
  <2>3. [p EXCEPT !.leased = @ \cup {x}] \in PoolStates
    BY <2>2 DEF PoolStates
  <2>4. [p EXCEPT !.leased = @ \cup {x}].known = p.known
    BY DEF PoolStates
  <2>5. o.pool = [p EXCEPT !.leased = @ \cup {x}] /\ o.cluster = x /\ o.provision \in BOOLEAN
    BY <2>1
  <2> QED  BY <2>2, <2>3, <2>4, <2>5
<1>2. CASE Available(p) = {}
  <2>1. o = [pool |-> p, cluster |-> 0, provision |-> Cardinality(p.known) < Maximum]
    BY <1>2 DEF LeaseOutcomes
  <2> QED  BY <2>1
<1> QED  BY <1>1, <1>2

LEMMA SpendTypes ==
  ASSUME TypeOK, NEW event \in Events, Spend(event)
  PROVE  /\ budget' \in [Events -> Nat]
         /\ event # "retry" => budget'["retry"] = budget["retry"]
         /\ event = "retry" => budget'["retry"] = budget["retry"] - 1
<1>1. budget[event] \in Nat /\ budget[event] > 0
  BY DEF TypeOK, Spend
<1>2. budget[event] - 1 \in Nat
  BY <1>1
<1> QED  BY <1>2 DEF TypeOK, Spend, Events

LEMMA InboxTypes ==
  ASSUME TypeOK
  PROVE  inbox \in Seq(Signal) /\ \A k \in DOMAIN inbox : inbox[k] \in Signal
<1>1. inbox \in Seq(Signal)
  BY DEF TypeOK, Signal
<1>2. \A k \in DOMAIN inbox : inbox[k] \in Signal
  BY <1>1
<1> QED  BY <1>1, <1>2

LEMMA CallerTypes ==
  ASSUME TypeOK, NEW c \in Callers
  PROVE  /\ \A p \in {"start", "waiting", "testing", "closed"} :
              [phase EXCEPT ![c] = p] \in [Callers -> {"start", "waiting", "testing", "closed"}]
         /\ \A x \in Names \cup {0} :
              /\ [using EXCEPT ![c] = x] \in [Callers -> Names \cup {0}]
              /\ [adrift EXCEPT ![c] = x] \in [Callers -> Names \cup {0}]
              /\ [offers EXCEPT ![c] = x] \in [Callers -> Names \cup {0}]
         /\ \A s \in {"none", "pending", "success", "failure"} :
              [commit EXCEPT ![c] = s] \in [Callers -> {"none", "pending", "success", "failure"}]
BY DEF TypeOK

LEMMA TypeStep == PoolConstantsOK /\ RequestInv /\ [Next]_vars => TypeOK'
<1> SUFFICES ASSUME PoolConstantsOK, RequestInv, [Next]_vars
             PROVE  TypeOK'
  OBVIOUS
<1>0. TypeOK /\ inbox \in Seq(Signal)
  BY InboxTypes DEF RequestInv
<1>01. Seq(Signal) = Seq([kind : {"lease", "release"}, from : Callers, cluster : Names \cup {0}])
  BY DEF Signal
<1>1. ASSUME NEW k \in DOMAIN inbox, HandleLease(k)
      PROVE  TypeOK'
  <2>1. inbox' \in Seq(Signal) /\ inbox[k].from \in Asking
    BY <1>0, <1>1, LeaseTaken DEF HandleLease
  <2>2. inbox[k].from \in Callers
    BY <2>1 DEF Asking
  <2>3. nextID + 1 \in Names
    BY <2>1, NewNameFits
  <2>4. PICK o \in LeaseOutcomes(pool) :
       /\ pool' = o.pool
       /\ replays' = {r.pool : r \in {r \in UNION {LeaseOutcomes(p) : p \in replays} :
                        (r.cluster = 0 <=> o.cluster = 0) /\ r.provision = o.provision}}
       /\ nextID' = IF o.provision THEN nextID + 1 ELSE nextID
       /\ provisioning' = IF o.provision THEN provisioning \cup {nextID + 1} ELSE provisioning
       /\ IF o.cluster # 0
          THEN /\ offers' = [offers EXCEPT ![inbox[k].from] = o.cluster]
               /\ UNCHANGED sleeping
          ELSE /\ sleeping' = IF o.provision THEN sleeping \cup {inbox[k].from} ELSE sleeping
               /\ UNCHANGED offers
    BY <1>1 DEF HandleLease
  <2>5. o.pool \in PoolStates /\ o.cluster \in Names \cup {0}
    BY <1>0, OutcomeTypes DEF TypeOK
  <2>6. \A r \in UNION {LeaseOutcomes(p) : p \in replays} : r.pool \in PoolStates
    BY <1>0, OutcomeTypes DEF TypeOK
  <2>7. pool' \in PoolStates /\ pool' \in replays' /\ replays' \subseteq PoolStates
    BY <1>0, <2>4, <2>5, <2>6 DEF TypeOK
  <2>8. provisioning' \subseteq Names /\ nextID' \in Names
    BY <1>0, <2>3, <2>4 DEF TypeOK
  <2>9. sleeping' \subseteq Callers /\ offers' \in [Callers -> Names \cup {0}]
    <3>1. sleeping' \subseteq Callers
      BY <1>0, <2>2, <2>4 DEF TypeOK
    <3>2. offers' = offers \/ offers' = [offers EXCEPT ![inbox[k].from] = o.cluster]
      BY <2>4
    <3>3. [offers EXCEPT ![inbox[k].from] = o.cluster] \in [Callers -> Names \cup {0}]
      BY <1>0, <2>2, <2>5, CallerTypes
    <3> QED  BY <1>0, <3>1, <3>2, <3>3 DEF TypeOK
  <2>10. UNCHANGED <<aged, callers, budget>>
    BY <1>1 DEF HandleLease
  <2>11. inbox' \in Seq([kind : {"lease", "release"}, from : Callers, cluster : Names \cup {0}])
    BY <1>01, <2>1, Zenon
  <2> QED  BY <1>0, <2>7, <2>8, <2>9, <2>10, <2>11 DEF TypeOK, callers
<1>2. ASSUME NEW k \in DOMAIN inbox, HandleRelease(k)
      PROVE  TypeOK'
  <2>1. inbox' \in Seq(Signal) /\ inbox[k].cluster \in Returning
    BY <1>0, <1>2, ReleaseTaken DEF HandleRelease
  <2>2. \A p \in PoolStates : Returned(p, inbox[k].cluster) \in PoolStates
    BY DEF PoolStates, Returned
  <2>3. pool' \in PoolStates /\ pool' \in replays' /\ replays' \subseteq PoolStates
    BY <1>0, <1>2, <2>2 DEF HandleRelease, TypeOK
  <2> QED  BY <1>0, <1>01, <1>2, <2>1, <2>3 DEF HandleRelease, TypeOK, callers
<1>3. ASSUME NEW c \in Callers, Wake(c)
      PROVE  TypeOK'
  <2>1. inbox' \in Seq(Signal)
    BY <1>0, <1>3, LeaseSent DEF Wake
  <2>2. budget' \in [Events -> Nat]
    BY <1>0, <1>3, SpendTypes DEF Wake, Events
  <2> QED  BY <1>0, <1>01, <1>3, <2>1, <2>2 DEF Wake, TypeOK, callers, clusters
<1>4. ASSUME NEW name \in Names, Provisioned(name)
      PROVE  TypeOK'
  <2>1. \A p \in PoolStates : Added(p, name) \in PoolStates
    BY DEF PoolStates, Added
  <2>2. pool' \in PoolStates /\ pool' \in replays' /\ replays' \subseteq PoolStates
    BY <1>0, <1>4, <2>1 DEF Provisioned, TypeOK
  <2> QED  BY <1>0, <1>4, <2>2 DEF Provisioned, TypeOK, callers
<1>5. ASSUME NEW name \in Names, ProvisionFails(name) \/ Age(name)
      PROVE  TypeOK'
  <2>1. budget' \in [Events -> Nat]
    BY <1>0, <1>5, SpendTypes DEF ProvisionFails, Age, Events
  <2> QED  BY <1>0, <1>5, <2>1 DEF ProvisionFails, Age, TypeOK, callers
<1>6. CASE Sweep
  <2>1. \A p \in PoolStates : Swept(p) \in PoolStates
    BY DEF PoolStates, Swept, Expired, Available
  <2>2. pool' \in PoolStates /\ pool' \in replays' /\ replays' \subseteq PoolStates
    BY <1>0, <1>6, <2>1 DEF Sweep, TypeOK
  <2> QED  BY <1>0, <1>6, <2>2 DEF Sweep, TypeOK, callers
<1>7. CASE Replay
  <2>1. budget' \in [Events -> Nat]
    BY <1>0, <1>7, SpendTypes DEF Replay, Events
  <2> QED  BY <1>0, <1>7, <2>1 DEF Replay, TypeOK, callers
<1>8. ASSUME NEW c \in Callers, RequestLease(c)
      PROVE  TypeOK'
  <2>1. inbox' \in Seq(Signal)
    BY <1>0, <1>8, LeaseSent DEF RequestLease
  <2> QED  BY <1>0, <1>01, <1>8, <2>1, CallerTypes DEF RequestLease, TypeOK, clusters
<1>9. ASSUME NEW c \in Callers, LeaseArrives(c) \/ LeaseTimeout(c) \/ OfferLost(c)
      PROVE  TypeOK'
  <2>1. offers[c] \in Names \cup {0}
    BY <1>0 DEF TypeOK
  <2>2. phase' \in [Callers -> {"start", "waiting", "testing", "closed"}]
    <3>1. phase' = phase \/ \E p \in {"testing", "closed"} : phase' = [phase EXCEPT ![c] = p]
      BY <1>9 DEF LeaseArrives, LeaseTimeout, OfferLost, callers
    <3> QED  BY <1>0, <3>1, CallerTypes DEF TypeOK
  <2>3. offers' \in [Callers -> Names \cup {0}] /\ using' \in [Callers -> Names \cup {0}]
    <3>1. /\ offers' = offers \/ offers' = [offers EXCEPT ![c] = 0]
          /\ using' = using \/ using' = [using EXCEPT ![c] = offers[c]]
      BY <1>9 DEF LeaseArrives, LeaseTimeout, OfferLost, callers
    <3>2. /\ [offers EXCEPT ![c] = 0] \in [Callers -> Names \cup {0}]
          /\ [using EXCEPT ![c] = offers[c]] \in [Callers -> Names \cup {0}]
      BY <1>0, <2>1, CallerTypes
    <3> QED  BY <1>0, <3>1, <3>2 DEF TypeOK
  <2> QED
    BY <1>0, <1>9, <2>2, <2>3 DEF LeaseArrives, LeaseTimeout, OfferLost, TypeOK, clusters, callers
<1>10. ASSUME NEW c \in Callers, Leaves(c)
       PROVE  TypeOK'
  <2>1. inbox' \in Seq(Signal)
    <3>1. [kind |-> "release", from |-> c, cluster |-> using[c]] \in Signal
      BY <1>0 DEF TypeOK, Signal
    <3> QED  BY <1>0, <1>10, <3>1, MoreInInbox DEF Leaves, CloneFails, TestEnds, TestGivenUp, Exit
  <2>2. commit' \in [Callers -> {"none", "pending", "success", "failure"}]
    BY <1>0, <1>10, CallerTypes DEF Leaves, CloneFails, TestEnds, TestGivenUp, TypeOK
  <2>3. adrift' \in [Callers -> Names \cup {0}]
    <3>1. using[c] \in Names \cup {0}
      BY <1>0 DEF TypeOK
    <3> QED
      BY <1>0, <1>10, <3>1, CallerTypes DEF Leaves, CloneFails, TestEnds, TestGivenUp, TypeOK
  <2>4. Exit(c)
    BY <1>10 DEF Leaves, CloneFails, TestEnds, TestGivenUp
  <2>5. /\ phase' \in [Callers -> {"start", "waiting", "testing", "closed"}]
        /\ using' \in [Callers -> Names \cup {0}]
    BY <1>0, <2>4, CallerTypes DEF Exit
  <2> QED  BY <1>0, <1>01, <2>1, <2>2, <2>3, <2>4, <2>5 DEF Exit, TypeOK, clusters
<1>11. ASSUME NEW c \in Callers, HelmStops(c)
       PROVE  TypeOK'
  BY <1>0, <1>11, CallerTypes DEF HelmStops, clusters, TypeOK
<1>12. CASE UNCHANGED vars
  BY <1>0, <1>12 DEF vars, callers, clusters, TypeOK
<1> QED
  BY <1>1, <1>2, <1>3, <1>4, <1>5, <1>6, <1>7, <1>8, <1>9, <1>10, <1>11, <1>12
     DEF Next, CoreNext, Clusters, HandleSignal, HelmTest, Leaves

----------------------------------------------------------------------------
(* Requests *)

LEMMA StillSteps == (UNCHANGED vars => Still) /\ \A c \in Callers : HelmStops(c) => Still
BY DEF Still, vars, callers, clusters, HelmStops

\* The callers that have not started change only when one starts.
LEMMA StartingKept ==
  ASSUME TypeOK, NEW c \in Callers, phase[c] # "start",
         NEW p \in {"waiting", "testing", "closed"}, phase' = [phase EXCEPT ![c] = p]
  PROVE  Starting' = Starting
BY DEF TypeOK, Starting

LEMMA RequestStep == PoolConstantsOK /\ RequestInv /\ [Next]_vars => RequestInv'
<1> SUFFICES ASSUME PoolConstantsOK, RequestInv, [Next]_vars
             PROVE  RequestsApart' /\ NamesSuffice'
  BY TypeStep DEF RequestInv
<1>0. TypeOK /\ RequestsApart /\ NamesSuffice /\ OneRequest /\ inbox \in Seq(Signal)
  BY InboxTypes DEF RequestInv, RequestsApart
<1>01. /\ nextID \in Nat /\ budget["retry"] \in Nat
       /\ Cardinality(Starting \cup Asking) \in Nat
       /\ Desired \in Nat /\ Cardinality(Callers) \in Nat /\ Budget["retry"] \in Nat
  <2>1. nextID \in Nat /\ budget["retry"] \in Nat
    BY <1>0 DEF TypeOK, Names, Events
  <2>2. Cardinality(Starting \cup Asking) \in Nat
    BY SizeOfCallers DEF Starting, Asking
  <2> QED  BY <2>1, <2>2, ConstantTypes
<1>1. ASSUME UNCHANGED <<nextID, sleeping>>, budget'["retry"] = budget["retry"],
             Asking' = Asking, Starting' = Starting, OneRequest'
      PROVE  RequestsApart' /\ NamesSuffice'
  BY <1>0, <1>1 DEF RequestsApart, NamesSuffice
<1>2. ASSUME NEW k \in DOMAIN inbox, HandleLease(k)
      PROVE  RequestsApart' /\ NamesSuffice'
  <2> DEFINE c == inbox[k].from
  <2>1. c \in Asking /\ Asking' = Asking \ {c} /\ OneRequest'
    BY <1>0, <1>2, LeaseTaken DEF HandleLease
  <2>2. Starting' = Starting /\ c \notin Starting /\ c \in Callers /\ c \notin sleeping
    BY <1>0, <1>2, <2>1 DEF HandleLease, callers, Starting, Asking, RequestsApart
  <2>3. sleeping' \in {sleeping, sleeping \cup {c}} /\ nextID' \in {nextID, nextID + 1}
    BY <1>2 DEF HandleLease
  <2> HIDE DEF c
  <2>4. RequestsApart'
    BY <1>0, <2>1, <2>2, <2>3 DEF RequestsApart
  <2>5. (Starting \cup Asking)' = (Starting \cup Asking) \ {c}
    BY <2>1, <2>2
  <2>6. Cardinality((Starting \cup Asking)') = Cardinality(Starting \cup Asking) - 1
    <3>1. Starting \cup Asking \in SUBSET Callers /\ c \in Starting \cup Asking
      BY <2>1 DEF Starting, Asking
    <3> QED  BY <2>5, <3>1, SizeOfCallers
  <2>7. budget' = budget
    BY <1>2 DEF HandleLease
  <2>8. NamesSuffice'
    BY <1>0, <1>01, <2>3, <2>6, <2>7, SMTT(30) DEF NamesSuffice
  <2> QED  BY <2>4, <2>8
<1>3. ASSUME NEW k \in DOMAIN inbox, HandleRelease(k)
      PROVE  RequestsApart' /\ NamesSuffice'
  <2>1. Asking' = Asking /\ OneRequest'
    BY <1>0, <1>3, ReleaseTaken DEF HandleRelease
  <2> QED  BY <1>1, <1>3, <2>1 DEF HandleRelease, callers, Starting
<1>4. ASSUME NEW c \in Callers, Wake(c)
      PROVE  RequestsApart' /\ NamesSuffice'
  <2>1. /\ c \in sleeping /\ c \notin Asking /\ c \notin Starting
        /\ Starting' = Starting /\ sleeping' = sleeping \ {c} /\ nextID' = nextID
    BY <1>0, <1>4 DEF Wake, callers, clusters, Starting, RequestsApart
  <2>2. Asking' = Asking \cup {c} /\ OneRequest'
    BY <1>0, <1>4, <2>1, LeaseSent DEF Wake
  <2>3. RequestsApart'
    BY <1>0, <2>1, <2>2 DEF RequestsApart
  <2>4. (Starting \cup Asking)' = (Starting \cup Asking) \cup {c}
    BY <2>1, <2>2
  <2>5. Cardinality((Starting \cup Asking)') = Cardinality(Starting \cup Asking) + 1
    <3>1. Starting \cup Asking \in SUBSET Callers /\ c \in Callers \ (Starting \cup Asking)
      BY <2>1 DEF Starting, Asking
    <3> QED  BY <2>4, <3>1, SizeOfCallers
  <2>6. budget'["retry"] = budget["retry"] - 1
    BY <1>0, <1>4, SpendTypes DEF Wake, Events
  <2>7. NamesSuffice'
    BY <1>0, <1>01, <2>1, <2>5, <2>6 DEF NamesSuffice
  <2> QED  BY <2>3, <2>7
<1>5. ASSUME NEW name \in Names, Provisioned(name)
      PROVE  RequestsApart' /\ NamesSuffice'
  BY <1>0, <1>1, <1>5 DEF Provisioned, callers, Starting, Asking, OneRequest
<1>6. ASSUME NEW name \in Names, ProvisionFails(name) \/ Age(name)
      PROVE  RequestsApart' /\ NamesSuffice'
  <2>1. budget'["retry"] = budget["retry"]
    BY <1>0, <1>6, SpendTypes DEF ProvisionFails, Age, Events
  <2> QED
    BY <1>0, <1>1, <1>6, <2>1 DEF ProvisionFails, Age, callers, Starting, Asking, OneRequest
<1>7. CASE Sweep
  BY <1>0, <1>1, <1>7 DEF Sweep, callers, Starting, Asking, OneRequest
<1>8. CASE Replay
  <2>1. budget'["retry"] = budget["retry"]
    BY <1>0, <1>8, SpendTypes DEF Replay, Events
  <2> QED  BY <1>0, <1>1, <1>8, <2>1 DEF Replay, callers, Starting, Asking, OneRequest
<1>9. ASSUME NEW c \in Callers, RequestLease(c)
      PROVE  RequestsApart' /\ NamesSuffice'
  <2>1. c \in Starting /\ Starting' = Starting \ {c} /\ c \notin Asking /\ c \notin sleeping
    BY <1>0, <1>9 DEF RequestLease, Starting, TypeOK, RequestsApart
  <2>2. Asking' = Asking \cup {c} /\ OneRequest'
    BY <1>0, <1>9, <2>1, LeaseSent DEF RequestLease
  <2>3. UNCHANGED <<sleeping, nextID, budget>>
    BY <1>9 DEF RequestLease, clusters
  <2>4. (Starting \cup Asking)' = Starting \cup Asking
    BY <2>1, <2>2
  <2>5. RequestsApart'
    BY <1>0, <2>1, <2>2, <2>3 DEF RequestsApart
  <2> QED  BY <1>0, <2>3, <2>4, <2>5 DEF NamesSuffice
<1>10. ASSUME NEW c \in Callers, LeaseArrives(c) \/ LeaseTimeout(c) \/ OfferLost(c)
       PROVE  RequestsApart' /\ NamesSuffice'
  <2>1. Starting' = Starting
    BY <1>0, <1>10, StartingKept DEF LeaseArrives, LeaseTimeout, OfferLost, callers, Starting
  <2>2. UNCHANGED <<inbox, nextID, sleeping, budget>>
    BY <1>10 DEF LeaseArrives, LeaseTimeout, OfferLost, clusters
  <2> QED  BY <1>0, <1>1, <2>1, <2>2 DEF Asking, OneRequest
<1>11. ASSUME NEW c \in Callers, Leaves(c)
       PROVE  RequestsApart' /\ NamesSuffice'
  <2>1. Starting' = Starting
    BY <1>0, <1>11, StartingKept DEF Leaves, CloneFails, TestEnds, TestGivenUp, Exit
  <2>2. UNCHANGED <<nextID, sleeping, budget>>
    BY <1>11 DEF Leaves, CloneFails, TestEnds, TestGivenUp, Exit, clusters
  <2>3. Asking' = Asking /\ OneRequest'
    <3> DEFINE s == [kind |-> "release", from |-> c, cluster |-> using[c]]
    <3>1. s \in Signal /\ s.kind = "release"
      BY <1>0 DEF TypeOK, Signal
    <3>2. inbox' = Append(inbox, s)
      BY <1>11 DEF Leaves, CloneFails, TestEnds, TestGivenUp, Exit
    <3> HIDE DEF s
    <3> QED  BY <1>0, <3>1, <3>2, MoreInInbox DEF Asking, OneRequest
  <2> QED  BY <1>1, <2>1, <2>2, <2>3
<1>12. CASE Still
  BY <1>0, <1>1, <1>12 DEF Still, clusters, Starting, Asking, OneRequest
<1> QED
  BY <1>2, <1>3, <1>4, <1>5, <1>6, <1>7, <1>8, <1>9, <1>10, <1>11, <1>12, StillSteps
     DEF Next, CoreNext, Clusters, HandleSignal, HelmTest, Leaves

LEMMA RequestStart == PoolConstantsOK => (Init => RequestInv)
<1> SUFFICES ASSUME PoolConstantsOK, Init
             PROVE  RequestInv
  OBVIOUS
<1>1. Initial \in Nat /\ Initial >= 1 /\ Initial <= Desired
  BY ConstantTypes DEF Initial
<1>2. Initial \in Names /\ 1..Initial \subseteq Names
  BY <1>1, ConstantTypes
<1>3. pool \in PoolStates /\ pool \in replays /\ replays \subseteq PoolStates
  BY DEF Init, PoolStates
<1>4. TypeOK
  BY <1>2, <1>3 DEF Init, TypeOK, PoolConstantsOK
<1>5. Asking = {} /\ Starting = Callers /\ sleeping = {}
  BY DEF Init, Asking, Starting
<1>6. RequestsApart
  BY <1>5 DEF Init, RequestsApart, OneRequest
<1>7. NamesSuffice
  BY <1>1, <1>5, ConstantTypes DEF Init, NamesSuffice
<1> QED  BY <1>4, <1>6, <1>7 DEF RequestInv

\* Every variable of the pool and its helm tests keeps its type, replayed or
\* not: above all, each cluster is provisioned under a name of its own, and
\* what a replay computes is a pool.
THEOREM PoolTyped == Spec => []TypeOK
<1>1. RequestInv => TypeOK
  BY DEF RequestInv
<1> QED  BY <1>1, PoolConstantsOK, RequestStart, RequestStep, PTL DEF Spec

----------------------------------------------------------------------------
(* Leases, without replays *)

\* A request is granted a cluster that is not leased, or sent again later, or
\* dropped; it is dropped only when the maximum of clusters is leased.
LEMMA LeaseHandled ==
  ASSUME TypeOK, NEW k \in DOMAIN inbox, HandleLease(k)
  PROVE  \/ \E x \in Names :
              /\ x \notin pool.leased /\ pool'.leased = pool.leased \cup {x}
              /\ offers' = [offers EXCEPT ![inbox[k].from] = x] /\ sleeping' = sleeping
         \/ /\ pool'.leased = pool.leased /\ offers' = offers
            /\ \/ sleeping' = sleeping \cup {inbox[k].from}
               \/ sleeping' = sleeping /\ ~(Cardinality(pool.leased) < Maximum)
<1>1. pool \in PoolStates /\ pool.known \subseteq Names /\ 0 \notin Names
  BY DEF TypeOK, PoolStates, Names
<1>2. PICK o \in LeaseOutcomes(pool) :
       /\ pool' = o.pool
       /\ IF o.cluster # 0
          THEN /\ offers' = [offers EXCEPT ![inbox[k].from] = o.cluster]
               /\ UNCHANGED sleeping
          ELSE /\ sleeping' = IF o.provision THEN sleeping \cup {inbox[k].from} ELSE sleeping
               /\ UNCHANGED offers
  BY DEF HandleLease
<1>3. CASE Available(pool) # {}
  <2>1. PICK x \in Available(pool) :
          o = [pool |-> [pool EXCEPT !.leased = @ \cup {x}], cluster |-> x,
               provision |-> Cardinality(Available(pool)) - 1 < Desired
                               /\ Cardinality(pool.known) < Maximum]
    BY <1>2, <1>3 DEF LeaseOutcomes
  <2>2. x \in Names /\ x # 0 /\ x \notin pool.leased
    BY <1>1 DEF Available
  <2>3. [pool EXCEPT !.leased = @ \cup {x}].leased = pool.leased \cup {x}
    BY <1>1 DEF PoolStates
  <2>4. o.pool = [pool EXCEPT !.leased = @ \cup {x}] /\ o.cluster = x
    BY <2>1
  <2> QED  BY <1>2, <2>2, <2>3, <2>4
<1>4. CASE Available(pool) = {}
  <2>1. o = [pool |-> pool, cluster |-> 0, provision |-> Cardinality(pool.known) < Maximum]
    BY <1>2, <1>4 DEF LeaseOutcomes
  <2>2. pool.known = pool.leased
    BY <1>1, <1>4 DEF Available, PoolStates
  <2> QED  BY <1>2, <2>1, <2>2
<1> QED  BY <1>3, <1>4

\* Only handling a signal changes what is leased.
LEMMA LeasedKept ==
  ASSUME TypeOK
  PROVE  /\ \A name \in Names : Provisioned(name) => pool'.leased = pool.leased
         /\ Sweep => pool'.leased = pool.leased
         /\ \A k \in DOMAIN inbox :
              HandleRelease(k) => pool'.leased = pool.leased \ {inbox[k].cluster}
BY DEF TypeOK, PoolStates, Provisioned, Sweep, HandleRelease, Added, Swept, Returned

\* How a test ends.
LEMMA ExitHandsBack ==
  ASSUME TypeOK, LeasesApart, NEW c \in Callers, Leaves(c)
  PROVE  /\ using[c] \in Names /\ using[c] \notin Returning /\ using[c] \in pool.leased
         /\ Asking' = Asking /\ Returning' = Returning \cup {using[c]} /\ OneReturn'
         /\ using' = [using EXCEPT ![c] = 0] /\ phase' = [phase EXCEPT ![c] = "closed"]
         /\ phase[c] = "testing" /\ UNCHANGED <<clusters, sleeping, offers>>
<1>1. /\ phase[c] = "testing" /\ UNCHANGED <<clusters, sleeping, offers>>
      /\ using' = [using EXCEPT ![c] = 0] /\ phase' = [phase EXCEPT ![c] = "closed"]
      /\ inbox' = Append(inbox, [kind |-> "release", from |-> c, cluster |-> using[c]])
  BY DEF Leaves, CloneFails, TestEnds, TestGivenUp, Exit
<1>2. using[c] # 0 /\ using[c] \in pool.leased \ Returning
  BY <1>1 DEF LeasesApart
<1>3. using[c] \in Names /\ inbox \in Seq(Signal)
  BY <1>2, InboxTypes DEF TypeOK
<1>4. Asking' = Asking /\ Returning' = Returning \cup {using[c]} /\ OneReturn'
  BY <1>1, <1>2, <1>3, ReleaseSent DEF LeasesApart
<1> QED  BY <1>1, <1>2, <1>3, <1>4

LEMMA ApartStep == PoolConstantsOK /\ LeaseInv /\ [CoreNext]_vars => LeasesApart'
<1> SUFFICES ASSUME PoolConstantsOK, LeaseInv, [CoreNext]_vars
             PROVE  LeasesApart'
  OBVIOUS
<1>0. TypeOK /\ LeasesApart /\ OneReturn /\ inbox \in Seq(Signal) /\ 0 \notin Names
  BY InboxTypes DEF LeaseInv, RequestInv, LeasesApart, Names
<1>01. \A c \in Callers : using[c] \in Names \cup {0} /\ offers[c] \in Names \cup {0}
  BY <1>0 DEF TypeOK
<1>1. ASSUME OneReturn', Returning' = Returning, pool'.leased = pool.leased,
             UNCHANGED <<using, offers>>,
             \A c \in Callers : phase'[c] = "testing" <=> phase[c] = "testing"
      PROVE  LeasesApart'
  BY <1>0, <1>1 DEF LeasesApart
<1>2. ASSUME NEW k \in DOMAIN inbox, HandleLease(k)
      PROVE  LeasesApart'
  <2>1. Returning' = Returning /\ OneReturn' /\ UNCHANGED <<phase, using>>
        /\ inbox[k].from \in Callers
    BY <1>0, <1>2, LeaseTaken DEF HandleLease, callers, Asking
  <2>2. CASE pool'.leased = pool.leased /\ offers' = offers
    BY <1>1, <2>1, <2>2
  <2>3. ASSUME NEW x \in Names, x \notin pool.leased, pool'.leased = pool.leased \cup {x},
               offers' = [offers EXCEPT ![inbox[k].from] = x]
        PROVE  LeasesApart'
    <3>1. /\ \A d \in Callers : offers'[d] = IF d = inbox[k].from THEN x ELSE offers[d]
          /\ \A d \in Callers : using[d] # x /\ offers[d] # x
      BY <1>0, <2>1, <2>3 DEF TypeOK, LeasesApart
    <3>2. x \notin Returning
      BY <1>0, <2>3 DEF LeasesApart
    <3>3. x # 0
      BY <1>0
    <3> QED  BY <1>0, <2>1, <2>3, <3>1, <3>2, <3>3 DEF LeasesApart
  <2> QED  BY <1>0, <1>2, <2>2, <2>3, LeaseHandled
<1>3. ASSUME NEW k \in DOMAIN inbox, HandleRelease(k)
      PROVE  LeasesApart'
  <2>1. /\ Returning' = Returning \ {inbox[k].cluster} /\ OneReturn'
        /\ inbox[k].cluster \in Returning /\ pool'.leased = pool.leased \ {inbox[k].cluster}
        /\ UNCHANGED <<phase, using, offers>>
    BY <1>0, <1>3, ReleaseTaken, LeasedKept DEF HandleRelease, callers
  <2> QED  BY <1>0, <2>1 DEF LeasesApart
<1>4. ASSUME NEW c \in Callers, Wake(c) \/ RequestLease(c)
      PROVE  LeasesApart'
  <2>1. Returning' = Returning /\ OneReturn'
    BY <1>0, <1>4, LeaseSent DEF Wake, RequestLease
  <2>2. UNCHANGED <<using, offers, pool>>
    BY <1>4 DEF Wake, RequestLease, callers, clusters
  <2>3. \A d \in Callers : phase'[d] = "testing" <=> phase[d] = "testing"
    BY <1>0, <1>4 DEF Wake, RequestLease, callers, TypeOK
  <2> QED  BY <1>1, <2>1, <2>2, <2>3
<1>5. ASSUME NEW name \in Names, Provisioned(name) \/ ProvisionFails(name) \/ Age(name)
      PROVE  LeasesApart'
  <2>1. UNCHANGED <<inbox, using, offers, phase>> /\ pool'.leased = pool.leased
    BY <1>0, <1>5, LeasedKept DEF Provisioned, ProvisionFails, Age, callers
  <2> QED  BY <1>0, <1>1, <2>1 DEF OneReturn, Returning
<1>6. CASE Sweep
  <2>1. UNCHANGED <<inbox, using, offers, phase>> /\ pool'.leased = pool.leased
    BY <1>0, <1>6, LeasedKept DEF Sweep, callers
  <2> QED  BY <1>0, <1>1, <2>1 DEF OneReturn, Returning
<1>7. ASSUME NEW c \in Callers, LeaseArrives(c)
      PROVE  LeasesApart'
  <2>1. UNCHANGED <<inbox, pool>> /\ offers[c] # 0 /\ phase[c] = "waiting" /\ using[c] = 0
    BY <1>0, <1>7 DEF LeaseArrives, clusters, LeasesApart
  <2>2. \A d \in Callers :
          /\ using'[d] = IF d = c THEN offers[c] ELSE using[d]
          /\ offers'[d] = IF d = c THEN 0 ELSE offers[d]
          /\ phase'[d] = IF d = c THEN "testing" ELSE phase[d]
    BY <1>0, <1>7 DEF LeaseArrives, TypeOK
  <2>3. Returning' = Returning /\ OneReturn'
    BY <1>0, <2>1 DEF Returning, OneReturn
  <2> QED  BY <1>0, <2>1, <2>2, <2>3 DEF LeasesApart
<1>8. ASSUME NEW c \in Callers, LeaseTimeout(c)
      PROVE  LeasesApart'
  <2>1. UNCHANGED <<inbox, pool, using, offers>>
    BY <1>8 DEF LeaseTimeout, clusters
  <2>2. \A d \in Callers : phase'[d] = "testing" <=> phase[d] = "testing"
    BY <1>0, <1>8 DEF LeaseTimeout, TypeOK
  <2> QED  BY <1>0, <1>1, <2>1, <2>2 DEF Returning, OneReturn
<1>9. ASSUME NEW c \in Callers, OfferLost(c)
      PROVE  LeasesApart'
  <2>1. UNCHANGED <<inbox, pool, using, phase>>
    BY <1>9 DEF OfferLost, clusters, callers
  <2>2. \A d \in Callers : offers'[d] = IF d = c THEN 0 ELSE offers[d]
    BY <1>0, <1>9 DEF OfferLost, TypeOK
  <2>3. Returning' = Returning /\ OneReturn'
    BY <1>0, <2>1 DEF Returning, OneReturn
  <2> QED  BY <1>0, <2>1, <2>2, <2>3 DEF LeasesApart
<1>10. ASSUME NEW c \in Callers, Leaves(c)
       PROVE  LeasesApart'
  <2>1. /\ using[c] \in Names /\ using[c] \notin Returning /\ using[c] \in pool.leased
        /\ Returning' = Returning \cup {using[c]} /\ OneReturn'
        /\ UNCHANGED <<pool, offers>> /\ phase[c] = "testing"
    BY <1>0, <1>10, ExitHandsBack DEF clusters
  <2>2. \A d \in Callers :
          /\ using'[d] = IF d = c THEN 0 ELSE using[d]
          /\ phase'[d] = IF d = c THEN "closed" ELSE phase[d]
    BY <1>0, <1>10, ExitHandsBack DEF TypeOK
  <2> QED  BY <1>0, <2>1, <2>2 DEF LeasesApart
<1>11. CASE Still
  <2>1. UNCHANGED <<inbox, pool, using, offers, phase>>
    BY <1>11 DEF Still, clusters
  <2> QED  BY <1>0, <1>1, <2>1 DEF Returning, OneReturn
<1> QED
  BY <1>2, <1>3, <1>4, <1>5, <1>6, <1>7, <1>8, <1>9, <1>10, <1>11, StillSteps
     DEF CoreNext, Clusters, HandleSignal, HelmTest, Leaves

\* What a request handled does: it is answered with a cluster, kept, or dropped
\* because the maximum is leased.
LEMMA AskedHandled ==
  ASSUME TypeOK, RequestsApart, NEW k \in DOMAIN inbox, HandleLease(k), NEW c, c = inbox[k].from
  PROVE  /\ c \in Asking /\ Asking' = Asking \ {c} /\ Starting' = Starting /\ phase' = phase
         /\ c \notin Starting /\ c \notin sleeping
         /\ \/ \E x \in Names :
                 /\ x \notin pool.leased /\ pool'.leased = pool.leased \cup {x}
                 /\ offers' = [offers EXCEPT ![c] = x] /\ sleeping' = sleeping
            \/ /\ pool'.leased = pool.leased /\ offers' = offers
               /\ \/ sleeping' = sleeping \cup {c}
                  \/ sleeping' = sleeping /\ ~(Cardinality(pool.leased) < Maximum)
<1>1. c \in Asking /\ Asking' = Asking \ {c}
  BY InboxTypes, LeaseTaken DEF HandleLease, RequestsApart
<1>2. phase' = phase /\ Starting' = Starting /\ c \notin Starting /\ c \notin sleeping
  BY <1>1 DEF HandleLease, callers, Starting, RequestsApart
<1> QED  BY <1>1, <1>2, LeaseHandled

\* Who asks, and who is answered, in the other steps.
LEMMA AskingKept ==
  ASSUME TypeOK, RequestsApart, LeasesApart, CoreNext, \A k \in DOMAIN inbox : ~HandleLease(k)
  PROVE  /\ Unanswered' = Unanswered /\ pool'.leased \subseteq pool.leased
         /\ (Asking \cup sleeping) \subseteq (Asking \cup sleeping)'
         /\ \A c \in Callers :
              phase'[c] = "waiting" =>
                \/ c \in (Asking \cup sleeping)'
                \/ phase[c] = "waiting" /\ offers'[c] = offers[c]
<1>0. inbox \in Seq(Signal) /\ OneRequest
  BY InboxTypes DEF RequestsApart
<1>1. ASSUME NEW k \in DOMAIN inbox, HandleRelease(k)
      PROVE  /\ Asking' = Asking /\ UNCHANGED <<sleeping, phase, offers>>
             /\ pool'.leased \subseteq pool.leased
  BY <1>0, <1>1, ReleaseTaken, LeasedKept DEF HandleRelease, callers
<1>2. ASSUME NEW c \in Callers, Wake(c)
      PROVE  /\ Asking' \cup sleeping' = Asking \cup sleeping
             /\ UNCHANGED <<phase, offers, pool>>
  <2>1. Asking' = Asking \cup {c}
    BY <1>0, <1>2, LeaseSent DEF Wake
  <2> QED  BY <1>2, <2>1 DEF Wake, callers, clusters
<1>3. ASSUME NEW name \in Names, Provisioned(name) \/ ProvisionFails(name) \/ Age(name)
      PROVE  /\ Asking' = Asking /\ UNCHANGED <<sleeping, phase, offers>>
             /\ pool'.leased \subseteq pool.leased
  BY <1>3, LeasedKept DEF Provisioned, ProvisionFails, Age, callers, Asking
<1>4. CASE Sweep
  <2>1. /\ Asking' = Asking /\ UNCHANGED <<sleeping, phase, offers>>
        /\ pool'.leased \subseteq pool.leased
    BY <1>4, LeasedKept DEF Sweep, callers, Asking
  <2> QED  BY <2>1 DEF Unanswered, Starting
<1>5. ASSUME NEW c \in Callers, RequestLease(c)
      PROVE  /\ Asking' = Asking \cup {c} /\ UNCHANGED <<sleeping, offers, pool>>
             /\ Starting' = Starting \ {c} /\ c \in Starting
             /\ \A d \in Callers : d # c => phase'[d] = phase[d]
  <2>1. Asking' = Asking \cup {c}
    BY <1>0, <1>5, LeaseSent DEF RequestLease
  <2> QED  BY <1>5, <2>1 DEF RequestLease, clusters, Starting, TypeOK
<1>6. ASSUME NEW c \in Callers,
             LeaseArrives(c) \/ LeaseTimeout(c) \/ OfferLost(c) \/ Leaves(c)
      PROVE  /\ Asking' = Asking /\ UNCHANGED <<sleeping, pool>> /\ Starting' = Starting
             /\ \A d \in Callers : d # c => phase'[d] = phase[d] /\ offers'[d] = offers[d]
             /\ phase'[c] \in {"testing", "closed"}
  <2>1. CASE LeaseArrives(c) \/ LeaseTimeout(c) \/ OfferLost(c)
    <3>1. Asking' = Asking /\ UNCHANGED <<sleeping, pool>>
      BY <2>1 DEF LeaseArrives, LeaseTimeout, OfferLost, clusters, callers, Asking
    <3>2. Starting' = Starting
      BY <2>1, StartingKept DEF LeaseArrives, LeaseTimeout, OfferLost, callers, Starting
    <3>3. /\ \A d \in Callers : d # c => phase'[d] = phase[d] /\ offers'[d] = offers[d]
          /\ phase'[c] \in {"testing", "closed"}
      BY <2>1 DEF LeaseArrives, LeaseTimeout, OfferLost, callers, TypeOK
    <3> QED  BY <3>1, <3>2, <3>3
  <2>2. CASE Leaves(c)
    <3>1. /\ Asking' = Asking /\ UNCHANGED <<sleeping, pool, offers>>
          /\ phase' = [phase EXCEPT ![c] = "closed"] /\ phase[c] = "testing"
      BY <2>2, ExitHandsBack DEF clusters
    <3>2. Starting' = Starting
      BY <3>1, StartingKept
    <3> QED  BY <3>1, <3>2 DEF TypeOK
  <2> QED  BY <1>6, <2>1, <2>2
<1>7. ASSUME NEW k \in DOMAIN inbox, HandleRelease(k)
      PROVE  /\ Unanswered' = Unanswered /\ pool'.leased \subseteq pool.leased
             /\ Asking' = Asking /\ UNCHANGED <<sleeping, phase, offers>>
  BY <1>1, <1>7 DEF Unanswered, Starting
<1>8. ASSUME NEW c \in Callers, Wake(c)
      PROVE  /\ Unanswered' = Unanswered /\ pool' = pool
             /\ Asking' \cup sleeping' = Asking \cup sleeping /\ UNCHANGED <<phase, offers>>
  BY <1>2, <1>8 DEF Unanswered, Starting
<1>9. ASSUME NEW name \in Names, Provisioned(name) \/ ProvisionFails(name) \/ Age(name)
      PROVE  /\ Unanswered' = Unanswered /\ pool'.leased \subseteq pool.leased
             /\ Asking' = Asking /\ UNCHANGED <<sleeping, phase, offers>>
  BY <1>3, <1>9 DEF Unanswered, Starting
<1>10. ASSUME NEW c \in Callers, HelmTest(c)
       PROVE  /\ Unanswered' = Unanswered /\ pool' = pool
              /\ (Asking \cup sleeping) \subseteq (Asking \cup sleeping)'
              /\ \A d \in Callers :
                   phase'[d] = "waiting" =>
                     \/ d \in (Asking \cup sleeping)'
                     \/ phase[d] = "waiting" /\ offers'[d] = offers[d]
  <2>1. CASE RequestLease(c)
    BY <1>5, <2>1 DEF Unanswered
  <2>2. CASE HelmStops(c)
    <3>1. UNCHANGED <<inbox, pool, sleeping, offers, phase>>
      BY <2>2 DEF HelmStops, clusters
    <3> QED  BY <3>1 DEF Unanswered, Asking, Starting
  <2>3. CASE ~RequestLease(c) /\ ~HelmStops(c)
    BY <1>6, <1>10, <2>3 DEF HelmTest, Leaves, Unanswered
  <2> QED  BY <2>1, <2>2, <2>3
<1> QED
  BY <1>4, <1>7, <1>8, <1>9, <1>10 DEF CoreNext, Clusters, HandleSignal

LEMMA LeasedFinite ==
  ASSUME PoolConstantsOK, TypeOK
  PROVE  IsFiniteSet(pool.leased) /\ Cardinality(pool.leased) \in Nat
<1>1. pool.leased \subseteq Names
  BY DEF TypeOK, PoolStates
<1>2. IsFiniteSet(Names)
  <2>1. Desired + Cardinality(Callers) + Budget["retry"] \in Int
    BY ConstantTypes
  <2> QED  BY <2>1, ConstantTypes, FS_Interval
<1> QED  BY <1>1, <1>2, FS_Subset, FS_CardinalityType

LEMMA AnswerStep == PoolConstantsOK /\ LeaseInv /\ [CoreNext]_vars => LeasesAnswer'
<1> SUFFICES ASSUME PoolConstantsOK, LeaseInv, [CoreNext]_vars
             PROVE  LeasesAnswer'
  OBVIOUS
<1>0. TypeOK /\ RequestsApart /\ LeasesApart /\ LeasesAnswer
  BY DEF LeaseInv, RequestInv
<1>1. /\ IsFiniteSet(Unanswered) /\ Cardinality(Unanswered) \in Nat /\ Unanswered \in SUBSET Callers
      /\ IsFiniteSet(pool.leased) /\ Cardinality(pool.leased) \in Nat
      /\ Cardinality(Callers) \in Nat
  <2>1. Unanswered \in SUBSET Callers
    BY <1>0 DEF Unanswered, Starting, Asking, TypeOK
  <2>3. IsFiniteSet(pool.leased) /\ Cardinality(pool.leased) \in Nat
    BY <1>0, LeasedFinite
  <2> QED  BY <2>1, <2>3, SizeOfCallers, ConstantTypes
<1>2. ASSUME Unanswered' \subseteq Unanswered, pool'.leased \subseteq pool.leased
      PROVE  LeasesAnswer'
  <2>1. /\ IsFiniteSet(Unanswered') /\ Cardinality(Unanswered') <= Cardinality(Unanswered)
        /\ IsFiniteSet(pool'.leased) /\ Cardinality(pool'.leased) <= Cardinality(pool.leased)
    BY <1>1, <1>2, FS_Subset
  <2>2. Cardinality(Unanswered') \in Nat /\ Cardinality(pool'.leased) \in Nat
    BY <2>1, FS_CardinalityType
  <2> QED  BY <1>0, <1>1, <2>1, <2>2 DEF LeasesAnswer
<1>3. ASSUME NEW k \in DOMAIN inbox, HandleLease(k)
      PROVE  LeasesAnswer'
  <2> DEFINE c == inbox[k].from
  <2>1. /\ c \in Asking /\ Asking' = Asking \ {c} /\ Starting' = Starting
        /\ c \notin Starting /\ c \notin sleeping
    BY <1>0, <1>3, AskedHandled
  <2>2. ASSUME NEW x \in Names, x \notin pool.leased, pool'.leased = pool.leased \cup {x},
               sleeping' = sleeping
        PROVE  LeasesAnswer'
    <3>1. Unanswered' = Unanswered \ {c} /\ c \in Unanswered
      BY <2>1, <2>2 DEF Unanswered
    <3>2. Cardinality(Unanswered') = Cardinality(Unanswered) - 1
      BY <1>1, <3>1, SizeOfCallers
    <3>3. Cardinality(pool'.leased) = Cardinality(pool.leased) + 1
      BY <1>1, <2>2, FS_AddElement
    <3> QED  BY <1>0, <1>1, <3>2, <3>3 DEF LeasesAnswer
  <2>3. ASSUME pool'.leased = pool.leased, sleeping' \in {sleeping, sleeping \cup {c}}
        PROVE  LeasesAnswer'
    <3>1. Unanswered' \subseteq Unanswered
      BY <2>1, <2>3 DEF Unanswered
    <3> QED  BY <1>2, <2>3, <3>1
  <2> QED  BY <1>0, <1>3, <2>2, <2>3, AskedHandled
<1>4. CASE CoreNext /\ \A k \in DOMAIN inbox : ~HandleLease(k)
  BY <1>0, <1>2, <1>4, AskingKept
<1>5. CASE UNCHANGED vars
  BY <1>2, <1>5 DEF vars, callers, clusters, Unanswered, Starting, Asking
<1> QED  BY <1>3, <1>4, <1>5

LEMMA KeptStep ==
  PoolConstantsOK /\ LeaseInv /\ Cardinality(Callers) <= Maximum /\ [CoreNext]_vars => RequestKept'
<1> SUFFICES ASSUME PoolConstantsOK, LeaseInv, Cardinality(Callers) <= Maximum, [CoreNext]_vars
             PROVE  RequestKept'
  OBVIOUS
<1>0. TypeOK /\ RequestsApart /\ LeasesApart /\ LeasesAnswer /\ RequestKept
  BY DEF LeaseInv, RequestInv
<1>1. \A c \in Callers : phase[c] = "waiting" => c \in Asking \cup sleeping \/ offers[c] # 0
  BY <1>0 DEF RequestKept, Asking
<1>2. ASSUME \A c \in Callers : phase'[c] = "waiting" => c \in (Asking \cup sleeping)' \/ offers'[c] # 0
      PROVE  RequestKept'
  BY <1>2 DEF RequestKept, Asking
<1>3. ASSUME NEW k \in DOMAIN inbox, HandleLease(k)
      PROVE  RequestKept'
  <2> DEFINE c == inbox[k].from
  <2>1. /\ c \in Asking /\ Asking' = Asking \ {c} /\ phase' = phase
        /\ c \in Callers /\ c \notin Starting /\ c \notin sleeping
    BY <1>0, <1>3, AskedHandled DEF Asking
  <2>2. ASSUME NEW x \in Names, offers' = [offers EXCEPT ![c] = x], sleeping' = sleeping
        PROVE  RequestKept'
    <3>1. \A d \in Callers : offers'[d] = IF d = c THEN x ELSE offers[d]
      BY <1>0, <2>2 DEF TypeOK
    <3>2. x # 0
      BY DEF Names
    <3> QED  BY <1>1, <1>2, <2>1, <2>2, <3>1, <3>2
  <2>3. ASSUME offers' = offers, sleeping' = sleeping \cup {c}
        PROVE  RequestKept'
    BY <1>1, <1>2, <2>1, <2>3
  <2>4. Cardinality(pool.leased) < Maximum
    <3>1. Unanswered \in SUBSET Callers /\ c \in Unanswered
      BY <1>0, <2>1 DEF Unanswered, Starting, Asking, TypeOK
    <3>2. Cardinality(Unanswered) \in Nat /\ Cardinality(Unanswered) >= 1
      BY <3>1, SizeOfCallers
    <3>4. Cardinality(pool.leased) \in Nat
      BY <1>0, LeasedFinite
    <3> QED  BY <1>0, <3>2, <3>4, ConstantTypes DEF LeasesAnswer
  <2> QED  BY <1>0, <1>3, <2>2, <2>3, <2>4, AskedHandled
<1>4. CASE CoreNext /\ \A k \in DOMAIN inbox : ~HandleLease(k)
  BY <1>0, <1>1, <1>2, <1>4, AskingKept
<1>5. CASE UNCHANGED vars
  <2>1. UNCHANGED <<inbox, sleeping, offers, phase>>
    BY <1>5 DEF vars, callers, clusters
  <2> QED  BY <1>0, <2>1 DEF RequestKept
<1> QED  BY <1>3, <1>4, <1>5

LEMMA LeasesCorrect == CoreSpec => []LeaseInv
<1>1. Init => LeaseInv
  <2> SUFFICES ASSUME Init
               PROVE  LeaseInv
    OBVIOUS
  <2>1. Asking = {} /\ Returning = {} /\ Starting = Callers /\ sleeping = {}
    BY DEF Init, Asking, Returning, Starting
  <2>2. LeasesApart
    BY <2>1 DEF Init, LeasesApart, OneReturn
  <2>3. LeasesAnswer
    <3>1. Cardinality(pool.leased) = 0 /\ Unanswered = Callers
      BY <2>1, FS_EmptySet DEF Init, Unanswered
    <3> QED  BY <3>1, ConstantTypes, PoolConstantsOK DEF LeasesAnswer
  <2>4. RequestKept
    BY DEF Init, RequestKept
  <2> QED  BY <2>2, <2>3, <2>4, RequestStart, PoolConstantsOK DEF LeaseInv
<1>2. LeaseInv /\ [CoreNext]_vars => LeaseInv'
  <2> SUFFICES ASSUME LeaseInv, [CoreNext]_vars
               PROVE  LeaseInv'
    OBVIOUS
  <2>1. RequestInv'
    BY RequestStep, PoolConstantsOK DEF LeaseInv, Next
  <2>2. (Cardinality(Callers) <= Maximum => RequestKept)'
    BY KeptStep, PoolConstantsOK
  <2> QED  BY <2>1, <2>2, ApartStep, AnswerStep, PoolConstantsOK DEF LeaseInv
<1> QED  BY <1>1, <1>2, PTL DEF CoreSpec

\* A test keeps its place: the cluster it works on, or is about to, is not
\* destroyed under it, and where the pool may have a cluster for every test
\* the request of a test that waits is on its way, kept or answered.
THEOREM PlacesAreKept == CoreSpec => []PlacesKept
<1>1. LeaseInv => PlacesKept
  <2> SUFFICES ASSUME LeaseInv
               PROVE  NotDestroyedInUse
    BY DEF LeaseInv, PlacesKept
  <2>1. pool.leased \subseteq pool.known
    BY DEF LeaseInv, RequestInv, TypeOK, PoolStates
  <2> QED  BY <2>1 DEF LeaseInv, LeasesApart, NotDestroyedInUse
<1> QED  BY <1>1, LeasesCorrect, PTL

LEMMA StraysStep == TypeOK /\ StraysClosed /\ [CoreNext]_vars => StraysClosed'
<1> SUFFICES ASSUME TypeOK, StraysClosed, [CoreNext]_vars
             PROVE  StraysClosed'
  OBVIOUS
<1>1. ASSUME UNCHANGED <<phase, adrift>>
      PROVE  StraysClosed'
  BY <1>1 DEF StraysClosed
<1>2. ASSUME NEW c \in Callers, NEW p, phase[c] # "closed", phase' = [phase EXCEPT ![c] = p],
             UNCHANGED adrift
      PROVE  StraysClosed'
  BY <1>2 DEF StraysClosed, TypeOK
<1>3. ASSUME NEW c \in Callers, Leaves(c)
      PROVE  StraysClosed'
  BY <1>3 DEF Leaves, CloneFails, TestEnds, TestGivenUp, Exit, StraysClosed, TypeOK
<1>4. ASSUME NEW c \in Callers, HelmStops(c)
      PROVE  StraysClosed'
  BY <1>4 DEF HelmStops, StraysClosed, TypeOK
<1>5. CASE CoreNext
  <2>1. ASSUME NEW k \in DOMAIN inbox, HandleLease(k) \/ HandleRelease(k)
        PROVE  StraysClosed'
    BY <1>1, <2>1 DEF HandleLease, HandleRelease, callers
  <2>2. ASSUME NEW name \in Names,
               Sweep \/ Provisioned(name) \/ ProvisionFails(name) \/ Age(name)
        PROVE  StraysClosed'
    BY <1>1, <2>2 DEF Sweep, Provisioned, ProvisionFails, Age, callers
  <2>3. ASSUME NEW c \in Callers, Wake(c) \/ OfferLost(c)
        PROVE  StraysClosed'
    BY <1>1, <2>3 DEF Wake, OfferLost, callers
  <2>4. ASSUME NEW c \in Callers, RequestLease(c) \/ LeaseArrives(c) \/ LeaseTimeout(c)
        PROVE  StraysClosed'
    BY <1>2, <2>4 DEF RequestLease, LeaseArrives, LeaseTimeout
  <2>5. ASSUME Sweep
        PROVE  StraysClosed'
    BY <1>1, <2>5 DEF Sweep, callers
  <2> QED
    BY <1>3, <1>4, <1>5, <2>1, <2>2, <2>3, <2>4, <2>5
       DEF CoreNext, Clusters, HandleSignal, HelmTest, Leaves
<1>6. CASE UNCHANGED vars
  BY <1>1, <1>6 DEF vars, callers
<1> QED  BY <1>5, <1>6

\* A cluster that gets a user, or loses it, does so alone.
LEMMA UseBegins ==
  ASSUME TypeOK, LeasesApart, NEW c \in Callers, LeaseArrives(c)
  PROVE  Promise!Next \/ UNCHANGED inUse
<1> DEFINE x == offers[c]
<1>1. x # 0 /\ x \in Names /\ using' = [using EXCEPT ![c] = x] /\ using[c] = 0
  BY DEF LeaseArrives, TypeOK, LeasesApart
<1>2. \A d \in Callers : using[d] # x
  BY <1>1 DEF LeasesApart
<1>3. Strays' = Strays
  BY DEF LeaseArrives, Strays
<1> HIDE DEF x
<1>4. CASE x \in Strays
  <2>1. inUse' = inUse
    BY <1>1, <1>3, <1>4 DEF inUse, TypeOK
  <2> QED  BY <2>1
<1>5. CASE x \notin Strays
  <2>1. inUse' = inUse \cup {<<c, x>>}
    BY <1>1, <1>3, <1>5 DEF inUse, TypeOK
  <2>2. Promise!Begin(c, x)
    BY <1>1, <1>2, <2>1 DEF Promise!Begin, inUse
  <2> QED  BY <1>1, <2>2 DEF Promise!Next
<1> QED  BY <1>4, <1>5

LEMMA UseEnds ==
  ASSUME TypeOK, LeasesApart, StraysClosed, NEW c \in Callers, Leaves(c)
  PROVE  Promise!Next \/ UNCHANGED inUse
<1> DEFINE x == using[c]
<1>1. /\ x \in Names /\ x # 0 /\ using' = [using EXCEPT ![c] = 0] /\ phase[c] = "testing"
      /\ \A d \in Callers : using[d] = x => d = c
  BY ExitHandsBack DEF Names, LeasesApart
<1>2. Strays' \in {Strays, Strays \cup {x}}
  <2>1. adrift[c] = 0
    BY <1>1 DEF StraysClosed
  <2>2. adrift' \in {adrift, [adrift EXCEPT ![c] = x]}
    BY DEF Leaves, CloneFails, TestEnds, TestGivenUp
  <2>3. ASSUME adrift' = [adrift EXCEPT ![c] = x]
        PROVE  Strays' = Strays \cup {x}
    <3>1. \A d \in Callers : adrift'[d] = IF d = c THEN x ELSE adrift[d]
      BY <2>3 DEF TypeOK
    <3> QED  BY <1>1, <2>1, <3>1 DEF Strays
  <2> QED  BY <2>2, <2>3 DEF Strays
<1> HIDE DEF x
<1>3. \A d \in Callers : using'[d] = IF d = c THEN 0 ELSE using[d]
  BY <1>1 DEF TypeOK
<1>4. inUse' = inUse \ {<<c, x>>}
  BY <1>1, <1>2, <1>3 DEF inUse, x
<1>5. CASE <<c, x>> \in inUse
  BY <1>1, <1>4, <1>5 DEF Promise!Next, Promise!End
<1>6. CASE <<c, x>> \notin inUse
  BY <1>4, <1>6
<1> QED  BY <1>5, <1>6

\* When the last helm test that nobody waits for leaves a cluster, the test that
\* has its lease has it for itself.
LEMMA StrayEnds ==
  ASSUME TypeOK, LeasesApart, NEW c \in Callers, HelmStops(c)
  PROVE  Promise!Next \/ UNCHANGED inUse
<1> DEFINE x == adrift[c]
<1>1. x # 0 /\ x \in Names /\ x \in Strays /\ using' = using
  BY DEF HelmStops, Strays, TypeOK
<1>2. Strays' \in {Strays, Strays \ {x}}
  <2>1. \A d \in Callers : adrift'[d] = IF d = c THEN 0 ELSE adrift[d]
    BY DEF HelmStops, TypeOK
  <2> QED  BY <2>1 DEF Strays
<1> HIDE DEF x
<1>3. CASE \E d \in Callers : using[d] = x /\ x \notin Strays'
  <2>1. PICK d \in Callers : using[d] = x
    BY <1>3
  <2>2. inUse' = inUse \cup {<<d, x>>}
    <3>1. \A e \in Callers : using[e] = x => e = d
      BY <1>1, <2>1 DEF LeasesApart
    <3> QED  BY <1>1, <1>2, <1>3, <2>1, <3>1 DEF inUse
  <2>3. Promise!Begin(d, x)
    BY <1>1, <2>1, <2>2 DEF Promise!Begin, inUse
  <2> QED  BY <1>1, <2>3 DEF Promise!Next
<1>4. CASE ~\E d \in Callers : using[d] = x /\ x \notin Strays'
  <2>1. inUse' = inUse
    BY <1>1, <1>2, <1>4 DEF inUse
  <2> QED  BY <2>1
<1> QED  BY <1>3, <1>4

\* Without replays the pool implements the abstract exclusive lock: a cluster
\* has one helm test at a time, and a test one cluster, where no helm test that
\* was given up still works on it.
THEOREM LeaseServiceCorrect == CoreSpec => IsLeaseService
<1>1. Init => Promise!Init /\ StraysClosed
  BY DEF Init, Promise!Init, inUse, StraysClosed
<1>2. LeaseInv /\ StraysClosed /\ [CoreNext]_vars => [Promise!Next]_inUse /\ StraysClosed'
  <2> SUFFICES ASSUME LeaseInv, StraysClosed, [CoreNext]_vars
               PROVE  Promise!Next \/ UNCHANGED inUse
    BY StraysStep DEF LeaseInv, RequestInv
  <2>0. TypeOK /\ RequestsApart /\ LeasesApart
    BY DEF LeaseInv, RequestInv
  <2>1. ASSUME UNCHANGED <<using, adrift>>
        PROVE  UNCHANGED inUse
    BY <2>1 DEF inUse, Strays
  <2>2. CASE CoreNext
    <3>1. ASSUME NEW k \in DOMAIN inbox, HandleLease(k) \/ HandleRelease(k)
          PROVE  UNCHANGED <<using, adrift>>
      BY <3>1 DEF HandleLease, HandleRelease, callers
    <3>2. ASSUME Sweep
          PROVE  UNCHANGED <<using, adrift>>
      BY <3>2 DEF Sweep, callers
    <3>3. ASSUME NEW name \in Names, Provisioned(name) \/ ProvisionFails(name) \/ Age(name)
          PROVE  UNCHANGED <<using, adrift>>
      BY <3>3 DEF Provisioned, ProvisionFails, Age, callers
    <3>4. ASSUME NEW c \in Callers,
                 Wake(c) \/ RequestLease(c) \/ LeaseTimeout(c) \/ OfferLost(c)
          PROVE  UNCHANGED <<using, adrift>>
      BY <3>4 DEF Wake, RequestLease, LeaseTimeout, OfferLost, callers
    <3>5. ASSUME NEW c \in Callers, LeaseArrives(c) \/ Leaves(c) \/ HelmStops(c)
          PROVE  Promise!Next \/ UNCHANGED inUse
      BY <2>0, <3>5, UseBegins, UseEnds, StrayEnds
    <3> QED
      BY <2>1, <2>2, <3>1, <3>2, <3>3, <3>4, <3>5
         DEF CoreNext, Clusters, HandleSignal, HelmTest, Leaves
  <2>3. CASE UNCHANGED vars
    BY <2>1, <2>3 DEF vars, callers
  <2> QED  BY <2>2, <2>3
<1> QED  BY <1>1, <1>2, LeasesCorrect, PTL DEF CoreSpec, IsLeaseService, Promise!Spec
============================================================================
