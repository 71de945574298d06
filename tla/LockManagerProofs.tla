------------------------- MODULE LockManagerProofs -------------------------
(***************************************************************************)
(* Proofs about LockManager, for any set of pipelines, resources, pools,   *)
(* scripts and budgets.                                                    *)
(***************************************************************************)
EXTENDS LockManager, WellFoundedInduction, FiniteSetTheorems, SequenceTheorems, TLAPS

----------------------------------------------------------------------------
(* Sequences *)

LEMMA ConcatElements ==
  ASSUME NEW S, NEW s \in Seq(S), NEW t \in Seq(S)
  PROVE  /\ s \o t \in Seq(S) /\ Len(s \o t) = Len(s) + Len(t)
         /\ \A j \in 1..(Len(s) + Len(t)) : (s \o t)[j] = IF j <= Len(s) THEN s[j] ELSE t[j - Len(s)]
OBVIOUS

\* Removing an element keeps the others, in order.
LEMMA RemoveAtElements ==
  ASSUME NEW S, NEW s \in Seq(S), NEW i \in DOMAIN s
  PROVE  /\ RemoveAt(s, i) \in Seq(S)
         /\ Len(RemoveAt(s, i)) = Len(s) - 1
         /\ \A j \in 1..(Len(s) - 1) :
              RemoveAt(s, i)[j] = IF j < i THEN s[j] ELSE s[j + 1]
<1> DEFINE front == SubSeq(s, 1, i - 1)
           back  == SubSeq(s, i + 1, Len(s))
<1>1. /\ i \in 1..Len(s) /\ Len(s) \in Nat
  OBVIOUS
<1>2. /\ front \in Seq(S) /\ Len(front) = i - 1
      /\ \A j \in 1..(i - 1) : front[j] = s[j]
  BY <1>1
<1>3. /\ back \in Seq(S) /\ Len(back) = Len(s) - i
      /\ \A j \in 1..(Len(s) - i) : back[j] = s[i + j]
  BY <1>1
<1> HIDE DEF front, back
<1>4. /\ front \o back \in Seq(S) /\ Len(front \o back) = Len(s) - 1
      /\ \A j \in 1..(Len(s) - 1) :
           (front \o back)[j] = IF j <= i - 1 THEN front[j] ELSE back[j - (i - 1)]
  <2>1. front \o back \in Seq(S) /\ Len(front \o back) = (i - 1) + (Len(s) - i)
    BY <1>2, <1>3, ConcatElements
  <2>2. \A j \in 1..((i - 1) + (Len(s) - i)) :
          (front \o back)[j] = IF j <= i - 1 THEN front[j] ELSE back[j - (i - 1)]
    BY <1>2, <1>3, ConcatElements
  <2>3. (i - 1) + (Len(s) - i) = Len(s) - 1
    BY <1>1
  <2> QED  BY <2>1, <2>2, <2>3
<1>5. \A j \in 1..(Len(s) - 1) : (front \o back)[j] = IF j < i THEN s[j] ELSE s[j + 1]
  <2> TAKE j \in 1..(Len(s) - 1)
  <2>1. CASE j < i
    BY <2>1, <1>1, <1>2, <1>4
  <2>2. CASE ~(j < i)
    <3>1. j - (i - 1) \in 1..(Len(s) - i) /\ i + (j - (i - 1)) = j + 1
      BY <2>2, <1>1
    <3>2. back[j - (i - 1)] = s[j + 1]
      BY <3>1, <1>3
    <3> QED  BY <2>2, <3>2, <1>1, <1>4
  <2> QED  BY <2>1, <2>2
<1>6. RemoveAt(s, i) = front \o back
  BY DEF RemoveAt, front, back
<1> QED  BY <1>4, <1>5, <1>6

\* Dropping a prefix keeps the rest, in order.
LEMMA SuffixElements ==
  ASSUME NEW S, NEW s \in Seq(S), NEW n \in 0..Len(s)
  PROVE  /\ SubSeq(s, n + 1, Len(s)) \in Seq(S)
         /\ Len(SubSeq(s, n + 1, Len(s))) = Len(s) - n
         /\ \A j \in 1..(Len(s) - n) : SubSeq(s, n + 1, Len(s))[j] = s[n + j]
OBVIOUS

\* The first element, and the rest.
LEMMA EmptyOrNot ==
  ASSUME NEW S, NEW s \in Seq(S)
  PROVE  /\ s # <<>> => 1 \in DOMAIN s
         /\ Len(s) = 0 => s = <<>>
OBVIOUS

LEMMA FirstOf ==
  ASSUME NEW S, NEW s \in Seq(S), s # <<>>
  PROVE  /\ 1 \in DOMAIN s /\ Head(s) = s[1] /\ 1 \in 0..Len(s)
         /\ Tail(s) = SubSeq(s, 1 + 1, Len(s))
         /\ Len(s) = 1 => Tail(s) = <<>>
<1>1. 1 \in DOMAIN s /\ Head(s) = s[1] /\ 1 \in 0..Len(s)
  OBVIOUS
<1>2. Tail(s) = SubSeq(s, 1 + 1, Len(s))
  OBVIOUS
<1>3. Tail(s) \in Seq(S) /\ Len(Tail(s)) = Len(s) - 1
  OBVIOUS
<1>4. Len(s) = 1 => Len(Tail(s)) = 0
  BY <1>3
<1>5. Len(s) = 1 => Tail(s) = <<>>
  BY <1>3, <1>4, EmptyOrNot
<1> QED  BY <1>1, <1>2, <1>5

LEMMA Singleton ==
  ASSUME NEW S, NEW e \in S, NEW s, s = Append(<<>>, e)
  PROVE  s \in Seq(S) /\ DOMAIN s = {1} /\ s[1] = e /\ Len(s) = 1 /\ s # <<>>
OBVIOUS

----------------------------------------------------------------------------
(* Types *)

LEMMA GrantTypes ==
  ASSUME NEW lk \in [Resources -> Clients \cup {None}], NEW r \in Resources, NEW c \in Clients,
         grants \in [Clients -> Seq(Resources)], GrantFrom(lk, r, c)
  PROVE  /\ locks' \in [Resources -> Clients \cup {None}]
         /\ grants' \in [Clients -> Seq(Resources)]
BY DEF GrantFrom

LEMMA OffersAreResources ==
  ASSUME NEW lk, NEW req, NEW released
  PROVE  /\ Available(lk, req) \subseteq Resources
         /\ Served(req, lk, released) \subseteq Resources
BY DEF Available, Served, FirstFree

LEMMA SignalTypes ==
  ASSUME NEW s \in Signal
  PROVE  /\ s.kind = "acquire"  => s.req \in Queued
         /\ s.kind = "release"  => s.req \in Request
         /\ s.kind = "register" => s.def \in Registration
BY DEF Signal

LEMMA ConsumeTypes ==
  ASSUME inbox \in Seq(Signal), history \in Nat, NEW i \in DOMAIN inbox, Consume(i)
  PROVE  inbox' \in Seq(Signal) /\ history' \in Nat
BY RemoveAtElements DEF Consume

LEMMA SpendTypes ==
  ASSUME budget \in [Events -> Nat], NEW event \in Events, Spend(event)
  PROVE  budget' \in [Events -> Nat]
BY DEF Spend

LEMMA SendTypes ==
  ASSUME inbox \in Seq(Signal), budget \in [Events -> Nat], NEW s \in Signal, SendOrLose(s)
  PROVE  inbox' \in Seq(Signal) /\ budget' \in [Events -> Nat]
<1>1. CASE inbox' = Append(inbox, s) /\ UNCHANGED budget
  BY <1>1
<1>2. CASE Spend("lose") /\ UNCHANGED inbox
  BY <1>2, SpendTypes DEF Events
<1> QED  BY <1>1, <1>2 DEF SendOrLose

\* The requests pipelines send are well formed.
LEMMA RequestTypes ==
  ASSUME ConstantsOK, NEW c \in Clients
  PROVE  /\ \A k \in 1..Len(Script[c]) :
              RequestOf(c, Script[c][k].resource, Script[c][k].pool) \in Queued
         /\ \A r \in Resources \cup {None} : RequestOf(c, r, None) \in Request
         /\ \A r \in Resources : RequestOf(Admin, r, None) \in Request
<1>1. Script[c] \in Seq(Want)
  BY DEF ConstantsOK
<1>2. \A k \in 1..Len(Script[c]) : Script[c][k] \in Want
  BY <1>1
<1> QED  BY <1>2 DEF RequestOf, Queued, Request, Want

LEMMA CloseTypes ==
  ASSUME TypeOK, NEW c \in Clients, CloseRun(c)
  PROVE  /\ phase' \in [Clients -> Phases]
         /\ held' \in [Clients -> Resources \cup {None}]
         /\ grants' \in [Clients -> Seq(Resources)]
<1>1. phase' \in [Clients -> Phases] /\ held' \in [Clients -> Resources \cup {None}]
  BY DEF TypeOK, CloseRun, Phases
<1>2. grants' \in [Clients -> Seq(Resources)]
  BY SuffixElements DEF TypeOK, CloseRun
<1> QED  BY <1>1, <1>2

LEMMA TypeStep == ConstantsOK /\ TypeOK /\ [Next]_vars => TypeOK'
<1> SUFFICES ASSUME ConstantsOK, TypeOK, [Next]_vars
             PROVE  TypeOK'
  OBVIOUS
<1> USE DEF TypeOK, manager, client
<1>1. ASSUME NEW i \in DOMAIN inbox, HandleAcquire(i)
      PROVE  TypeOK'
  <2>1. inbox[i] \in Signal /\ inbox[i].req \in Queued
    BY <1>1, SignalTypes DEF HandleAcquire
  <2>2. inbox' \in Seq(Signal) /\ history' \in Nat
    BY <1>1, ConsumeTypes DEF HandleAcquire
  <2>3. UNCHANGED <<pools, phase, step, held, budget>>
    BY <1>1 DEF HandleAcquire
  <2>4. ASSUME NEW r \in Available(locks, inbox[i].req),
               GrantFrom(locks, r, inbox[i].req.requester), UNCHANGED queue
        PROVE  TypeOK'
    <3>1. r \in Resources /\ inbox[i].req.requester \in Clients
      BY <2>1, OffersAreResources DEF Queued
    <3> QED  BY <2>2, <2>3, <2>4, <3>1, GrantTypes
  <2>5. CASE queue' = Enqueue(inbox[i].req) /\ UNCHANGED <<locks, grants>>
    BY <2>1, <2>2, <2>3, <2>5 DEF Enqueue
  <2> QED  BY <1>1, <2>4, <2>5 DEF HandleAcquire
<1>2. ASSUME NEW i \in DOMAIN inbox, HandleRelease(i)
      PROVE  TypeOK'
  <2>1. inbox' \in Seq(Signal) /\ history' \in Nat
    BY <1>2, ConsumeTypes DEF HandleRelease
  <2>2. UNCHANGED <<pools, phase, step, held, budget>>
    BY <1>2 DEF HandleRelease
  <2>3. PICK released \in ReleaseTargets(inbox[i].req) :
          LET freed == [r \in Resources |-> IF r = released THEN None ELSE locks[r]] IN
          \/ \E k \in DOMAIN queue :
               /\ \E r \in Served(queue[k], freed, released) :
                    GrantFrom(freed, r, queue[k].requester)
               /\ queue' = RemoveAt(queue, k)
          \/ locks' = freed /\ UNCHANGED <<queue, grants>>
    BY <1>2, Zenon DEF HandleRelease
  <2> DEFINE freed == [r \in Resources |-> IF r = released THEN None ELSE locks[r]]
  <2>4. freed \in [Resources -> Clients \cup {None}]
    OBVIOUS
  <2> HIDE DEF freed
  <2>5. ASSUME NEW k \in DOMAIN queue, NEW r \in Served(queue[k], freed, released),
               GrantFrom(freed, r, queue[k].requester), queue' = RemoveAt(queue, k)
        PROVE  TypeOK'
    <3>1. r \in Resources
      BY OffersAreResources
    <3>2. queue[k].requester \in Clients
      <4>1. queue \in Seq(Queued) /\ k \in 1..Len(queue)
        OBVIOUS
      <4>2. queue[k] \in Queued
        BY <4>1
      <4> QED  BY <4>2 DEF Queued
    <3>3. queue' \in Seq(Queued)
      BY <2>5, RemoveAtElements
    <3> QED  BY <2>1, <2>2, <2>4, <2>5, <3>1, <3>2, <3>3, GrantTypes
  <2>6. CASE locks' = freed /\ UNCHANGED <<queue, grants>>
    BY <2>1, <2>2, <2>4, <2>6
  <2> QED  BY <2>3, <2>5, <2>6 DEF freed
<1>3. ASSUME NEW i \in DOMAIN inbox, HandleRegister(i)
      PROVE  TypeOK'
  <2>1. inbox' \in Seq(Signal) /\ history' \in Nat
    BY <1>3, ConsumeTypes DEF HandleRegister
  <2>2. inbox[i].def \in Registration
    BY <1>3, SignalTypes DEF HandleRegister
  <2> QED  BY <1>3, <2>1, <2>2 DEF HandleRegister, Registration
<1>4. CASE ContinueAsNew
  <2>1. inbox' \in Seq(Signal)
    BY <1>4, SuffixElements DEF ContinueAsNew
  <2> QED  BY <1>4, <2>1 DEF ContinueAsNew
<1>5. ASSUME NEW c \in Clients, Acquire(c)
      PROVE  TypeOK'
  <2>1. step[c] \in 1..Len(Script[c])
    BY <1>5 DEF Acquire, HasStep, ConstantsOK
  <2>2. [kind |-> "acquire", req |-> RequestOf(c, Script[c][step[c]].resource,
                                                 Script[c][step[c]].pool)] \in Signal
    BY <2>1, RequestTypes DEF Signal
  <2>3. inbox' \in Seq(Signal) /\ budget' \in [Events -> Nat]
    BY <1>5, <2>2, SendTypes DEF Acquire
  <2> QED  BY <1>5, <2>3 DEF Acquire, Phases
<1>6. ASSUME NEW c \in Clients, Acquired(c)
      PROVE  TypeOK'
  BY <1>6 DEF Acquired, Phases
<1>7. ASSUME NEW c \in Clients, AcquireTimeout(c)
      PROVE  TypeOK'
  <2>1. budget' \in [Events -> Nat]
    BY <1>7, SpendTypes DEF AcquireTimeout, Events
  <2> QED  BY <1>7, <2>1 DEF AcquireTimeout, Phases
<1>8. ASSUME NEW c \in Clients, FinishStep(c)
      PROVE  TypeOK'
  <2>1. [kind |-> "release", req |-> RequestOf(c, held[c], None)] \in Signal
    BY RequestTypes DEF Signal
  <2>2. inbox' \in Seq(Signal) /\ budget' \in [Events -> Nat]
    BY <1>8, <2>1, SendTypes DEF FinishStep
  <2> QED  BY <1>8, <2>2 DEF FinishStep, Phases
<1>9. ASSUME NEW c \in Clients, Close(c) \/ Terminate(c)
      PROVE  TypeOK'
  <2>1. CloseRun(c) /\ budget' \in [Events -> Nat]
    BY <1>9, SpendTypes DEF Close, Terminate, Events
  <2> QED  BY <2>1, CloseTypes DEF CloseRun
<1>10. ASSUME NEW c \in Clients, Rerun(c)
       PROVE  TypeOK'
  <2>1. budget' \in [Events -> Nat]
    BY <1>10, SpendTypes DEF Rerun, Events
  <2> QED  BY <1>10, <2>1 DEF Rerun, Phases
<1>11. ASSUME NEW c \in Clients, GrantFails(c)
       PROVE  TypeOK'
  BY <1>11 DEF GrantFails
<1>12. ASSUME NEW r \in Resources, ForceRelease(r)
       PROVE  TypeOK'
  <2>1. [kind |-> "release", req |-> RequestOf(Admin, r, None)] \in Signal
    BY DEF Signal, RequestOf, Request
  <2>2. budget' \in [Events -> Nat]
    BY <1>12, SpendTypes DEF ForceRelease, Events
  <2> QED  BY <1>12, <2>1, <2>2 DEF ForceRelease
<1>13. ASSUME NEW def \in PoolDefs, RegisterPool(def)
       PROVE  TypeOK'
  <2>1. [kind |-> "register", def |-> def] \in Signal
    BY DEF Signal, ConstantsOK
  <2>2. budget' \in [Events -> Nat]
    BY <1>13, SpendTypes DEF RegisterPool, Events
  <2> QED  BY <1>13, <2>1, <2>2 DEF RegisterPool
<1>14. CASE UNCHANGED vars
  BY <1>14 DEF vars
<1> QED
  BY <1>1, <1>2, <1>3, <1>4, <1>5, <1>6, <1>7, <1>8, <1>9, <1>10, <1>11, <1>12, <1>13, <1>14
  DEF Next, CoreNext, HandleSignal, Pipeline

\* Whatever pipelines, operators and faults do, continuing as new included,
\* the manager's maps and queue and the pipelines' records keep their shape.
THEOREM TypeCorrect == Spec => []TypeOK
<1>1. Init => TypeOK
  BY ConstantsOK DEF Init, TypeOK, Phases, ConstantsOK
<1> QED  BY <1>1, TypeStep, ConstantsOK, PTL DEF Spec
----------------------------------------------------------------------------
(* Every hold of a resource is accounted for exactly once *)

\* OneTokenPerLock, with lk as the holders and box as the unread signals.
HeldIn(lk) ==
  \A c \in Clients : /\ phase[c] = "running" <=> held[c] # None
                     /\ held[c] # None => lk[held[c]] = c

GrantedIn(lk) ==
  \A c \in Clients : \A i \in DOMAIN grants[c] :
    /\ lk[grants[c][i]] = c
    /\ grants[c][i] # held[c]
    /\ \A j \in DOMAIN grants[c] : grants[c][i] = grants[c][j] => i = j

OwedBy(lk, req) ==
  /\ req.requester \in Clients /\ req.resource \in Resources
  /\ lk[req.resource] = req.requester
  /\ held[req.requester] # req.resource
  /\ \A k \in DOMAIN grants[req.requester] : grants[req.requester][k] # req.resource

OnceIn(box) ==
  \A i, j \in DOMAIN box :
    /\ box[i].kind = "release" /\ box[j].kind = "release"
    /\ box[i].req.resource = box[j].req.resource
    => i = j

OwedIn(lk, box) ==
  \A i \in DOMAIN box : box[i].kind = "release" => OwedBy(lk, box[i].req)

Accounted(lk, box) == HeldIn(lk) /\ GrantedIn(lk) /\ OwedIn(lk, box) /\ OnceIn(box)

LEMMA AccountedNow == OneTokenPerLock <=> Accounted(locks, inbox)
<1>1. HeldIsRecorded <=> HeldIn(locks)
  BY DEF HeldIsRecorded, HeldIn
<1>2. GrantIsRecorded <=> GrantedIn(locks)
  BY DEF GrantIsRecorded, GrantedIn
<1>3. ReleaseIsOwed <=> OwedIn(locks, inbox) /\ OnceIn(inbox)
  BY DEF ReleaseIsOwed, OwedIn, OwedBy, OnceIn
<1> QED  BY <1>1, <1>2, <1>3 DEF OneTokenPerLock, Accounted

LEMMA AccountedNext == OneTokenPerLock' <=> Accounted(locks, inbox)'
BY AccountedNow, PTL

\* Handling one signal leaves the others, each once.
Shift(i, j) == IF j < i THEN j ELSE j + 1

LEMMA RestOfInbox ==
  ASSUME inbox \in Seq(Signal), NEW i \in DOMAIN inbox, NEW box, box = RemoveAt(inbox, i)
  PROVE  /\ \A j \in DOMAIN box : /\ Shift(i, j) \in DOMAIN inbox
                                  /\ Shift(i, j) # i
                                  /\ box[j] = inbox[Shift(i, j)]
         /\ \A j, k \in DOMAIN box : Shift(i, j) = Shift(i, k) => j = k
<1>1. /\ Len(inbox) \in Nat /\ i \in 1..Len(inbox) /\ DOMAIN inbox = 1..Len(inbox)
  OBVIOUS
<1>2. /\ box \in Seq(Signal) /\ Len(box) = Len(inbox) - 1
      /\ \A j \in 1..(Len(inbox) - 1) : box[j] = IF j < i THEN inbox[j] ELSE inbox[j + 1]
  BY RemoveAtElements
<1>3. DOMAIN box = 1..(Len(inbox) - 1)
  BY <1>2
<1> QED  BY <1>1, <1>2, <1>3 DEF Shift

\* What is accounted for stays so without the handled signal.
LEMMA AccountedRest ==
  ASSUME inbox \in Seq(Signal), NEW i \in DOMAIN inbox, NEW box, box = RemoveAt(inbox, i),
         Accounted(locks, inbox)
  PROVE  Accounted(locks, box)
<1>1. OwedIn(locks, box)
  BY RestOfInbox DEF Accounted, OwedIn
<1>2. OnceIn(box)
  BY RestOfInbox DEF Accounted, OnceIn
<1> QED  BY <1>1, <1>2 DEF Accounted

\* Granting a free resource adds its one token.
LEMMA GrantAccounted ==
  ASSUME TypeOK, NEW lk \in [Resources -> Clients \cup {None}], NEW box, ConstantsOK,
         Accounted(lk, box), inbox' = box, UNCHANGED client,
         NEW r \in Resources, NEW c \in Clients, lk[r] = None, GrantFrom(lk, r, c)
  PROVE  OneTokenPerLock'
<1> USE DEF TypeOK
<1>1. /\ held' = held /\ phase' = phase
      /\ locks' = [lk EXCEPT ![r] = c]
      /\ grants' = [grants EXCEPT ![c] = Append(@, r)]
      /\ None \notin Clients
  BY DEF client, GrantFrom, ConstantsOK
<1>2. \A d \in Clients, s \in Resources : lk[s] = d => s # r /\ locks'[s] = d
  BY <1>1
<1>3. HeldIn(locks)'
  BY <1>1, <1>2 DEF Accounted, HeldIn
<1>4. \A d \in Clients \ {c} : grants'[d] = grants[d]
  BY <1>1
<1>5. /\ grants'[c] = Append(grants[c], r)
      /\ grants[c] \in Seq(Resources)
      /\ DOMAIN grants'[c] = 1..(Len(grants[c]) + 1)
      /\ DOMAIN grants[c] = 1..Len(grants[c])
      /\ Len(grants[c]) \in Nat
      /\ \A k \in DOMAIN grants[c] : grants'[c][k] = grants[c][k]
      /\ grants'[c][Len(grants[c]) + 1] = r
  BY <1>1
<1>6. \A k \in DOMAIN grants[c] : grants[c][k] # r
  BY <1>2, <1>5 DEF Accounted, GrantedIn
<1>7. held[c] # r
  BY <1>1, <1>2 DEF Accounted, HeldIn
<1>8. GrantedIn(locks)'
  <2> SUFFICES ASSUME NEW d \in Clients, NEW i \in DOMAIN grants'[d]
               PROVE  /\ locks'[grants'[d][i]] = d
                      /\ grants'[d][i] # held'[d]
                      /\ \A j \in DOMAIN grants'[d] : grants'[d][i] = grants'[d][j] => i = j
    BY DEF GrantedIn
  <2>1. CASE d # c
    <3>1. grants'[d] = grants[d] /\ grants[d] \in Seq(Resources) /\ grants[d][i] \in Resources
      BY <2>1, <1>4
    <3> QED  BY <3>1, <1>1, <1>2 DEF Accounted, GrantedIn
  <2>2. CASE d = c /\ i = Len(grants[c]) + 1
    <3>1. grants'[d][i] = r /\ locks'[r] = c
      BY <2>2, <1>1, <1>5
    <3>2. \A j \in DOMAIN grants'[d] : grants'[d][i] = grants'[d][j] => i = j
      BY <2>2, <3>1, <1>5, <1>6
    <3> QED  BY <2>2, <3>1, <3>2, <1>1, <1>7
  <2>3. CASE d = c /\ i \in DOMAIN grants[c]
    <3>1. grants'[d][i] = grants[c][i] /\ grants[c][i] \in Resources
      BY <2>3, <1>5
    <3>2. \A j \in DOMAIN grants'[d] : grants'[d][i] = grants'[d][j] => i = j
      <4> SUFFICES ASSUME NEW j \in DOMAIN grants'[d], grants'[d][i] = grants'[d][j]
                   PROVE  i = j
        OBVIOUS
      <4>1. j \in DOMAIN grants[c]
        BY <2>3, <3>1, <1>5, <1>6
      <4>2. grants[c][i] = grants[c][j]
        BY <2>3, <4>1, <3>1, <1>5
      <4> QED  BY <2>3, <4>1, <4>2 DEF Accounted, GrantedIn
    <3>3. lk[grants[c][i]] = c /\ grants[c][i] # held[c]
      BY <2>3 DEF Accounted, GrantedIn
    <3> QED  BY <2>3, <3>1, <3>2, <3>3, <1>1, <1>2
  <2> QED  BY <2>1, <2>2, <2>3, <1>5
<1>9. OwedIn(locks, inbox)'
  <2> SUFFICES ASSUME NEW i \in DOMAIN box, box[i].kind = "release"
               PROVE  OwedBy(locks, box[i].req)'
    BY DEF OwedIn
  <2> DEFINE d == box[i].req.requester
             s == box[i].req.resource
  <2>1. /\ d \in Clients /\ s \in Resources /\ lk[s] = d /\ held[d] # s
        /\ \A k \in DOMAIN grants[d] : grants[d][k] # s
    BY DEF Accounted, OwedIn, OwedBy
  <2>2. s # r /\ locks'[s] = d
    BY <2>1, <1>2
  <2> HIDE DEF d, s
  <2>3. \A k \in DOMAIN grants'[d] : grants'[d][k] # s
    <3>1. CASE d # c
      BY <3>1, <2>1, <1>4
    <3>2. CASE d = c
      <4>1. ASSUME NEW k \in 1..(Len(grants[c]) + 1)
            PROVE  grants'[c][k] # s
        BY <3>2, <2>1, <2>2, <1>5
      <4> QED  BY <3>2, <4>1, <1>5
    <3> QED  BY <3>1, <3>2
  <2> QED  BY <2>1, <2>2, <2>3, <1>1 DEF OwedBy, d, s
<1>10. OnceIn(inbox)'
  BY DEF Accounted, OnceIn
<1> QED  BY <1>3, <1>8, <1>9, <1>10, AccountedNext DEF Accounted
\* The manager only offers what is free.
LEMMA OffersAreFree ==
  ASSUME NEW lk, NEW req, NEW released
  PROVE  /\ \A r \in Available(lk, req) : lk[r] = None
         /\ lk[released] = None => \A r \in Served(req, lk, released) : lk[r] = None
BY DEF Available, Served, FirstFree

\* Freeing the resource an owed release names leaves the rest accounted for.
LEMMA FreeAccounted ==
  ASSUME TypeOK, ConstantsOK, Accounted(locks, inbox),
         NEW i \in DOMAIN inbox, inbox[i].kind = "release",
         NEW freed, freed = [r \in Resources |->
                               IF r = inbox[i].req.resource THEN None ELSE locks[r]],
         NEW box, box = RemoveAt(inbox, i)
  PROVE  Accounted(freed, box)
<1> USE DEF TypeOK
<1> DEFINE s == inbox[i].req.resource
           c == inbox[i].req.requester
<1>1. OwedBy(locks, inbox[i].req)
  BY DEF Accounted, OwedIn
<1>2. /\ s \in Resources /\ c \in Clients /\ locks[s] = c /\ held[c] # s
      /\ \A k \in DOMAIN grants[c] : grants[c][k] # s
  BY <1>1 DEF OwedBy
<1>3. freed = [r \in Resources |-> IF r = s THEN None ELSE locks[r]]
  OBVIOUS
<1>4. Accounted(locks, box)
  BY AccountedRest
<1> HIDE DEF s, c
<1>5. HeldIn(freed)
  <2> SUFFICES ASSUME NEW d \in Clients, held[d] # None
               PROVE  freed[held[d]] = d
    BY DEF Accounted, HeldIn
  <2>1. held[d] \in Resources /\ locks[held[d]] = d
    BY DEF Accounted, HeldIn
  <2>2. held[d] # s
    BY <2>1, <1>2
  <2> QED  BY <2>1, <2>2, <1>3
<1>6. GrantedIn(freed)
  <2> SUFFICES ASSUME NEW d \in Clients, NEW k \in DOMAIN grants[d]
               PROVE  freed[grants[d][k]] = d
    BY DEF Accounted, GrantedIn
  <2>1. grants[d] \in Seq(Resources) /\ grants[d][k] \in Resources
    OBVIOUS
  <2>2. locks[grants[d][k]] = d
    BY DEF Accounted, GrantedIn
  <2>3. grants[d][k] # s
    BY <2>2, <1>2
  <2> QED  BY <2>1, <2>2, <2>3, <1>3
<1>7. OwedIn(freed, box)
  <2> SUFFICES ASSUME NEW j \in DOMAIN box, box[j].kind = "release"
               PROVE  OwedBy(freed, box[j].req)
    BY DEF OwedIn
  <2>1. OwedBy(locks, box[j].req)
    BY <1>4 DEF Accounted, OwedIn
  <2>2. box[j].req.resource # s
    BY RestOfInbox DEF Accounted, OnceIn, s
  <2> QED  BY <2>1, <2>2, <1>3 DEF OwedBy
<1> QED  BY <1>4, <1>5, <1>6, <1>7 DEF Accounted

\* A signal that is not a release owes nothing.
LEMMA SendAccounted ==
  ASSUME TypeOK, Accounted(locks, inbox), NEW s \in Signal, s.kind # "release",
         NEW box, box = Append(inbox, s)
  PROVE  Accounted(locks, box)
<1>1. /\ inbox \in Seq(Signal) /\ DOMAIN box = 1..(Len(inbox) + 1)
      /\ DOMAIN inbox = 1..Len(inbox) /\ Len(inbox) \in Nat
      /\ \A j \in DOMAIN inbox : box[j] = inbox[j]
      /\ box[Len(inbox) + 1] = s
  BY DEF TypeOK
<1>2. \A j \in DOMAIN box : box[j].kind = "release" => j \in DOMAIN inbox /\ box[j] = inbox[j]
  BY <1>1
<1> QED  BY <1>2 DEF Accounted, OwedIn, OnceIn

\* Forgetting grants that were sent disturbs nothing else.
LEMMA DropAccounted ==
  ASSUME TypeOK, Accounted(locks, inbox), NEW c \in Clients, NEW n \in 0..Len(grants[c]),
         grants' = [grants EXCEPT ![c] = SubSeq(@, n + 1, Len(@))],
         UNCHANGED <<locks, inbox>>,
         \/ UNCHANGED <<held, phase>>
         \/ held' = [held EXCEPT ![c] = None] /\ phase' = [phase EXCEPT ![c] = "closed"],
         ConstantsOK
  PROVE  OneTokenPerLock'
<1> USE DEF TypeOK
<1>1. /\ grants'[c] = SubSeq(grants[c], n + 1, Len(grants[c]))
      /\ grants[c] \in Seq(Resources)
      /\ \A d \in Clients \ {c} : grants'[d] = grants[d]
  OBVIOUS
<1>2. /\ DOMAIN grants'[c] = 1..(Len(grants[c]) - n)
      /\ \A k \in DOMAIN grants'[c] : n + k \in DOMAIN grants[c]
                                     /\ grants'[c][k] = grants[c][n + k]
  BY <1>1, SuffixElements
<1>3. \A d \in Clients : held'[d] = held[d] \/ held'[d] = None
  OBVIOUS
<1>4. HeldIn(locks)'
  BY DEF Accounted, HeldIn
<1>5. GrantedIn(locks)'
  <2> SUFFICES ASSUME NEW d \in Clients, NEW i \in DOMAIN grants'[d]
               PROVE  /\ locks[grants'[d][i]] = d
                      /\ grants'[d][i] # held'[d]
                      /\ \A j \in DOMAIN grants'[d] : grants'[d][i] = grants'[d][j] => i = j
    BY DEF GrantedIn
  <2>1. CASE d # c
    <3>1. grants'[d] = grants[d] /\ grants[d][i] \in Resources
      BY <2>1, <1>1
    <3>2. None \notin Resources
      BY DEF ConstantsOK
    <3> QED  BY <3>1, <3>2, <1>3 DEF Accounted, GrantedIn
  <2>2. CASE d = c
    <3>1. i \in DOMAIN grants'[c] /\ n + i \in DOMAIN grants[c]
      BY <2>2, <1>2
    <3>2. grants'[c][i] = grants[c][n + i] /\ grants[c][n + i] \in Resources
      BY <3>1, <1>1, <1>2
    <3>3. locks[grants[c][n + i]] = c /\ grants[c][n + i] # held[c]
      BY <3>1 DEF Accounted, GrantedIn
    <3>4. None \notin Resources
      BY DEF ConstantsOK
    <3>5. \A j \in DOMAIN grants'[c] : grants'[c][i] = grants'[c][j] => i = j
      <4> SUFFICES ASSUME NEW j \in DOMAIN grants'[c], grants'[c][i] = grants'[c][j]
                   PROVE  i = j
        OBVIOUS
      <4>1. n + j \in DOMAIN grants[c] /\ grants'[c][j] = grants[c][n + j]
        BY <1>2
      <4>2. \A a, b \in DOMAIN grants[c] : grants[c][a] = grants[c][b] => a = b
        BY DEF Accounted, GrantedIn
      <4>3. grants[c][n + i] = grants[c][n + j]
        BY <3>2, <4>1
      <4>4. n + i = n + j
        BY <3>1, <4>1, <4>2, <4>3, Zenon
      <4>5. i \in Nat /\ j \in Nat /\ n \in Nat
        <5>1. Len(grants[c]) \in Nat
          BY <1>1
        <5> HIDE DEF TypeOK
        <5> QED  BY <5>1, <1>2, <3>1
      <4> QED  BY <4>4, <4>5
    <3> QED  BY <2>2, <3>2, <3>3, <3>4, <3>5, <1>3
  <2> QED  BY <2>1, <2>2
<1>6. OwedIn(locks, inbox)'
  <2> SUFFICES ASSUME NEW i \in DOMAIN inbox, inbox[i].kind = "release"
               PROVE  OwedBy(locks, inbox[i].req)'
    BY DEF OwedIn
  <2> DEFINE d == inbox[i].req.requester
             s == inbox[i].req.resource
  <2>1. /\ d \in Clients /\ s \in Resources /\ locks[s] = d /\ held[d] # s
        /\ \A k \in DOMAIN grants[d] : grants[d][k] # s
    BY DEF Accounted, OwedIn, OwedBy
  <2>2. None \notin Resources
    BY DEF ConstantsOK
  <2> HIDE DEF d, s
  <2>3. \A k \in DOMAIN grants'[d] : grants'[d][k] # s
    BY <2>1, <1>1, <1>2
  <2>4. held'[d] # s
    BY <2>1, <2>2, <1>3
  <2> QED  BY <2>1, <2>3, <2>4 DEF OwedBy, d, s
<1>7. OnceIn(inbox)'
  BY DEF Accounted, OnceIn
<1> QED  BY <1>4, <1>5, <1>6, <1>7, AccountedNext DEF Accounted
\* Receiving a grant turns it into a running step.
LEMMA AcquiredAccounted ==
  ASSUME TypeOK, ConstantsOK, Accounted(locks, inbox), NEW c \in Clients, Acquired(c)
  PROVE  OneTokenPerLock'
<1> USE DEF TypeOK
<1> DEFINE r == grants[c][1]
<1>1. /\ phase[c] = "waiting" /\ grants[c] \in Seq(Resources) /\ Len(grants[c]) \in Nat \ {0}
      /\ 1 \in DOMAIN grants[c] /\ r \in Resources /\ r # None
      /\ held' = [held EXCEPT ![c] = r] /\ phase' = [phase EXCEPT ![c] = "running"]
      /\ grants'[c] = Tail(grants[c])
      /\ \A d \in Clients \ {c} : grants'[d] = grants[d]
      /\ locks' = locks /\ inbox' = inbox
  BY DEF Acquired, ConstantsOK, manager
<1>2. /\ DOMAIN grants'[c] = 1..(Len(grants[c]) - 1)
      /\ \A k \in DOMAIN grants'[c] : /\ k \in Nat \ {0} /\ k + 1 \in DOMAIN grants[c]
                                     /\ grants'[c][k] = grants[c][k + 1]
  BY <1>1
<1>3. locks[r] = c
  BY <1>1 DEF Accounted, GrantedIn
<1> HIDE DEF r
<1>4. HeldIn(locks)'
  BY <1>1, <1>3 DEF Accounted, HeldIn
<1>5. \A k \in DOMAIN grants'[c] : grants'[c][k] # r
  <2> TAKE k \in DOMAIN grants'[c]
  <2>1. k + 1 \in DOMAIN grants[c] /\ k + 1 # 1
    BY <1>2
  <2>2. grants[c][k + 1] # grants[c][1]
    BY <2>1, <1>1 DEF Accounted, GrantedIn
  <2> QED  BY <2>2, <1>2 DEF r
<1>6. GrantedIn(locks)'
  <2> SUFFICES ASSUME NEW d \in Clients, NEW i \in DOMAIN grants'[d]
               PROVE  /\ locks[grants'[d][i]] = d
                      /\ grants'[d][i] # held'[d]
                      /\ \A j \in DOMAIN grants'[d] : grants'[d][i] = grants'[d][j] => i = j
    BY <1>1 DEF GrantedIn
  <2>1. CASE d # c
    BY <2>1, <1>1 DEF Accounted, GrantedIn
  <2>2. CASE d = c
    <3>1. i \in DOMAIN grants'[c] /\ i + 1 \in DOMAIN grants[c] /\ i \in Nat
          /\ grants'[c][i] = grants[c][i + 1]
      BY <2>2, <1>2
    <3>2. locks[grants[c][i + 1]] = c
      BY <3>1 DEF Accounted, GrantedIn
    <3>3. \A j \in DOMAIN grants'[c] : grants'[c][i] = grants'[c][j] => i = j
      <4> SUFFICES ASSUME NEW j \in DOMAIN grants'[c], grants'[c][i] = grants'[c][j]
                   PROVE  i = j
        OBVIOUS
      <4>1. j + 1 \in DOMAIN grants[c] /\ grants'[c][j] = grants[c][j + 1] /\ j \in Nat
        BY <1>2
      <4>2. i + 1 = j + 1
        BY <4>1, <3>1 DEF Accounted, GrantedIn
      <4> QED  BY <4>1, <4>2, <3>1
    <3> QED  BY <2>2, <3>1, <3>2, <3>3, <1>1, <1>5
  <2> QED  BY <2>1, <2>2
<1>7. OwedIn(locks, inbox)'
  <2> SUFFICES ASSUME NEW i \in DOMAIN inbox, inbox[i].kind = "release"
               PROVE  OwedBy(locks, inbox[i].req)'
    BY <1>1 DEF OwedIn
  <2> DEFINE d == inbox[i].req.requester
             s == inbox[i].req.resource
  <2>1. /\ d \in Clients /\ s \in Resources /\ locks[s] = d /\ held[d] # s
        /\ \A k \in DOMAIN grants[d] : grants[d][k] # s
    BY DEF Accounted, OwedIn, OwedBy
  <2> HIDE DEF d, s
  <2>2. \A k \in DOMAIN grants'[d] : grants'[d][k] # s
    <3>1. CASE d # c
      BY <3>1, <2>1, <1>1
    <3>2. CASE d = c
      BY <3>2, <2>1, <1>2
    <3> QED  BY <3>1, <3>2
  <2>3. held'[d] # s
    BY <2>1, <1>1 DEF r
  <2> QED  BY <2>1, <2>2, <2>3, <1>1 DEF OwedBy, d, s
<1>8. OnceIn(inbox)'
  BY <1>1 DEF Accounted, OnceIn
<1> QED  BY <1>4, <1>6, <1>7, <1>8, AccountedNext DEF Accounted

\* Ending a step turns it into a release on its way, or into nothing.
LEMMA FinishAccounted ==
  ASSUME TypeOK, ConstantsOK, Accounted(locks, inbox), NEW c \in Clients, FinishStep(c)
  PROVE  OneTokenPerLock'
<1> USE DEF TypeOK
<1> DEFINE r == held[c]
<1>1. /\ phase[c] = "running" /\ held' = [held EXCEPT ![c] = None]
      /\ phase' = [phase EXCEPT ![c] = "ready"]
      /\ locks' = locks /\ grants' = grants /\ None \notin Resources
      /\ \/ inbox' = inbox
         \/ inbox' = Append(inbox, [kind |-> "release", req |-> RequestOf(c, r, None)])
  BY DEF FinishStep, SendOrLose, manager, ConstantsOK
<1>2. r \in Resources /\ locks[r] = c
  BY <1>1 DEF Accounted, HeldIn
<1> HIDE DEF r
<1>3. HeldIn(locks)'
  BY <1>1 DEF Accounted, HeldIn
<1>4. GrantedIn(locks)'
  <2> SUFFICES ASSUME NEW d \in Clients, NEW i \in DOMAIN grants[d]
               PROVE  /\ locks[grants[d][i]] = d
                      /\ grants[d][i] # held'[d]
                      /\ \A j \in DOMAIN grants[d] : grants[d][i] = grants[d][j] => i = j
    BY <1>1 DEF GrantedIn
  <2>1. grants[d][i] \in Resources
    OBVIOUS
  <2> QED  BY <2>1, <1>1 DEF Accounted, GrantedIn
<1>5. \A req : OwedBy(locks, req) => OwedBy(locks, req)' /\ req.resource # r
  <2> SUFFICES ASSUME NEW req, OwedBy(locks, req)
               PROVE  OwedBy(locks, req)' /\ req.resource # r
    OBVIOUS
  <2>1. OwedBy(locks, req)'
    BY <1>1 DEF OwedBy
  <2>2. req.resource # r
    BY <1>2 DEF OwedBy, r
  <2> QED  BY <2>1, <2>2
<1>6. CASE inbox' = inbox
  <2>1. OwedIn(locks, inbox)' /\ OnceIn(inbox)'
    BY <1>5, <1>6 DEF Accounted, OwedIn, OnceIn
  <2> QED  BY <2>1, <1>3, <1>4, AccountedNext DEF Accounted
<1>7. CASE inbox' = Append(inbox, [kind |-> "release", req |-> RequestOf(c, r, None)])
  <2> DEFINE n == Len(inbox) + 1
  <2>1. /\ DOMAIN inbox' = 1..n /\ DOMAIN inbox = 1..(n - 1) /\ n \in Nat \ {0}
        /\ \A j \in DOMAIN inbox : inbox'[j] = inbox[j]
        /\ inbox'[n] = [kind |-> "release", req |-> RequestOf(c, r, None)]
    BY <1>7
  <2>2. /\ inbox'[n].req.requester = c /\ inbox'[n].req.resource = r
    BY <2>1 DEF RequestOf
  <2> HIDE DEF n
  <2>3. ASSUME NEW req, req.requester = c, req.resource = r
        PROVE  OwedBy(locks, req)'
    <3>1. held'[c] # r
      BY <1>1, <1>2
    <3>2. \A k \in DOMAIN grants[c] : grants[c][k] # r
      BY DEF Accounted, GrantedIn, r
    <3> QED  BY <3>1, <3>2, <2>3, <1>1, <1>2 DEF OwedBy
  <2>4. \A j \in DOMAIN inbox : inbox[j].kind = "release" => inbox[j].req.resource # r
    BY <1>5 DEF Accounted, OwedIn
  <2>5. \A j \in DOMAIN inbox' : j = n \/ (j \in DOMAIN inbox /\ inbox'[j] = inbox[j])
    BY <2>1
  <2>6. OwedIn(locks, inbox)'
    <3> SUFFICES ASSUME NEW j \in DOMAIN inbox', inbox'[j].kind = "release"
                 PROVE  OwedBy(locks, inbox[j].req)'
      BY DEF OwedIn
    <3>1. CASE j = n
      BY <3>1, <2>2, <2>3
    <3>2. CASE j \in DOMAIN inbox /\ inbox'[j] = inbox[j]
      BY <3>2, <1>5 DEF Accounted, OwedIn
    <3> QED  BY <3>1, <3>2, <2>5
  <2>7. OnceIn(inbox)'
    BY <2>2, <2>4, <2>5 DEF Accounted, OnceIn
  <2> QED  BY <2>6, <2>7, <1>3, <1>4, AccountedNext DEF Accounted
<1> QED  BY <1>1, <1>6, <1>7
LEMMA TokenStep == ConstantsOK /\ TypeOK /\ OneTokenPerLock /\ [CoreNext]_vars => OneTokenPerLock'
<1> SUFFICES ASSUME ConstantsOK, TypeOK, Accounted(locks, inbox), [CoreNext]_vars
             PROVE  OneTokenPerLock'
  BY AccountedNow
<1>0. /\ inbox \in Seq(Signal) /\ queue \in Seq(Queued) /\ None \notin Resources
      /\ locks \in [Resources -> Clients \cup {None}] /\ grants \in [Clients -> Seq(Resources)]
  BY DEF TypeOK, ConstantsOK
<1>1. ASSUME NEW i \in DOMAIN inbox, HandleAcquire(i)
      PROVE  OneTokenPerLock'
  <2>1. inbox' = RemoveAt(inbox, i) /\ Accounted(locks, RemoveAt(inbox, i)) /\ UNCHANGED client
    BY <1>0, <1>1, AccountedRest DEF HandleAcquire, Consume
  <2>2. ASSUME NEW r \in Available(locks, inbox[i].req),
               GrantFrom(locks, r, inbox[i].req.requester)
        PROVE  OneTokenPerLock'
    <3>1. r \in Resources
      BY OffersAreResources
    <3>2. locks[r] = None
      BY OffersAreFree
    <3>3. inbox[i] \in Signal
      BY <1>0
    <3>4. inbox[i].req.requester \in Clients
      BY <1>1, <3>3, SignalTypes DEF HandleAcquire, Queued
    <3> QED  BY <1>0, <2>1, <2>2, <3>1, <3>2, <3>4, GrantAccounted
  <2>3. CASE UNCHANGED <<locks, grants>>
    BY <2>1, <2>3, AccountedNext DEF client, Accounted, HeldIn, GrantedIn, OwedIn, OwedBy, OnceIn
  <2> QED  BY <1>1, <2>2, <2>3 DEF HandleAcquire
<1>2. ASSUME NEW i \in DOMAIN inbox, HandleRelease(i)
      PROVE  OneTokenPerLock'
  <2> DEFINE s == inbox[i].req.resource
             freed == [r \in Resources |-> IF r = s THEN None ELSE locks[r]]
             box == RemoveAt(inbox, i)
  <2>1. inbox' = box /\ UNCHANGED client /\ inbox[i].kind = "release"
    BY <1>2 DEF HandleRelease, Consume
  <2>2. Accounted(freed, box)
    BY <2>1, FreeAccounted
  <2>3. s \in Resources /\ s # None
    BY <2>1, <1>0 DEF Accounted, OwedIn, OwedBy
  <2>4. ReleaseTargets(inbox[i].req) = {s}
    BY <2>3 DEF ReleaseTargets
  <2>5. \/ \E k \in DOMAIN queue :
             \E r \in Served(queue[k], freed, s) : GrantFrom(freed, r, queue[k].requester)
        \/ locks' = freed /\ UNCHANGED grants
    BY <1>2, <2>4 DEF HandleRelease
  <2>6. freed \in [Resources -> Clients \cup {None}] /\ freed[s] = None
    BY <1>0, <2>3
  <2> HIDE DEF s, freed, box
  <2>7. ASSUME NEW k \in DOMAIN queue, NEW r \in Served(queue[k], freed, s),
               GrantFrom(freed, r, queue[k].requester)
        PROVE  OneTokenPerLock'
    <3>1. r \in Resources
      BY OffersAreResources
    <3>2. freed[r] = None
      BY <2>6, OffersAreFree
    <3>3. queue[k] \in Queued
      BY <1>0
    <3>4. queue[k].requester \in Clients
      BY <3>3 DEF Queued
    <3> QED  BY <2>1, <2>2, <2>6, <2>7, <3>1, <3>2, <3>4, GrantAccounted
  <2>8. CASE locks' = freed /\ UNCHANGED grants
    BY <2>1, <2>2, <2>8, AccountedNext DEF client, Accounted, HeldIn, GrantedIn, OwedIn, OwedBy, OnceIn
  <2> QED  BY <2>5, <2>7, <2>8
<1>3. ASSUME NEW i \in DOMAIN inbox, HandleRegister(i)
      PROVE  OneTokenPerLock'
  <2>1. inbox' = RemoveAt(inbox, i) /\ Accounted(locks, RemoveAt(inbox, i))
        /\ UNCHANGED <<locks, grants, client>>
    BY <1>0, <1>3, AccountedRest DEF HandleRegister, Consume
  <2> QED  BY <2>1, AccountedNext DEF client, Accounted, HeldIn, GrantedIn, OwedIn, OwedBy, OnceIn
<1>4. ASSUME NEW c \in Clients, Acquire(c)
      PROVE  OneTokenPerLock'
  <2> DEFINE sig == [kind |-> "acquire", req |-> RequestOf(c, Script[c][step[c]].resource,
                                                             Script[c][step[c]].pool)]
  <2>1. /\ UNCHANGED <<locks, grants, held>>
        /\ phase[c] = "ready" /\ phase' = [phase EXCEPT ![c] = "waiting"]
        /\ inbox' = Append(inbox, sig) \/ inbox' = inbox
    BY <1>4 DEF Acquire, SendOrLose, manager
  <2>2. sig \in Signal
    <3>1. step[c] \in 1..Len(Script[c])
      BY <1>4 DEF Acquire, HasStep, ConstantsOK, TypeOK
    <3> QED  BY <3>1, RequestTypes DEF Signal
  <2>3. Accounted(locks, inbox')
    <3>1. sig.kind # "release"
      OBVIOUS
    <3> HIDE DEF sig
    <3> QED  BY <2>1, <2>2, <3>1, SendAccounted
  <2>4. HeldIn(locks)'
    BY <2>1 DEF Accounted, HeldIn, TypeOK
  <2>5. GrantedIn(locks)' /\ OwedIn(locks, inbox)' /\ OnceIn(inbox)'
    BY <2>1, <2>3 DEF Accounted, GrantedIn, OwedIn, OwedBy, OnceIn
  <2> QED  BY <2>4, <2>5, AccountedNext DEF Accounted
<1>5. ASSUME NEW c \in Clients, Acquired(c)
      PROVE  OneTokenPerLock'
  BY <1>5, AcquiredAccounted
<1>6. ASSUME NEW c \in Clients, AcquireTimeout(c) \/ Rerun(c)
      PROVE  OneTokenPerLock'
  <2>1. /\ UNCHANGED <<locks, inbox, grants, held>>
        /\ phase[c] \in {"waiting", "closed"} /\ phase' = [phase EXCEPT ![c] = "ready"]
    BY <1>6 DEF AcquireTimeout, Rerun, manager
  <2>2. HeldIn(locks)'
    BY <2>1 DEF Accounted, HeldIn, TypeOK
  <2>3. GrantedIn(locks)' /\ OwedIn(locks, inbox)' /\ OnceIn(inbox)'
    BY <2>1 DEF Accounted, GrantedIn, OwedIn, OwedBy, OnceIn
  <2> QED  BY <2>2, <2>3, AccountedNext DEF Accounted
<1>7. ASSUME NEW c \in Clients, FinishStep(c)
      PROVE  OneTokenPerLock'
  BY <1>7, FinishAccounted
<1>8. ASSUME NEW c \in Clients, Close(c) \/ Terminate(c)
      PROVE  OneTokenPerLock'
  <2>1. CloseRun(c)
    BY <1>8 DEF Close, Terminate
  <2> QED  BY <2>1, DropAccounted DEF CloseRun, manager
<1>9. ASSUME NEW c \in Clients, GrantFails(c)
      PROVE  OneTokenPerLock'
  <2>1. /\ grants[c] \in Seq(Resources) /\ grants[c] # <<>>
        /\ grants' = [grants EXCEPT ![c] = Tail(@)] /\ UNCHANGED <<locks, inbox, held, phase>>
    BY <1>0, <1>9 DEF GrantFails, manager, client
  <2>2. Tail(grants[c]) = SubSeq(grants[c], 1 + 1, Len(grants[c])) /\ 1 \in 0..Len(grants[c])
    BY <2>1
  <2> QED  BY <2>1, <2>2, DropAccounted
<1>10. ASSUME NEW def \in PoolDefs, RegisterPool(def)
       PROVE  OneTokenPerLock'
  <2> DEFINE sig == [kind |-> "register", def |-> def]
  <2>1. sig \in Signal /\ sig.kind # "release"
    BY DEF Signal, ConstantsOK
  <2>2. inbox' = Append(inbox, sig) /\ UNCHANGED <<locks, grants, held, phase>>
    BY <1>10 DEF RegisterPool, manager, client
  <2> HIDE DEF sig
  <2>3. Accounted(locks, inbox')
    BY <2>1, <2>2, SendAccounted
  <2>4. HeldIn(locks)' /\ GrantedIn(locks)'
    BY <2>2 DEF Accounted, HeldIn, GrantedIn
  <2>5. OwedIn(locks, inbox)' /\ OnceIn(inbox)'
    BY <2>2, <2>3 DEF Accounted, OwedIn, OwedBy, OnceIn
  <2> QED  BY <2>4, <2>5, AccountedNext DEF Accounted
<1>11. CASE UNCHANGED vars
  BY <1>11, AccountedNext DEF vars, Accounted, HeldIn, GrantedIn, OwedIn, OwedBy, OnceIn
<1> QED
  BY <1>1, <1>2, <1>3, <1>4, <1>5, <1>6, <1>7, <1>8, <1>9, <1>10, <1>11
  DEF CoreNext, HandleSignal, Pipeline

----------------------------------------------------------------------------
(* What holds without operators' interference *)

\* As long as nobody forces a release and the manager is not continued as new,
\* timeouts, lost signals, terminated and repeated runs and pools registered
\* at any time leave every hold of a resource accounted for exactly once.
THEOREM TokensCorrect == CoreSpec => [](TypeOK /\ OneTokenPerLock)
<1>1. Init => TypeOK
  BY ConstantsOK DEF Init, TypeOK, Phases, ConstantsOK
<1>2. Init => OneTokenPerLock
  BY DEF Init, OneTokenPerLock, HeldIsRecorded, GrantIsRecorded, ReleaseIsOwed
<1>3. [CoreNext]_vars => [Next]_vars
  BY DEF Next
<1> QED  BY <1>1, <1>2, <1>3, TypeStep, TokenStep, ConstantsOK, PTL DEF CoreSpec

\* Under the same conditions no two pipelines run under one resource.
THEOREM Mutex == CoreSpec => []MutualExclusion
<1>1. OneTokenPerLock => MutualExclusion
  BY DEF OneTokenPerLock, HeldIsRecorded, MutualExclusion
<1> QED  BY <1>1, TokensCorrect, PTL

\* Under the same conditions a release frees a lock of its sender: though the
\* handler does not compare, nobody's lock is taken away.
THEOREM OwnReleases == CoreSpec => ReleasesOnlyOwnLock
<1> DEFINE Own == \A i \in DOMAIN inbox :
                    HandleRelease(i) /\ inbox[i].req.requester # Admin =>
                      \A r \in Resources : locks[r] \notin {None, inbox[i].req.requester}
                                            => locks'[r] = locks[r]
<1>1. ConstantsOK /\ TypeOK /\ OneTokenPerLock => Own
  <2> SUFFICES ASSUME ConstantsOK, TypeOK, OneTokenPerLock,
                      NEW i \in DOMAIN inbox, HandleRelease(i),
                      NEW r \in Resources, locks[r] \notin {None, inbox[i].req.requester}
               PROVE  locks'[r] = locks[r]
    OBVIOUS
  <2> DEFINE s == inbox[i].req.resource
             freed == [q \in Resources |-> IF q = s THEN None ELSE locks[q]]
  <2>1. s \in Resources /\ locks[s] = inbox[i].req.requester
    BY DEF HandleRelease, OneTokenPerLock, ReleaseIsOwed
  <2>2. ReleaseTargets(inbox[i].req) = {s}
    BY <2>1 DEF ReleaseTargets, ConstantsOK
  <2>3. \/ \E k \in DOMAIN queue :
             \E q \in Served(queue[k], freed, s) : GrantFrom(freed, q, queue[k].requester)
        \/ locks' = freed
    BY <2>2 DEF HandleRelease
  <2>4. freed[r] = locks[r] /\ freed[s] = None
    BY <2>1
  <2> HIDE DEF freed, s
  <2>5. ASSUME NEW k \in DOMAIN queue, NEW q \in Served(queue[k], freed, s),
               GrantFrom(freed, q, queue[k].requester)
        PROVE  locks'[r] = locks[r]
    <3>1. freed[q] = None
      BY <2>4, OffersAreFree
    <3>2. q # r
      BY <3>1, <2>4
    <3>3. locks' = [freed EXCEPT ![q] = queue[k].requester] /\ DOMAIN freed = Resources
      BY <2>5 DEF GrantFrom, freed
    <3> QED  BY <2>4, <3>2, <3>3
  <2> QED  BY <2>3, <2>4, <2>5
<1> QED  BY <1>1, TokensCorrect, ConstantsOK, PTL DEF ReleasesOnlyOwnLock

\* To its users the manager is the lock service of ExclusiveUse: every step
\* begins or ends one exclusive use, or does not concern them.
THEOREM LockServiceCorrect == CoreSpec => IsLockService
<1>1. Init => Promise!Init
  BY DEF Init, Promise!Init, inUse
<1>2. ConstantsOK /\ TypeOK /\ OneTokenPerLock /\ [CoreNext]_vars => [Promise!Next]_inUse
  <2> SUFFICES ASSUME ConstantsOK, TypeOK, OneTokenPerLock, [CoreNext]_vars
               PROVE  Promise!Next \/ UNCHANGED inUse
    OBVIOUS
  <2>1. ASSUME UNCHANGED held
        PROVE  UNCHANGED inUse
    BY <2>1 DEF inUse
  <2>2. ASSUME NEW c \in Clients, Acquired(c)
        PROVE  Promise!Next
    <3> DEFINE r == grants[c][1]
    <3>1. /\ grants[c] \in Seq(Resources) /\ 1 \in DOMAIN grants[c] /\ r \in Resources /\ r # None
          /\ held' = [held EXCEPT ![c] = r] /\ phase[c] = "waiting"
      BY <2>2 DEF Acquired, TypeOK, ConstantsOK
    <3>2. locks[r] = c /\ held[c] = None
      BY <3>1 DEF OneTokenPerLock, GrantIsRecorded, HeldIsRecorded
    <3> HIDE DEF r
    <3>3. \A d \in Clients : held[d] # r
      BY <3>1, <3>2 DEF OneTokenPerLock, HeldIsRecorded
    <3>4. inUse' = inUse \cup {<<c, r>>}
      BY <3>1, <3>2 DEF inUse, TypeOK
    <3>5. Promise!Begin(c, r)
      BY <3>2, <3>3, <3>4, <3>1 DEF Promise!Begin, inUse
    <3> QED  BY <3>1, <3>5 DEF Promise!Next
  <2>3. ASSUME NEW c \in Clients, held' = [held EXCEPT ![c] = None]
        PROVE  Promise!Next \/ UNCHANGED inUse
    <3>1. CASE held[c] = None
      BY <2>3, <3>1 DEF inUse, TypeOK
    <3>2. CASE held[c] # None
      <4>1. held[c] \in Resources
        BY <3>2 DEF TypeOK
      <4>2. <<c, held[c]>> \in inUse
        BY <3>2 DEF inUse
      <4>3. inUse' = inUse \ {<<c, held[c]>>}
        BY <2>3, <3>2 DEF inUse, TypeOK
      <4> QED  BY <4>1, <4>2, <4>3 DEF Promise!Next, Promise!End
    <3> QED  BY <3>1, <3>2
  <2>4. CASE CoreNext
    <3>1. ASSUME NEW i \in DOMAIN inbox, HandleAcquire(i) \/ HandleRelease(i) \/ HandleRegister(i)
          PROVE  UNCHANGED held
      BY <3>1 DEF HandleAcquire, HandleRelease, HandleRegister, client
    <3>2. ASSUME NEW c \in Clients, Acquire(c) \/ AcquireTimeout(c) \/ Rerun(c) \/ GrantFails(c)
          PROVE  UNCHANGED held
      BY <3>2 DEF Acquire, AcquireTimeout, Rerun, GrantFails, client
    <3>3. ASSUME NEW c \in Clients, FinishStep(c) \/ Close(c) \/ Terminate(c)
          PROVE  held' = [held EXCEPT ![c] = None]
      BY <3>3 DEF FinishStep, Close, Terminate, CloseRun
    <3>4. ASSUME NEW def \in PoolDefs, RegisterPool(def)
          PROVE  UNCHANGED held
      BY <3>4 DEF RegisterPool, client
    <3> QED
      BY <2>1, <2>2, <2>3, <2>4, <3>1, <3>2, <3>3, <3>4 DEF CoreNext, HandleSignal, Pipeline
  <2>5. CASE UNCHANGED vars
    BY <2>5, <2>1 DEF vars
  <2> QED  BY <2>4, <2>5
<1> QED
  BY <1>1, <1>2, TokensCorrect, ConstantsOK, PTL DEF CoreSpec, IsLockService, Promise!Spec

----------------------------------------------------------------------------
(* Who asks is served: the inductive invariant *)

Registered == \A def \in PoolDefs : pools[def.label] = def.resources

Unasked ==
  /\ queue = <<>>
  /\ \A i \in DOMAIN inbox : inbox[i].kind # "acquire"
  /\ \A c \in Clients : grants[c] = <<>> /\ phase[c] \in {"ready", "closed"}

\* Nobody has asked for anything before the pools were registered, and what is
\* registered later is the same.
PoolsSettled ==
  /\ \A i \in DOMAIN inbox : inbox[i].kind = "register" => inbox[i].def \in PoolDefs
  /\ Registered \/ Unasked

\* Neither timeouts nor reruns.
Patient == budget["timeout"] = 0 /\ budget["rerun"] = 0

Wanted(c) == Script[c][step[c]]

Fits(c, r) ==
  IF Wanted(c).pool # None THEN r \in ToSet(pools[Wanted(c).pool]) ELSE r = Wanted(c).resource

Waits(c) == phase[c] = "waiting" /\ HasStep(c)

\* A request is the one its client waits for, and a grant an answer to it,
\* unless the client has been terminated.
Current(req) ==
  LET c == req.requester IN
  phase[c] # "closed" =>
    Waits(c) /\ req = RequestOf(c, Wanted(c).resource, Wanted(c).pool)

Answers(c, r) == phase[c] # "closed" => Waits(c) /\ Fits(c, r)

AllCurrent(box, q, gr) ==
  /\ \A i \in DOMAIN box : box[i].kind = "acquire" => Current(box[i].req)
  /\ \A k \in DOMAIN q : Current(q[k])
  /\ \A c \in Clients : \A n \in DOMAIN gr[c] : Answers(c, gr[c][n])

AsksOf(c, box) == {i \in DOMAIN box : box[i].kind = "acquire" /\ box[i].req.requester = c}
WaitsOf(c, q)  == {k \in DOMAIN q : q[k].requester = c}

\* A client has one request with the manager, or one grant on its way.
AskedOnce(box, q, gr) ==
  \A c \in Clients :
    /\ \A i, j \in AsksOf(c, box) : i = j
    /\ \A k, l \in WaitsOf(c, q) : k = l
    /\ gr[c] # <<>> => Len(gr[c]) = 1 /\ WaitsOf(c, q) = {}
    /\ AsksOf(c, box) # {} => gr[c] = <<>> /\ WaitsOf(c, q) = {}

AsksWell(box, q, gr) == AllCurrent(box, q, gr) /\ AskedOnce(box, q, gr)

WaitInv  == TypeOK /\ PoolsSettled /\ NoIdleWaiter
ServeInv ==
  WaitInv /\ Patient /\ AsksWell(inbox, queue, grants) /\ HoldsWhatItAskedFor

----------------------------------------------------------------------------
(* What the manager offers *)

LEMMA LessOnNaturals ==
  \E R : IsWellFoundedOn(R, Nat) /\ \A x, y \in Nat : x < y => <<x, y>> \in R
<1>1. IsWellFoundedOn(OpToRel(<, Nat), Nat)
  BY NatLessThanWellFounded, Zenon
<1>2. \A x, y \in Nat : x < y => <<x, y>> \in OpToRel(<, Nat)
  BY DEF OpToRel
<1> QED  BY <1>1, <1>2, Zenon

\* A set of numbers has a least one.
LEMMA Least ==
  ASSUME NEW T, T \subseteq Nat, T # {}
  PROVE  \E x \in T : \A y \in T : x <= y
<1>1. PICK R : IsWellFoundedOn(R, Nat) /\ \A x, y \in Nat : x < y => <<x, y>> \in R
  BY LessOnNaturals, Zenon
<1>2. PICK x \in T : \A y \in T : ~ (<<y, x>> \in R)
  BY <1>1, WFMin, ZenonT(60)
<1>3. \A y \in T : ~(y < x)
  BY <1>1, <1>2, Zenon
<1> QED  BY <1>2, <1>3

\* Looking for the first free resource of a pool finds one when there is one.
LEMMA FindsFree ==
  ASSUME NEW label, pools[label] \in Seq(Resources), NEW lk
  PROVE  FirstFree(lk, label) = {} <=> \A i \in DOMAIN pools[label] : lk[pools[label][i]] # None
<1> DEFINE list == pools[label]
           free == {i \in DOMAIN list : lk[list[i]] = None}
<1>1. DOMAIN list = 1..Len(list) /\ Len(list) \in Nat /\ \A i \in DOMAIN list : list[i] \in Resources
  OBVIOUS
<1>2. (\A i \in DOMAIN list : lk[list[i]] # None) => FirstFree(lk, label) = {}
  BY DEF FirstFree
<1>3. ASSUME free # {}
      PROVE  FirstFree(lk, label) # {}
  <2>1. free \subseteq Nat
    BY <1>1
  <2>2. PICK i \in free : \A j \in free : i <= j
    BY <1>3, <2>1, Least
  <2>3. \A j \in 1..(i - 1) : lk[list[j]] # None
    BY <1>1, <2>1, <2>2
  <2>4. list[i] \in FirstFree(lk, label)
    BY <1>1, <2>2, <2>3 DEF FirstFree
  <2> QED  BY <2>4
<1> QED  BY <1>2, <1>3

\* What is not to be had is not to be had when more is held.
LEMMA NothingWhenMoreHeld ==
  ASSUME pools \in [Pools -> Seq(Resources)], NEW req, req.pool \in Pools \cup {None},
         NEW lk, NEW lk2, \A r \in Resources : lk[r] # None => lk2[r] # None,
         Available(lk, req) = {}
  PROVE  Available(lk2, req) = {}
<1>1. CASE req.pool # None
  <2>1. pools[req.pool] \in Seq(Resources)
    BY <1>1
  <2>2. \A i \in DOMAIN pools[req.pool] : pools[req.pool][i] \in Resources
    BY <2>1
  <2>3. FirstFree(lk, req.pool) = {}
    BY <1>1 DEF Available
  <2>4. \A i \in DOMAIN pools[req.pool] : lk[pools[req.pool][i]] # None
    BY <2>1, <2>3, FindsFree
  <2>5. \A i \in DOMAIN pools[req.pool] : lk2[pools[req.pool][i]] # None
    BY <2>2, <2>4
  <2>6. FirstFree(lk2, req.pool) = {}
    BY <2>1, <2>5, FindsFree
  <2> QED  BY <1>1, <2>6 DEF Available
<1>2. CASE req.pool = None
  BY <1>2 DEF Available
<1> QED  BY <1>1, <1>2

\* Removing an element leaves elements of the list, each at one place.
LEMMA RestOf ==
  ASSUME NEW S, NEW s \in Seq(S), NEW i \in DOMAIN s, NEW rest, rest = RemoveAt(s, i)
  PROVE  /\ rest \in Seq(S)
         /\ \A j \in DOMAIN rest : /\ Shift(i, j) \in DOMAIN s /\ Shift(i, j) # i
                                   /\ rest[j] = s[Shift(i, j)]
         /\ \A j, k \in DOMAIN rest : Shift(i, j) = Shift(i, k) => j = k
<1>1. Len(s) \in Nat /\ i \in 1..Len(s) /\ DOMAIN s = 1..Len(s)
  OBVIOUS
<1>2. /\ rest \in Seq(S) /\ Len(rest) = Len(s) - 1
      /\ \A j \in 1..(Len(s) - 1) : rest[j] = IF j < i THEN s[j] ELSE s[j + 1]
  BY RemoveAtElements
<1>3. DOMAIN rest = 1..(Len(s) - 1)
  BY <1>2
<1> QED  BY <1>1, <1>2, <1>3 DEF Shift

\* A free resource that a step of the manager leaves is one nobody waits for:
\* a release is answered with what it has freed.
LEMMA ReleaseServes ==
  ASSUME ConstantsOK, TypeOK, NoIdleWaiter, NEW released,
         NEW freed, freed = [r \in Resources |-> IF r = released THEN None ELSE locks[r]],
         NEW k \in DOMAIN queue, NEW r \in Served(queue[k], freed, released)
  PROVE  r = released /\ r \in Resources
<1>1. queue \in Seq(Queued) /\ pools \in [Pools -> Seq(Resources)]
  BY DEF TypeOK
<1>2. queue[k] \in Queued /\ r \in Resources
  BY <1>1, OffersAreResources
<1>3. CASE queue[k].pool = None
  BY <1>2, <1>3 DEF Served
<1>4. CASE queue[k].pool # None
  <2>1. pools[queue[k].pool] \in Seq(Resources)
    BY <1>1, <1>2, <1>4 DEF Queued
  <2>2. \A i \in DOMAIN pools[queue[k].pool] : locks[pools[queue[k].pool][i]] # None
    BY <1>4, <2>1, FindsFree DEF NoIdleWaiter, Available
  <2>3. freed[r] = None /\ locks[r] # None
    BY <1>2, <1>4, <2>2 DEF Served, FirstFree
  <2> QED  BY <1>2, <2>3
<1> QED  BY <1>2, <1>3, <1>4

----------------------------------------------------------------------------
(* No request waits for what is free *)

LEMMA IdleNext ==
  ASSUME UNCHANGED pools
  PROVE  NoIdleWaiter' <=> \A k \in DOMAIN queue' : Available(locks', queue'[k]) = {}
BY DEF NoIdleWaiter, Available, FirstFree

LEMMA WaitersKept ==
  ASSUME ConstantsOK, TypeOK, NoIdleWaiter, UNCHANGED pools,
         \A r \in Resources : locks[r] # None => locks'[r] # None,
         \A k \in DOMAIN queue' : \E j \in DOMAIN queue : queue'[k] = queue[j]
  PROVE  NoIdleWaiter'
<1> SUFFICES ASSUME NEW k \in DOMAIN queue'
             PROVE  Available(locks', queue'[k]) = {}
  BY IdleNext
<1>1. PICK j \in DOMAIN queue : queue'[k] = queue[j]
  OBVIOUS
<1>2. queue \in Seq(Queued) /\ pools \in [Pools -> Seq(Resources)]
  BY DEF TypeOK
<1>3. queue[j] \in Queued
  BY <1>2
<1>4. queue[j].pool \in Pools \cup {None}
  BY <1>3 DEF Queued
<1>5. Available(locks, queue[j]) = {}
  BY DEF NoIdleWaiter
<1>6. Available(locks', queue[j]) = {}
  BY <1>2, <1>4, <1>5, NothingWhenMoreHeld
<1> QED  BY <1>1, <1>6

LEMMA AcquireWaits ==
  ASSUME ConstantsOK, TypeOK, NoIdleWaiter, NEW i \in DOMAIN inbox, HandleAcquire(i)
  PROVE  NoIdleWaiter'
<1>1. /\ queue \in Seq(Queued) /\ pools \in [Pools -> Seq(Resources)]
      /\ locks \in [Resources -> Clients \cup {None}] /\ inbox \in Seq(Signal)
      /\ None \notin Clients
  BY DEF TypeOK, ConstantsOK
<1>2. inbox[i] \in Signal /\ inbox[i].kind = "acquire"
  BY <1>1 DEF HandleAcquire
<1>3. inbox[i].req \in Queued
  BY <1>2, SignalTypes
<1>4. UNCHANGED pools
  BY DEF HandleAcquire
<1>5. ASSUME NEW r \in Available(locks, inbox[i].req),
             GrantFrom(locks, r, inbox[i].req.requester), UNCHANGED queue
      PROVE  NoIdleWaiter'
  <2>1. inbox[i].req.requester \in Clients
    BY <1>3 DEF Queued
  <2>2. \A q \in Resources : locks[q] # None => locks'[q] # None
    BY <1>1, <1>5, <2>1 DEF GrantFrom
  <2> QED  BY <1>4, <1>5, <2>2, WaitersKept
<1>6. CASE Available(locks, inbox[i].req) = {} /\ queue' = Enqueue(inbox[i].req) /\ UNCHANGED locks
  <2>1. \A k \in DOMAIN queue' : queue'[k] = inbox[i].req \/ \E j \in DOMAIN queue : queue'[k] = queue[j]
    BY <1>1, <1>3, <1>6 DEF Enqueue
  <2>2. \A k \in DOMAIN queue' : Available(locks, queue'[k]) = {}
    BY <1>6, <2>1 DEF NoIdleWaiter
  <2> QED  BY <1>4, <1>6, <2>2, IdleNext
<1> QED  BY <1>5, <1>6 DEF HandleAcquire

LEMMA ReleaseWaits ==
  ASSUME ConstantsOK, TypeOK, NoIdleWaiter, NEW i \in DOMAIN inbox, HandleRelease(i)
  PROVE  NoIdleWaiter'
<1>1. /\ queue \in Seq(Queued) /\ pools \in [Pools -> Seq(Resources)]
      /\ locks \in [Resources -> Clients \cup {None}]
      /\ None \notin Clients \cup Resources
  BY DEF TypeOK, ConstantsOK
<1>2. UNCHANGED pools
  BY DEF HandleRelease
<1>3. PICK released \in ReleaseTargets(inbox[i].req) :
        LET freed == [r \in Resources |-> IF r = released THEN None ELSE locks[r]] IN
        \/ \E k \in DOMAIN queue :
             /\ \E r \in Served(queue[k], freed, released) :
                  GrantFrom(freed, r, queue[k].requester)
             /\ queue' = RemoveAt(queue, k)
        \/ /\ \A k \in DOMAIN queue : Served(queue[k], freed, released) = {}
           /\ locks' = freed /\ UNCHANGED queue
  BY Zenon DEF HandleRelease
<1> DEFINE freed == [r \in Resources |-> IF r = released THEN None ELSE locks[r]]
<1>4. \A r \in Resources : freed[r] = IF r = released THEN None ELSE locks[r]
  OBVIOUS
<1>5. DOMAIN freed = Resources
  OBVIOUS
<1>6. ASSUME NEW k \in DOMAIN queue, NEW r \in Served(queue[k], freed, released),
             GrantFrom(freed, r, queue[k].requester), queue' = RemoveAt(queue, k)
      PROVE  NoIdleWaiter'
  <2>1. r = released /\ r \in Resources
    BY ReleaseServes
  <2>2. queue[k] \in Queued
    BY <1>1
  <2>3. queue[k].requester # None
    BY <1>1, <2>2 DEF Queued
  <2> HIDE DEF freed
  <2>4. locks' = [freed EXCEPT ![r] = queue[k].requester]
    BY <1>6 DEF GrantFrom
  <2>5. \A q \in Resources : locks[q] # None => locks'[q] # None
    BY <1>4, <1>5, <2>1, <2>3, <2>4
  <2>6. \A n \in DOMAIN queue' : \E j \in DOMAIN queue : queue'[n] = queue[j]
    BY <1>1, <1>6, RestOf
  <2> QED  BY <1>2, <2>5, <2>6, WaitersKept
<1>7. CASE /\ \A k \in DOMAIN queue : Served(queue[k], freed, released) = {}
           /\ locks' = freed /\ UNCHANGED queue
  <2> HIDE DEF freed
  <2> SUFFICES ASSUME NEW k \in DOMAIN queue
               PROVE  Available(freed, queue[k]) = {}
    BY <1>2, <1>7, IdleNext
  <2>1. queue[k] \in Queued
    BY <1>1
  <2>2. Served(queue[k], freed, released) = {}
    BY <1>7
  <2>3. CASE queue[k].pool # None
    BY <2>2, <2>3 DEF Served, Available
  <2>4. CASE queue[k].pool = None
    <3>1. \A r \in Resources : r = queue[k].resource => r # released
      BY <2>2, <2>4 DEF Served
    <3>2. \A r \in Resources : r = queue[k].resource => locks[r] # None
      BY <2>4 DEF NoIdleWaiter, Available
    <3>3. \A r \in Resources : r = queue[k].resource => freed[r] # None
      BY <1>4, <3>1, <3>2
    <3> QED  BY <2>4, <3>3 DEF Available
  <2> QED  BY <2>3, <2>4
<1> QED  BY <1>3, <1>6, <1>7

----------------------------------------------------------------------------
(* Pools are registered before anyone asks *)

\* What is registered again is the same.
LEMMA RegisteredAgain ==
  ASSUME TypeOK, ConstantsOK, PoolsSettled, Registered, NEW i \in DOMAIN inbox, HandleRegister(i)
  PROVE  UNCHANGED pools
<1>1. inbox[i].def \in PoolDefs
  BY DEF PoolsSettled, HandleRegister
<1>2. pools[inbox[i].def.label] = inbox[i].def.resources
  BY <1>1 DEF Registered
<1> QED  BY <1>2 DEF HandleRegister, TypeOK

\* Signals sent and handled keep what is in the inbox.
LEMMA InboxStep ==
  ASSUME ConstantsOK, TypeOK, CoreNext,
         NEW P,
         \A i \in DOMAIN inbox : inbox[i] \in P,
         \A def \in PoolDefs : [kind |-> "register", def |-> def] \in P,
         \A req \in Request : [kind |-> "release", req |-> req] \in P,
         \A req \in Queued : [kind |-> "acquire", req |-> req] \in P
  PROVE  \A i \in DOMAIN inbox' : inbox'[i] \in P
<1>1. inbox \in Seq(Signal)
  BY DEF TypeOK
<1>2. ASSUME NEW s \in Signal, s \in P, inbox' = Append(inbox, s)
      PROVE  \A i \in DOMAIN inbox' : inbox'[i] \in P
  BY <1>1, <1>2
<1>3. ASSUME NEW i \in DOMAIN inbox, inbox' = RemoveAt(inbox, i)
      PROVE  \A j \in DOMAIN inbox' : inbox'[j] \in P
  BY <1>1, <1>3, RestOf
<1>4. ASSUME UNCHANGED inbox
      PROVE  \A i \in DOMAIN inbox' : inbox'[i] \in P
  BY <1>4
<1>5. ASSUME NEW i \in DOMAIN inbox, HandleAcquire(i) \/ HandleRelease(i) \/ HandleRegister(i)
      PROVE  inbox' = RemoveAt(inbox, i)
  BY <1>5 DEF HandleAcquire, HandleRelease, HandleRegister, Consume
<1>6. ASSUME NEW c \in Clients, Acquire(c)
      PROVE  \E s \in Signal : s \in P /\ (inbox' = Append(inbox, s) \/ UNCHANGED inbox)
  <2> DEFINE req == RequestOf(c, Script[c][step[c]].resource, Script[c][step[c]].pool)
  <2>1. step[c] \in 1..Len(Script[c])
    BY <1>6 DEF Acquire, HasStep, TypeOK, ConstantsOK
  <2>2. req \in Queued
    BY <2>1, RequestTypes
  <2>3. [kind |-> "acquire", req |-> req] \in Signal
    BY <2>2 DEF Signal
  <2>4. SendOrLose([kind |-> "acquire", req |-> req])
    BY <1>6 DEF Acquire
  <2> HIDE DEF req
  <2> QED  BY <2>2, <2>3, <2>4 DEF SendOrLose
<1>7. ASSUME NEW c \in Clients, FinishStep(c)
      PROVE  \E s \in Signal : s \in P /\ (inbox' = Append(inbox, s) \/ UNCHANGED inbox)
  <2> DEFINE req == RequestOf(c, held[c], None)
  <2>1. req \in Request
    BY RequestTypes DEF TypeOK
  <2>2. [kind |-> "release", req |-> req] \in Signal
    BY <2>1 DEF Signal
  <2>3. SendOrLose([kind |-> "release", req |-> req])
    BY <1>7 DEF FinishStep
  <2> HIDE DEF req
  <2> QED  BY <2>1, <2>2, <2>3 DEF SendOrLose
<1>8. ASSUME NEW c \in Clients, Acquired(c) \/ AcquireTimeout(c) \/ Close(c) \/ Terminate(c)
                                  \/ Rerun(c) \/ GrantFails(c)
      PROVE  UNCHANGED inbox
  BY <1>8 DEF Acquired, AcquireTimeout, Close, Terminate, Rerun, GrantFails, CloseRun
<1>9. ASSUME NEW def \in PoolDefs, RegisterPool(def)
      PROVE  \E s \in Signal : s \in P /\ inbox' = Append(inbox, s)
  <2>1. [kind |-> "register", def |-> def] \in Signal
    BY DEF Signal, ConstantsOK
  <2> QED  BY <1>9, <2>1 DEF RegisterPool
<1> QED
  BY <1>2, <1>3, <1>4, <1>5, <1>6, <1>7, <1>8, <1>9 DEF CoreNext, HandleSignal, Pipeline

LEMMA SettledStep ==
  ConstantsOK /\ TypeOK /\ PoolsSettled /\ [CoreNext /\ PoolsFirst]_vars => PoolsSettled'
<1> SUFFICES ASSUME ConstantsOK, TypeOK, PoolsSettled, CoreNext /\ PoolsFirst
             PROVE  PoolsSettled'
  BY DEF vars, PoolsSettled, Registered, Unasked
<1>1. \A i \in DOMAIN inbox' : inbox'[i].kind = "register" => inbox'[i].def \in PoolDefs
  <2> DEFINE P == {s \in Signal : s.kind = "register" => s.def \in PoolDefs}
  <2>1. \A i \in DOMAIN inbox : inbox[i] \in P
    <3> SUFFICES ASSUME NEW i \in DOMAIN inbox
                 PROVE  inbox[i] \in P
      OBVIOUS
    <3>1. inbox[i] \in Signal
      BY DEF TypeOK
    <3> QED  BY <3>1 DEF PoolsSettled
  <2>2. \A def \in PoolDefs : [kind |-> "register", def |-> def] \in P
    BY DEF Signal, ConstantsOK
  <2>3. \A req \in Request : [kind |-> "release", req |-> req] \in P
    BY DEF Signal
  <2>4. \A req \in Queued : [kind |-> "acquire", req |-> req] \in P
    BY DEF Signal
  <2> HIDE DEF P
  <2>5. \A i \in DOMAIN inbox' : inbox'[i] \in P
    BY <2>1, <2>2, <2>3, <2>4, InboxStep
  <2> QED  BY <2>5 DEF P
<1>2. ASSUME UNCHANGED pools, Registered
      PROVE  PoolsSettled'
  BY <1>1, <1>2 DEF PoolsSettled, Registered
<1>3. ASSUME Unasked'
      PROVE  PoolsSettled'
  BY <1>1, <1>3 DEF PoolsSettled
<1>4. inbox \in Seq(Signal)
  BY DEF TypeOK
<1>5. ASSUME NEW i \in DOMAIN inbox, Unasked, inbox' = RemoveAt(inbox, i)
      PROVE  \A j \in DOMAIN inbox' : inbox'[j].kind # "acquire"
  BY <1>4, <1>5, RestOf DEF Unasked
<1>6. ASSUME NEW i \in DOMAIN inbox, HandleAcquire(i)
      PROVE  PoolsSettled'
  BY <1>2, <1>6 DEF HandleAcquire, PoolsSettled, Unasked
<1>7. ASSUME NEW i \in DOMAIN inbox, HandleRelease(i)
      PROVE  PoolsSettled'
  <2>1. CASE Registered
    BY <1>2, <1>7, <2>1 DEF HandleRelease
  <2>2. CASE Unasked
    <3>1. inbox' = RemoveAt(inbox, i) /\ UNCHANGED phase
      BY <1>7 DEF HandleRelease, Consume, client
    <3>2. DOMAIN queue = {}
      BY <2>2 DEF Unasked
    <3>3. UNCHANGED <<queue, grants>>
      BY <1>7, <3>2, Zenon DEF HandleRelease
    <3> QED  BY <1>3, <1>5, <2>2, <3>1, <3>3 DEF Unasked
  <2> QED  BY <2>1, <2>2 DEF PoolsSettled
<1>8. ASSUME NEW i \in DOMAIN inbox, HandleRegister(i)
      PROVE  PoolsSettled'
  <2>1. CASE Registered
    BY <1>2, <1>8, <2>1, RegisteredAgain
  <2>2. CASE Unasked
    <3>1. inbox' = RemoveAt(inbox, i) /\ UNCHANGED <<phase, queue, grants>>
      BY <1>8 DEF HandleRegister, Consume, client
    <3> QED  BY <1>3, <1>5, <2>2, <3>1 DEF Unasked
  <2> QED  BY <2>1, <2>2 DEF PoolsSettled
<1>9. ASSUME NEW c \in Clients, Acquire(c)
      PROVE  PoolsSettled'
  BY <1>2, <1>9 DEF Acquire, PoolsFirst, Registered, manager
<1>10. ASSUME NEW c \in Clients, Acquired(c) \/ AcquireTimeout(c) \/ FinishStep(c) \/ GrantFails(c)
       PROVE  PoolsSettled'
  <2>1. ~Unasked /\ UNCHANGED pools
    BY <1>10 DEF Unasked, Acquired, AcquireTimeout, FinishStep, GrantFails, manager
  <2> QED  BY <1>2, <2>1 DEF PoolsSettled
<1>11. ASSUME NEW c \in Clients, Close(c) \/ Terminate(c)
       PROVE  PoolsSettled'
  <2>1. CloseRun(c) /\ UNCHANGED <<pools, queue, inbox>>
    BY <1>11 DEF Close, Terminate, CloseRun, manager
  <2>2. CASE Registered
    BY <1>2, <2>1, <2>2
  <2>3. CASE Unasked
    <3>1. grants[c] = <<>> /\ grants \in [Clients -> Seq(Resources)]
      BY <2>3 DEF Unasked, TypeOK
    <3>2. \A n \in 0..Len(grants[c]) : SubSeq(grants[c], n + 1, Len(grants[c])) = <<>>
      BY <3>1
    <3>3. grants' = [grants EXCEPT ![c] = <<>>]
      BY <2>1, <3>2 DEF CloseRun
    <3>4. \A d \in Clients : grants'[d] = <<>>
      BY <2>3, <3>1, <3>3 DEF Unasked
    <3>5. \A d \in Clients : phase'[d] \in {"ready", "closed"}
      BY <2>1, <2>3 DEF CloseRun, Unasked, TypeOK
    <3> QED  BY <1>3, <2>1, <2>3, <3>4, <3>5 DEF Unasked
  <2> QED  BY <2>2, <2>3 DEF PoolsSettled
<1>12. ASSUME NEW c \in Clients, Rerun(c)
       PROVE  PoolsSettled'
  <2>1. phase' = [phase EXCEPT ![c] = "ready"] /\ UNCHANGED <<pools, queue, inbox, grants>>
    BY <1>12 DEF Rerun, manager
  <2>2. CASE Registered
    BY <1>2, <2>1, <2>2
  <2>3. CASE Unasked
    <3>1. \A d \in Clients : phase'[d] \in {"ready", "closed"}
      BY <2>1, <2>3 DEF Unasked, TypeOK
    <3> QED  BY <1>3, <2>1, <2>3, <3>1 DEF Unasked
  <2> QED  BY <2>2, <2>3 DEF PoolsSettled
<1>13. ASSUME NEW def \in PoolDefs, RegisterPool(def)
       PROVE  PoolsSettled'
  <2> DEFINE sig == [kind |-> "register", def |-> def]
  <2>1. UNCHANGED <<pools, queue, grants, phase>> /\ inbox' = Append(inbox, sig)
    BY <1>13 DEF RegisterPool, manager, client
  <2>2. sig \in Signal /\ sig.kind # "acquire"
    BY DEF Signal, ConstantsOK
  <2> HIDE DEF sig
  <2>3. CASE Registered
    BY <1>2, <2>1, <2>3
  <2>4. CASE Unasked
    <3>1. \A i \in DOMAIN inbox' : inbox'[i].kind # "acquire"
      BY <1>4, <2>1, <2>2, <2>4 DEF Unasked
    <3> QED  BY <1>3, <2>1, <2>4, <3>1 DEF Unasked
  <2> QED  BY <2>3, <2>4 DEF PoolsSettled
<1> QED
  BY <1>6, <1>7, <1>8, <1>9, <1>10, <1>11, <1>12, <1>13 DEF CoreNext, HandleSignal, Pipeline

LEMMA WaitStep == ConstantsOK /\ WaitInv /\ [CoreNext /\ PoolsFirst]_vars => WaitInv'
<1> SUFFICES ASSUME ConstantsOK, TypeOK, PoolsSettled, NoIdleWaiter, [CoreNext /\ PoolsFirst]_vars
             PROVE  WaitInv'
  BY DEF WaitInv
<1>1. TypeOK'
  BY TypeStep DEF Next
<1>2. PoolsSettled'
  BY SettledStep
<1>3. ASSUME UNCHANGED <<pools, locks, queue>>
      PROVE  NoIdleWaiter'
  BY <1>3, IdleNext DEF NoIdleWaiter
<1>4. ASSUME NEW i \in DOMAIN inbox, HandleRegister(i)
      PROVE  NoIdleWaiter'
  <2>1. UNCHANGED <<locks, queue>>
    BY <1>4 DEF HandleRegister
  <2>2. CASE Registered
    BY <1>3, <1>4, <2>1, <2>2, RegisteredAgain
  <2>3. CASE Unasked
    <3>1. queue' = <<>>
      BY <2>1, <2>3 DEF Unasked
    <3> QED  BY <3>1 DEF NoIdleWaiter
  <2> QED  BY <2>2, <2>3 DEF PoolsSettled
<1>5. ASSUME NEW c \in Clients, Pipeline(c)
      PROVE  UNCHANGED <<pools, locks, queue>>
  BY <1>5 DEF Pipeline, Acquire, Acquired, AcquireTimeout, FinishStep, Close, Terminate, Rerun,
              GrantFails, CloseRun, manager
<1>6. ASSUME NEW def \in PoolDefs, RegisterPool(def)
      PROVE  UNCHANGED <<pools, locks, queue>>
  BY <1>6 DEF RegisterPool, manager
<1>7. CASE UNCHANGED vars
  BY <1>1, <1>2, <1>3, <1>7 DEF vars, WaitInv
<1>8. CASE CoreNext
  BY <1>1, <1>2, <1>3, <1>4, <1>5, <1>6, <1>8, AcquireWaits, ReleaseWaits
  DEF WaitInv, CoreNext, HandleSignal
<1> QED  BY <1>7, <1>8

LEMMA WaitInit == ConstantsOK /\ Init => WaitInv
<1> SUFFICES ASSUME ConstantsOK, Init
             PROVE  WaitInv
  OBVIOUS
<1>1. TypeOK
  BY DEF Init, TypeOK, Phases, ConstantsOK
<1>2. PoolsSettled
  BY DEF Init, PoolsSettled, Unasked
<1>3. NoIdleWaiter
  BY DEF Init, NoIdleWaiter
<1> QED  BY <1>1, <1>2, <1>3 DEF WaitInv

\* When the pools are registered before pipelines ask, then through timeouts,
\* lost signals, terminations and reruns no request waits while the manager
\* could grant it: every release is answered with what it has freed.
THEOREM NobodyWaitsIdly == PooledSpec => []NoIdleWaiter
<1>1. WaitInv => NoIdleWaiter
  BY DEF WaitInv
<1> QED  BY <1>1, WaitInit, WaitStep, ConstantsOK, PTL DEF PooledSpec

----------------------------------------------------------------------------
(* What a request gets is what its client waits for *)

NoneOf(c, box, q, gr) == AsksOf(c, box) = {} /\ WaitsOf(c, q) = {} /\ gr[c] = <<>>

Boxes  == Seq(Signal)
Queues == Seq(Queued)
Grants == [Clients -> Seq(Resources)]

LEMMA Requesters ==
  ASSUME NEW box \in Boxes, NEW q \in Queues
  PROVE  /\ \A i \in DOMAIN box : box[i] \in Signal
         /\ \A i \in DOMAIN box : box[i].kind = "acquire" =>
              box[i].req \in Queued /\ box[i].req.requester \in Clients
         /\ \A k \in DOMAIN q : q[k] \in Queued /\ q[k].requester \in Clients
<1>1. \A i \in DOMAIN box : box[i] \in Signal
  BY DEF Boxes
<1>2. \A i \in DOMAIN box : box[i].kind = "acquire" => box[i].req \in Queued
  BY <1>1, SignalTypes
<1>3. \A k \in DOMAIN q : q[k] \in Queued
  BY DEF Queues
<1>4. \A req \in Queued : req.requester \in Clients
  BY DEF Queued
<1> QED  BY <1>1, <1>2, <1>3, <1>4

LEMMA AsksNext ==
  ASSUME UNCHANGED <<phase, step, pools>>
  PROVE  AsksWell(inbox, queue, grants)' <=> AsksWell(inbox', queue', grants')
BY DEF AsksWell, AllCurrent, AskedOnce, AsksOf, WaitsOf, Current, Answers, Waits, HasStep, Fits,
       Wanted

\* A client that closes is no longer concerned, and one that has asked for
\* nothing may do as it likes.
LEMMA PhasesMove ==
  ASSUME AsksWell(inbox', queue', grants'), UNCHANGED pools,
         inbox' \in Boxes, queue' \in Queues,
         \A d \in Clients : \/ phase'[d] = "closed"
                            \/ phase'[d] = phase[d] /\ step'[d] = step[d]
                            \/ NoneOf(d, inbox', queue', grants')
  PROVE  AsksWell(inbox, queue, grants)'
<1>1. AskedOnce(inbox, queue, grants)'
  BY DEF AsksWell, AskedOnce, AsksOf, WaitsOf
<1>2. ASSUME NEW i \in DOMAIN inbox', inbox'[i].kind = "acquire"
      PROVE  Current(inbox[i].req)'
  <2> DEFINE d == inbox'[i].req.requester
  <2>1. d \in Clients
    BY <1>2, Requesters
  <2>2. i \in AsksOf(d, inbox')
    BY <1>2 DEF AsksOf
  <2>3. Current(inbox'[i].req)
    BY <1>2 DEF AsksWell, AllCurrent
  <2>4. phase'[d] = "closed" \/ (phase'[d] = phase[d] /\ step'[d] = step[d])
    BY <2>1, <2>2 DEF NoneOf
  <2> QED  BY <2>3, <2>4 DEF Current, Waits, HasStep, Wanted
<1>3. ASSUME NEW k \in DOMAIN queue'
      PROVE  Current(queue[k])'
  <2> DEFINE d == queue'[k].requester
  <2>1. d \in Clients
    BY Requesters
  <2>2. k \in WaitsOf(d, queue')
    BY DEF WaitsOf
  <2>3. Current(queue'[k])
    BY DEF AsksWell, AllCurrent
  <2>4. phase'[d] = "closed" \/ (phase'[d] = phase[d] /\ step'[d] = step[d])
    BY <2>1, <2>2 DEF NoneOf
  <2> QED  BY <2>3, <2>4 DEF Current, Waits, HasStep, Wanted
<1>4. ASSUME NEW d \in Clients, NEW n \in DOMAIN grants'[d]
      PROVE  Answers(d, grants[d][n])'
  <2>1. Answers(d, grants'[d][n])
    BY DEF AsksWell, AllCurrent
  <2>2. grants'[d] # <<>>
    OBVIOUS
  <2>3. phase'[d] = "closed" \/ (phase'[d] = phase[d] /\ step'[d] = step[d])
    BY <2>2 DEF NoneOf
  <2> QED  BY <2>1, <2>3 DEF Answers, Waits, HasStep, Fits, Wanted
<1> QED  BY <1>1, <1>2, <1>3, <1>4 DEF AsksWell, AllCurrent

\* Handling a signal takes a request out of the inbox.
LEMMA AsksHandled ==
  ASSUME NEW box \in Boxes, NEW q, NEW gr, AsksWell(box, q, gr),
         NEW i \in DOMAIN box, NEW rest, rest = RemoveAt(box, i)
  PROVE  /\ AsksWell(rest, q, gr)
         /\ box[i].kind = "acquire" /\ box[i].req.requester \in Clients =>
              NoneOf(box[i].req.requester, rest, q, gr)
<1>1. /\ \A j \in DOMAIN rest : /\ Shift(i, j) \in DOMAIN box /\ Shift(i, j) # i
                                /\ rest[j] = box[Shift(i, j)]
      /\ \A j, k \in DOMAIN rest : Shift(i, j) = Shift(i, k) => j = k
  BY RestOf DEF Boxes
<1>2. AllCurrent(rest, q, gr)
  BY <1>1 DEF AsksWell, AllCurrent
<1>3. \A c : \A j \in AsksOf(c, rest) : Shift(i, j) \in AsksOf(c, box) \ {i}
  BY <1>1 DEF AsksOf
<1>4. \A c : \A j, k \in AsksOf(c, rest) : Shift(i, j) = Shift(i, k) => j = k
  BY <1>1 DEF AsksOf
<1>5. AskedOnce(rest, q, gr)
  BY <1>3, <1>4 DEF AsksWell, AskedOnce
<1>6. ASSUME box[i].kind = "acquire", box[i].req.requester \in Clients
      PROVE  NoneOf(box[i].req.requester, rest, q, gr)
  <2> DEFINE c == box[i].req.requester
  <2>1. i \in AsksOf(c, box)
    BY <1>6 DEF AsksOf
  <2>2. AsksOf(c, rest) = {}
    BY <1>3, <1>6, <2>1 DEF AsksWell, AskedOnce
  <2>3. gr[c] = <<>> /\ WaitsOf(c, q) = {}
    BY <1>6, <2>1 DEF AsksWell, AskedOnce
  <2> QED  BY <2>2, <2>3 DEF NoneOf
<1> QED  BY <1>2, <1>5, <1>6 DEF AsksWell

\* Serving a waiter takes its request out of the queue.
LEMMA WaiterTaken ==
  ASSUME NEW box, NEW q \in Queues, NEW gr, AsksWell(box, q, gr),
         NEW k \in DOMAIN q, NEW rest, rest = RemoveAt(q, k)
  PROVE  AsksWell(box, rest, gr) /\ NoneOf(q[k].requester, box, rest, gr)
<1>1. /\ \A j \in DOMAIN rest : /\ Shift(k, j) \in DOMAIN q /\ Shift(k, j) # k
                                /\ rest[j] = q[Shift(k, j)]
      /\ \A j, l \in DOMAIN rest : Shift(k, j) = Shift(k, l) => j = l
  BY RestOf DEF Queues
<1>2. AllCurrent(box, rest, gr)
  BY <1>1 DEF AsksWell, AllCurrent
<1>3. \A c : \A j \in WaitsOf(c, rest) : Shift(k, j) \in WaitsOf(c, q) \ {k}
  BY <1>1 DEF WaitsOf
<1>4. \A c : \A j, l \in WaitsOf(c, rest) : Shift(k, j) = Shift(k, l) => j = l
  BY <1>1 DEF WaitsOf
<1>5. AskedOnce(box, rest, gr)
  BY <1>3, <1>4 DEF AsksWell, AskedOnce
<1>6. q[k].requester \in Clients
  <2>1. q[k] \in Queued
    BY DEF Queues
  <2> QED  BY <2>1 DEF Queued
<1>7. k \in WaitsOf(q[k].requester, q)
  BY DEF WaitsOf
<1>8. NoneOf(q[k].requester, box, rest, gr)
  BY <1>3, <1>6, <1>7 DEF AsksWell, AskedOnce, NoneOf
<1> QED  BY <1>2, <1>5, <1>8 DEF AsksWell

\* A request is queued for a client that has no other.
LEMMA WaiterAdded ==
  ASSUME NEW box, NEW q \in Queues, NEW gr, AsksWell(box, q, gr), NEW req \in Queued,
         NoneOf(req.requester, box, q, gr), Current(req)
  PROVE  AsksWell(box, Append(q, req), gr)
<1> DEFINE longer == Append(q, req)
<1>1. /\ DOMAIN longer = 1..(Len(q) + 1) /\ DOMAIN q = 1..Len(q) /\ Len(q) \in Nat
      /\ \A k \in DOMAIN q : longer[k] = q[k]
      /\ longer[Len(q) + 1] = req
  BY DEF Queues
<1> HIDE DEF longer
<1>2. AllCurrent(box, longer, gr)
  BY <1>1 DEF AsksWell, AllCurrent
<1>3. \A c : c # req.requester => WaitsOf(c, longer) = WaitsOf(c, q)
  BY <1>1 DEF WaitsOf
<1>4. WaitsOf(req.requester, longer) = {Len(q) + 1}
  BY <1>1 DEF NoneOf, WaitsOf
<1>5. AskedOnce(box, longer, gr)
  <2> SUFFICES ASSUME NEW c \in Clients
               PROVE  /\ \A i, j \in AsksOf(c, box) : i = j
                      /\ \A k, l \in WaitsOf(c, longer) : k = l
                      /\ gr[c] # <<>> => Len(gr[c]) = 1 /\ WaitsOf(c, longer) = {}
                      /\ AsksOf(c, box) # {} => gr[c] = <<>> /\ WaitsOf(c, longer) = {}
    BY DEF AskedOnce
  <2>1. CASE c # req.requester
    BY <1>3, <2>1 DEF AsksWell, AskedOnce
  <2>2. CASE c = req.requester
    BY <1>4, <2>2 DEF NoneOf
  <2> QED  BY <2>1, <2>2
<1> QED  BY <1>2, <1>5 DEF AsksWell, longer

\* A grant is sent to a client that has no other and no request.
LEMMA GrantAdded ==
  ASSUME NEW box, NEW q, NEW gr \in Grants, AsksWell(box, q, gr),
         NEW c \in Clients, NoneOf(c, box, q, gr), NEW r \in Resources, Answers(c, r)
  PROVE  AsksWell(box, q, [gr EXCEPT ![c] = Append(gr[c], r)])
<1> DEFINE more == [gr EXCEPT ![c] = Append(gr[c], r)]
<1>1. more[c] = Append(<<>>, r) /\ \A d \in Clients \ {c} : more[d] = gr[d]
  BY DEF Grants, NoneOf
<1> HIDE DEF more
<1>2. DOMAIN more[c] = {1} /\ more[c][1] = r /\ Len(more[c]) = 1 /\ more[c] # <<>>
  BY <1>1, Singleton
<1>3. AllCurrent(box, q, more)
  <2>1. ASSUME NEW d \in Clients, NEW n \in DOMAIN more[d]
        PROVE  Answers(d, more[d][n])
    <3>1. CASE d = c
      BY <1>2, <2>1, <3>1
    <3>2. CASE d # c
      BY <1>1, <2>1, <3>2 DEF AsksWell, AllCurrent
    <3> QED  BY <3>1, <3>2
  <2> QED  BY <2>1 DEF AsksWell, AllCurrent
<1>4. AskedOnce(box, q, more)
  <2> SUFFICES ASSUME NEW d \in Clients
               PROVE  /\ \A i, j \in AsksOf(d, box) : i = j
                      /\ \A k, l \in WaitsOf(d, q) : k = l
                      /\ more[d] # <<>> => Len(more[d]) = 1 /\ WaitsOf(d, q) = {}
                      /\ AsksOf(d, box) # {} => more[d] = <<>> /\ WaitsOf(d, q) = {}
    BY DEF AskedOnce
  <2>1. CASE d = c
    BY <1>2, <2>1 DEF NoneOf
  <2>2. CASE d # c
    BY <1>1, <2>2 DEF AsksWell, AskedOnce
  <2> QED  BY <2>1, <2>2
<1> QED  BY <1>3, <1>4 DEF AsksWell, more

\* Grants are received, or lost.
LEMMA GrantsDropped ==
  ASSUME NEW box, NEW q, NEW gr \in Grants, AsksWell(box, q, gr),
         NEW c \in Clients, NEW n \in 0..Len(gr[c])
  PROVE  AsksWell(box, q, [gr EXCEPT ![c] = SubSeq(gr[c], n + 1, Len(gr[c]))])
<1> DEFINE rest == SubSeq(gr[c], n + 1, Len(gr[c]))
           less == [gr EXCEPT ![c] = rest]
<1>1. gr[c] \in Seq(Resources)
  BY DEF Grants
<1>2. /\ rest \in Seq(Resources) /\ Len(rest) = Len(gr[c]) - n
      /\ \A j \in 1..(Len(gr[c]) - n) : rest[j] = gr[c][n + j]
  BY <1>1, SuffixElements
<1>3. less[c] = rest /\ \A d \in Clients \ {c} : less[d] = gr[d]
  BY DEF Grants
<1> HIDE DEF rest, less
<1>4. gr[c] # <<>> => Len(gr[c]) = 1
  BY DEF AsksWell, AskedOnce
<1>5. less[c] = <<>> \/ less[c] = gr[c]
  <2>1. CASE Len(gr[c]) = n
    <3>1. Len(rest) = 0
      BY <1>1, <1>2, <2>1
    <3> QED  BY <1>2, <1>3, <3>1, EmptyOrNot
  <2>2. CASE n = 0
    BY <1>1, <1>2, <1>3, <2>2
  <2>3. Len(gr[c]) = 0 \/ Len(gr[c]) = 1
    <3>1. CASE gr[c] = <<>>
      BY <3>1
    <3> QED  BY <1>4, <3>1
  <2>4. Len(gr[c]) = n \/ n = 0
    <3> DEFINE m == Len(gr[c])
    <3>1. n \in 0..m /\ (m = 0 \/ m = 1)
      BY <2>3
    <3> HIDE DEF m
    <3>2. m = n \/ n = 0
      BY <3>1
    <3> QED  BY <3>2 DEF m
  <2> QED  BY <2>1, <2>2, <2>4
<1>6. \A d \in Clients : less[d] = <<>> \/ less[d] = gr[d]
  BY <1>3, <1>5
<1>7. AllCurrent(box, q, less)
  BY <1>6 DEF AsksWell, AllCurrent
<1>8. AskedOnce(box, q, less)
  BY <1>6 DEF AsksWell, AskedOnce
<1> QED  BY <1>7, <1>8 DEF AsksWell, less, rest

\* Other signals are no requests.
LEMMA AsksSent ==
  ASSUME NEW box \in Boxes, NEW q, NEW gr, AsksWell(box, q, gr),
         NEW s \in Signal, s.kind # "acquire"
  PROVE  /\ AsksWell(Append(box, s), q, gr)
         /\ \A c : NoneOf(c, box, q, gr) => NoneOf(c, Append(box, s), q, gr)
<1> DEFINE more == Append(box, s)
<1>1. /\ DOMAIN more = 1..(Len(box) + 1) /\ DOMAIN box = 1..Len(box) /\ Len(box) \in Nat
      /\ \A i \in DOMAIN box : more[i] = box[i]
      /\ more[Len(box) + 1] = s
  BY DEF Boxes
<1> HIDE DEF more
<1>2. \A c : AsksOf(c, more) = AsksOf(c, box)
  BY <1>1 DEF AsksOf
<1>3. AllCurrent(more, q, gr)
  BY <1>1 DEF AsksWell, AllCurrent
<1>4. AskedOnce(more, q, gr)
  BY <1>2 DEF AsksWell, AskedOnce
<1> QED  BY <1>2, <1>3, <1>4 DEF AsksWell, NoneOf, more

\* A client that does not wait has no request and no grant.
LEMMA NotWaiting ==
  ASSUME AsksWell(inbox, queue, grants), TypeOK, NEW c \in Clients,
         phase[c] \in {"ready", "running"}
  PROVE  NoneOf(c, inbox, queue, grants)
<1>1. AsksOf(c, inbox) = {} /\ WaitsOf(c, queue) = {}
  BY DEF AsksWell, AllCurrent, Current, Waits, AsksOf, WaitsOf
<1>2. grants[c] \in Seq(Resources)
  BY DEF TypeOK
<1>3. \A n \in DOMAIN grants[c] : FALSE
  BY DEF AsksWell, AllCurrent, Answers, Waits
<1>4. grants[c] = <<>>
  BY <1>2, <1>3, EmptyOrNot
<1> QED  BY <1>1, <1>4 DEF NoneOf

LEMMA HoldsKept ==
  ASSUME HoldsWhatItAskedFor, UNCHANGED pools,
         \A d \in Clients : phase'[d] = "running" =>
           phase[d] = "running" /\ held'[d] = held[d] /\ step'[d] = step[d]
  PROVE  HoldsWhatItAskedFor'
BY DEF HoldsWhatItAskedFor

LEMMA Asking ==
  ASSUME TypeOK
  PROVE  inbox \in Boxes /\ queue \in Queues /\ grants \in Grants
BY DEF TypeOK, Boxes, Queues, Grants

LEMMA AskingNext ==
  ASSUME TypeOK'
  PROVE  inbox' \in Boxes /\ queue' \in Queues
BY DEF TypeOK, Boxes, Queues

\* What is offered fits the request.
LEMMA OffersFit ==
  ASSUME TypeOK, NEW req \in Queued, Current(req), NEW lk, NEW released,
         NEW r \in Available(lk, req) \cup Served(req, lk, released)
  PROVE  Answers(req.requester, r)
<1>1. pools \in [Pools -> Seq(Resources)] /\ req.pool \in Pools \cup {None}
  BY DEF TypeOK, Queued
<1>2. CASE req.pool # None
  <2>1. r \in FirstFree(lk, req.pool)
    BY <1>2 DEF Available, Served
  <2>2. r \in ToSet(pools[req.pool])
    BY <2>1 DEF FirstFree, ToSet
  <2> QED  BY <1>2, <2>2 DEF Current, Answers, Fits, RequestOf
<1>3. CASE req.pool = None
  <2>1. r = req.resource
    BY <1>3 DEF Available, Served
  <2> QED  BY <1>3, <2>1 DEF Current, Answers, Fits, RequestOf
<1> QED  BY <1>2, <1>3

LEMMA AcquireServes ==
  ASSUME ConstantsOK, ServeInv, NEW i \in DOMAIN inbox, HandleAcquire(i)
  PROVE  AsksWell(inbox, queue, grants)'
<1> DEFINE req == inbox[i].req
           rest == RemoveAt(inbox, i)
<1>1. /\ TypeOK /\ inbox \in Boxes /\ queue \in Queues /\ grants \in Grants
      /\ AsksWell(inbox, queue, grants)
  BY Asking DEF ServeInv, WaitInv
<1>2. inbox[i].kind = "acquire" /\ inbox' = rest /\ UNCHANGED <<phase, step, pools>>
  BY DEF HandleAcquire, Consume, client
<1>3. req \in Queued /\ req.requester \in Clients
  BY <1>1, <1>2, Requesters
<1>4. AsksWell(rest, queue, grants) /\ NoneOf(req.requester, rest, queue, grants)
  BY <1>1, <1>2, <1>3, AsksHandled
<1>5. Current(req)
  BY <1>1, <1>2 DEF AsksWell, AllCurrent
<1> HIDE DEF rest
<1>6. ASSUME NEW r \in Available(locks, req), GrantFrom(locks, r, req.requester), UNCHANGED queue
      PROVE  AsksWell(inbox', queue', grants')
  <2>1. r \in Resources
    BY OffersAreResources
  <2>2. Answers(req.requester, r)
    BY <1>1, <1>3, <1>5, OffersFit
  <2>3. grants' = [grants EXCEPT ![req.requester] = Append(grants[req.requester], r)]
    BY <1>6 DEF GrantFrom
  <2> HIDE DEF req
  <2>4. AsksWell(rest, queue, [grants EXCEPT ![req.requester] = Append(grants[req.requester], r)])
    BY <1>1, <1>3, <1>4, <2>1, <2>2, GrantAdded
  <2> QED  BY <1>2, <1>6, <2>3, <2>4
<1>7. ASSUME queue' = Enqueue(req), UNCHANGED grants
      PROVE  AsksWell(inbox', queue', grants')
  <2> HIDE DEF req
  <2>1. AsksWell(rest, Append(queue, req), grants)
    BY <1>1, <1>3, <1>4, <1>5, WaiterAdded
  <2> QED  BY <1>2, <1>7, <2>1 DEF Enqueue
<1> HIDE DEF req
<1>8. AsksWell(inbox', queue', grants')
  BY <1>6, <1>7 DEF HandleAcquire, req
<1> QED  BY <1>2, <1>8, AsksNext

LEMMA ReleaseAnswers ==
  ASSUME ConstantsOK, ServeInv, NEW i \in DOMAIN inbox, HandleRelease(i)
  PROVE  AsksWell(inbox, queue, grants)'
<1> DEFINE rest == RemoveAt(inbox, i)
<1>1. /\ TypeOK /\ inbox \in Boxes /\ queue \in Queues /\ grants \in Grants
      /\ AsksWell(inbox, queue, grants)
  BY Asking DEF ServeInv, WaitInv
<1>2. inbox' = rest /\ UNCHANGED <<phase, step, pools>>
  BY DEF HandleRelease, Consume, client
<1>3. AsksWell(rest, queue, grants)
  BY <1>1, AsksHandled
<1> HIDE DEF rest
<1>4. PICK released \in ReleaseTargets(inbox[i].req) :
        LET freed == [r \in Resources |-> IF r = released THEN None ELSE locks[r]] IN
        \/ \E k \in DOMAIN queue :
             /\ \E r \in Served(queue[k], freed, released) :
                  GrantFrom(freed, r, queue[k].requester)
             /\ queue' = RemoveAt(queue, k)
        \/ UNCHANGED <<queue, grants>>
  BY Zenon DEF HandleRelease
<1> DEFINE freed == [r \in Resources |-> IF r = released THEN None ELSE locks[r]]
<1> HIDE DEF freed
<1>5. ASSUME NEW k \in DOMAIN queue, NEW r \in Served(queue[k], freed, released),
             GrantFrom(freed, r, queue[k].requester), queue' = RemoveAt(queue, k)
      PROVE  AsksWell(inbox', queue', grants')
  <2> DEFINE c == queue[k].requester
  <2>1. queue[k] \in Queued /\ c \in Clients
    BY <1>1, Requesters
  <2>2. Current(queue[k])
    BY <1>1 DEF AsksWell, AllCurrent
  <2>3. r \in Resources
    BY OffersAreResources
  <2>4. Answers(c, r)
    BY <1>1, <2>1, <2>2, OffersFit
  <2>5. AsksWell(rest, queue', grants) /\ NoneOf(c, rest, queue', grants)
    BY <1>1, <1>3, <1>5, WaiterTaken
  <2>6. grants' = [grants EXCEPT ![c] = Append(grants[c], r)]
    BY <1>5 DEF GrantFrom
  <2> HIDE DEF c
  <2>7. AsksWell(rest, queue', [grants EXCEPT ![c] = Append(grants[c], r)])
    BY <1>1, <2>1, <2>3, <2>4, <2>5, GrantAdded
  <2> QED  BY <1>2, <2>6, <2>7
<1>6. ASSUME UNCHANGED <<queue, grants>>
      PROVE  AsksWell(inbox', queue', grants')
  BY <1>2, <1>3, <1>6
<1>7. AsksWell(inbox', queue', grants')
  BY <1>4, <1>5, <1>6 DEF freed
<1> QED  BY <1>2, <1>7, AsksNext

LEMMA RegisterAsks ==
  ASSUME ConstantsOK, ServeInv, NEW i \in DOMAIN inbox, HandleRegister(i)
  PROVE  AsksWell(inbox, queue, grants)' /\ HoldsWhatItAskedFor'
<1>1. /\ TypeOK /\ inbox \in Boxes /\ AsksWell(inbox, queue, grants) /\ PoolsSettled
      /\ HoldsWhatItAskedFor
  BY Asking DEF ServeInv, WaitInv
<1>2. inbox' = RemoveAt(inbox, i) /\ UNCHANGED <<phase, step, held, queue, grants>>
  BY DEF HandleRegister, Consume, client
<1>3. CASE Registered
  <2>1. UNCHANGED pools
    BY <1>1, <1>3, RegisteredAgain
  <2>2. AsksWell(inbox', queue', grants')
    BY <1>1, <1>2, AsksHandled
  <2> QED  BY <1>1, <1>2, <2>1, <2>2, AsksNext, HoldsKept
<1>4. CASE Unasked
  <2>1. \A j \in DOMAIN inbox' : inbox'[j].kind # "acquire"
    BY <1>1, <1>2, <1>4, RestOf DEF Boxes, Unasked
  <2>2. queue' = <<>> /\ \A c \in Clients : grants'[c] = <<>> /\ phase'[c] # "running"
    BY <1>2, <1>4 DEF Unasked
  <2>3. AllCurrent(inbox, queue, grants)' /\ AskedOnce(inbox, queue, grants)'
    BY <2>1, <2>2 DEF AllCurrent, AskedOnce, AsksOf, WaitsOf
  <2> QED  BY <2>2, <2>3 DEF AsksWell, HoldsWhatItAskedFor
<1> QED  BY <1>1, <1>3, <1>4 DEF PoolsSettled

LEMMA AcquireAsks ==
  ASSUME ConstantsOK, ServeInv, TypeOK', NEW c \in Clients, Acquire(c)
  PROVE  AsksWell(inbox, queue, grants)' /\ HoldsWhatItAskedFor'
<1> DEFINE req == RequestOf(c, Script[c][step[c]].resource, Script[c][step[c]].pool)
           sig == [kind |-> "acquire", req |-> req]
<1>1. /\ TypeOK /\ inbox \in Boxes /\ queue \in Queues /\ grants \in Grants
      /\ AsksWell(inbox, queue, grants) /\ HoldsWhatItAskedFor
  BY Asking DEF ServeInv, WaitInv
<1>2. /\ phase[c] = "ready" /\ HasStep(c) /\ SendOrLose(sig)
      /\ phase' = [phase EXCEPT ![c] = "waiting"]
      /\ UNCHANGED <<pools, queue, step, held, grants>>
  BY DEF Acquire, manager
<1>3. NoneOf(c, inbox, queue, grants)
  BY <1>1, <1>2, NotWaiting
<1>4. phase'[c] = "waiting" /\ \A d \in Clients \ {c} : phase'[d] = phase[d]
  BY <1>1, <1>2 DEF TypeOK
<1>5. HoldsWhatItAskedFor'
  BY <1>1, <1>2, <1>4, HoldsKept
<1>6. inbox' \in Boxes /\ queue' \in Queues
  BY AskingNext
<1>7. CASE UNCHANGED inbox
  <2>1. AsksWell(inbox', queue', grants') /\ NoneOf(c, inbox', queue', grants')
    BY <1>1, <1>2, <1>3, <1>7
  <2>2. AsksWell(inbox, queue, grants)'
    BY <1>2, <1>4, <1>6, <2>1, PhasesMove
  <2> QED  BY <1>5, <2>2
<1>8. CASE inbox' = Append(inbox, sig)
  <2>1. req.requester = c /\ sig.kind = "acquire" /\ sig.req = req
    BY DEF RequestOf
  <2>2. step[c] \in 1..Len(Script[c])
    BY <1>1, <1>2 DEF HasStep, TypeOK, ConstantsOK
  <2>3. req \in Queued
    BY <2>2, RequestTypes
  <2>4. sig \in Signal
    BY <2>3 DEF Signal
  <2>5. req = RequestOf(c, Wanted(c).resource, Wanted(c).pool)
    BY DEF Wanted
  <2> HIDE DEF req, sig
  <2>6. /\ DOMAIN inbox' = 1..(Len(inbox) + 1) /\ DOMAIN inbox = 1..Len(inbox) /\ Len(inbox) \in Nat
        /\ \A i \in DOMAIN inbox : inbox'[i] = inbox[i]
        /\ inbox'[Len(inbox) + 1] = sig
    BY <1>1, <1>8, <2>4 DEF Boxes
  <2>7. AsksOf(c, inbox') = {Len(inbox) + 1}
    BY <1>3, <2>1, <2>6 DEF NoneOf, AsksOf
  <2>8. \A d \in Clients \ {c} : AsksOf(d, inbox') = AsksOf(d, inbox)
    BY <2>1, <2>6 DEF AsksOf
  <2>9. AskedOnce(inbox', queue', grants')
    <3> SUFFICES ASSUME NEW d \in Clients
                 PROVE  /\ \A i, j \in AsksOf(d, inbox') : i = j
                        /\ \A k, l \in WaitsOf(d, queue) : k = l
                        /\ grants[d] # <<>> => Len(grants[d]) = 1 /\ WaitsOf(d, queue) = {}
                        /\ AsksOf(d, inbox') # {} => grants[d] = <<>> /\ WaitsOf(d, queue) = {}
      BY <1>2 DEF AskedOnce
    <3>1. CASE d = c
      BY <1>3, <2>7, <3>1 DEF NoneOf
    <3>2. CASE d # c
      BY <1>1, <2>8, <3>2 DEF AsksWell, AskedOnce
    <3> QED  BY <3>1, <3>2
  <2>10. ASSUME NEW i \in DOMAIN inbox', inbox'[i].kind = "acquire"
         PROVE  Current(inbox[i].req)'
    <3>1. CASE i = Len(inbox) + 1
      BY <1>2, <1>4, <2>1, <2>5, <2>6, <3>1 DEF Current, Waits, HasStep, Wanted
    <3>2. CASE i # Len(inbox) + 1
      <4>1. i \in DOMAIN inbox /\ inbox'[i] = inbox[i]
        BY <2>6, <3>2
      <4>2. inbox[i].req.requester \in Clients \ {c}
        BY <1>1, <1>3, <2>10, <4>1, Requesters DEF NoneOf, AsksOf
      <4>3. Current(inbox[i].req)
        BY <1>1, <2>10, <4>1 DEF AsksWell, AllCurrent
      <4> QED  BY <1>2, <1>4, <4>1, <4>2, <4>3 DEF Current, Waits, HasStep, Wanted
    <3> QED  BY <3>1, <3>2
  <2>11. ASSUME NEW k \in DOMAIN queue
         PROVE  Current(queue[k])'
    <3>1. queue[k].requester \in Clients \ {c}
      BY <1>1, <1>3, Requesters DEF NoneOf, WaitsOf
    <3>2. Current(queue[k])
      BY <1>1 DEF AsksWell, AllCurrent
    <3> QED  BY <1>2, <1>4, <3>1, <3>2 DEF Current, Waits, HasStep, Wanted
  <2>12. ASSUME NEW d \in Clients, NEW n \in DOMAIN grants[d]
         PROVE  Answers(d, grants[d][n])'
    <3>1. d # c
      BY <1>3 DEF NoneOf
    <3>2. Answers(d, grants[d][n])
      BY <1>1 DEF AsksWell, AllCurrent
    <3> QED  BY <1>2, <1>4, <3>1, <3>2 DEF Answers, Waits, HasStep, Fits, Wanted
  <2>13. AllCurrent(inbox, queue, grants)'
    BY <1>2, <2>10, <2>11, <2>12 DEF AllCurrent
  <2>14. AskedOnce(inbox, queue, grants)'
    BY <2>9 DEF AskedOnce, AsksOf, WaitsOf
  <2> QED  BY <1>5, <2>13, <2>14 DEF AsksWell
<1> QED  BY <1>2, <1>7, <1>8 DEF SendOrLose

LEMMA AcquiredHolds ==
  ASSUME ConstantsOK, ServeInv, TypeOK', NEW c \in Clients, Acquired(c)
  PROVE  AsksWell(inbox, queue, grants)' /\ HoldsWhatItAskedFor'
<1>1. /\ TypeOK /\ inbox \in Boxes /\ queue \in Queues /\ grants \in Grants
      /\ AsksWell(inbox, queue, grants) /\ HoldsWhatItAskedFor
  BY Asking DEF ServeInv, WaitInv
<1>2. /\ phase[c] = "waiting" /\ grants[c] # <<>>
      /\ held' = [held EXCEPT ![c] = Head(grants[c])]
      /\ grants' = [grants EXCEPT ![c] = Tail(grants[c])]
      /\ phase' = [phase EXCEPT ![c] = "running"]
      /\ UNCHANGED <<pools, inbox, queue, step>>
  BY DEF Acquired, manager
<1>3. grants[c] \in Seq(Resources) /\ Len(grants[c]) = 1 /\ WaitsOf(c, queue) = {}
      /\ AsksOf(c, inbox) = {}
  BY <1>1, <1>2 DEF AsksWell, AskedOnce, Grants
<1>4. 1 \in DOMAIN grants[c] /\ Head(grants[c]) = grants[c][1] /\ Tail(grants[c]) = <<>>
  BY <1>2, <1>3, FirstOf
<1>5. Answers(c, grants[c][1])
  BY <1>1, <1>4 DEF AsksWell, AllCurrent
<1>6. /\ 1 \in 0..Len(grants[c])
      /\ Tail(grants[c]) = SubSeq(grants[c], 1 + 1, Len(grants[c]))
  BY <1>2, <1>3, FirstOf
<1>7. AsksWell(inbox', queue', grants')
  BY <1>1, <1>2, <1>6, GrantsDropped
<1>8. grants'[c] = <<>>
  BY <1>1, <1>2, <1>4 DEF Grants
<1>9. NoneOf(c, inbox', queue', grants')
  BY <1>2, <1>3, <1>8 DEF NoneOf
<1>10. phase'[c] = "running" /\ \A d \in Clients \ {c} : phase'[d] = phase[d] /\ held'[d] = held[d]
  BY <1>1, <1>2 DEF TypeOK
<1>11. inbox' \in Boxes /\ queue' \in Queues
  BY AskingNext
<1>12. AsksWell(inbox, queue, grants)'
  BY <1>2, <1>7, <1>9, <1>10, <1>11, PhasesMove
<1>13. held'[c] = grants[c][1]
  BY <1>1, <1>2, <1>4 DEF TypeOK
<1>14. HoldsWhatItAskedFor'
  <2> SUFFICES ASSUME NEW d \in Clients, phase'[d] = "running"
               PROVE  IF Wanted(d).pool # None THEN held'[d] \in ToSet(pools[Wanted(d).pool])
                      ELSE held'[d] = Wanted(d).resource
    BY <1>2 DEF HoldsWhatItAskedFor, Wanted
  <2>1. CASE d = c
    BY <1>2, <1>5, <1>13, <2>1 DEF Answers, Fits
  <2>2. CASE d # c
    BY <1>1, <1>10, <2>2 DEF HoldsWhatItAskedFor, Wanted
  <2> QED  BY <2>1, <2>2
<1> QED  BY <1>12, <1>14

LEMMA FinishAsks ==
  ASSUME ConstantsOK, ServeInv, TypeOK', NEW c \in Clients, FinishStep(c)
  PROVE  AsksWell(inbox, queue, grants)' /\ HoldsWhatItAskedFor'
<1> DEFINE sig == [kind |-> "release", req |-> RequestOf(c, held[c], None)]
<1>1. /\ TypeOK /\ inbox \in Boxes /\ queue \in Queues /\ grants \in Grants
      /\ AsksWell(inbox, queue, grants) /\ HoldsWhatItAskedFor
  BY Asking DEF ServeInv, WaitInv
<1>2. /\ phase[c] = "running" /\ SendOrLose(sig)
      /\ held' = [held EXCEPT ![c] = None]
      /\ phase' = [phase EXCEPT ![c] = "ready"]
      /\ step' = [step EXCEPT ![c] = step[c] + 1]
      /\ UNCHANGED <<pools, queue, grants>>
  BY DEF FinishStep, manager
<1>3. NoneOf(c, inbox, queue, grants)
  BY <1>1, <1>2, NotWaiting
<1>4. sig \in Signal /\ sig.kind # "acquire"
  <2>1. RequestOf(c, held[c], None) \in Request
    BY <1>1, RequestTypes DEF TypeOK
  <2> QED  BY <2>1 DEF Signal
<1> HIDE DEF sig
<1>5. AsksWell(inbox', queue', grants') /\ NoneOf(c, inbox', queue', grants')
  <2>1. CASE UNCHANGED inbox
    BY <1>1, <1>2, <1>3, <2>1
  <2>2. CASE inbox' = Append(inbox, sig)
    <3>1. AsksWell(Append(inbox, sig), queue, grants)
      BY <1>1, <1>4, AsksSent
    <3>2. NoneOf(c, Append(inbox, sig), queue, grants)
      BY <1>1, <1>3, <1>4, AsksSent
    <3> QED  BY <1>2, <2>2, <3>1, <3>2
  <2> QED  BY <1>2, <2>1, <2>2 DEF SendOrLose
<1>6. /\ phase'[c] = "ready"
      /\ \A d \in Clients \ {c} : phase'[d] = phase[d] /\ held'[d] = held[d] /\ step'[d] = step[d]
  BY <1>1, <1>2 DEF TypeOK
<1>7. inbox' \in Boxes /\ queue' \in Queues
  BY AskingNext
<1>8. AsksWell(inbox, queue, grants)'
  BY <1>2, <1>5, <1>6, <1>7, PhasesMove
<1>9. HoldsWhatItAskedFor'
  BY <1>1, <1>2, <1>6, HoldsKept
<1> QED  BY <1>8, <1>9

LEMMA CloseAsks ==
  ASSUME ConstantsOK, ServeInv, TypeOK', NEW c \in Clients, CloseRun(c)
  PROVE  AsksWell(inbox, queue, grants)' /\ HoldsWhatItAskedFor'
<1>1. /\ TypeOK /\ inbox \in Boxes /\ queue \in Queues /\ grants \in Grants
      /\ AsksWell(inbox, queue, grants) /\ HoldsWhatItAskedFor
  BY Asking DEF ServeInv, WaitInv
<1>2. /\ phase' = [phase EXCEPT ![c] = "closed"]
      /\ held' = [held EXCEPT ![c] = None]
      /\ UNCHANGED <<pools, queue, inbox, step>>
  BY DEF CloseRun, manager
<1>3. PICK n \in 0..Len(grants[c]) :
        grants' = [grants EXCEPT ![c] = SubSeq(grants[c], n + 1, Len(grants[c]))]
  BY DEF CloseRun
<1>4. AsksWell(inbox', queue', grants')
  BY <1>1, <1>2, <1>3, GrantsDropped
<1>5. phase'[c] = "closed" /\ \A d \in Clients \ {c} : phase'[d] = phase[d] /\ held'[d] = held[d]
  BY <1>1, <1>2 DEF TypeOK
<1>6. inbox' \in Boxes /\ queue' \in Queues
  BY AskingNext
<1>7. AsksWell(inbox, queue, grants)'
  BY <1>2, <1>4, <1>5, <1>6, PhasesMove
<1>8. HoldsWhatItAskedFor'
  BY <1>1, <1>2, <1>5, HoldsKept
<1> QED  BY <1>7, <1>8

LEMMA ServeStep == ConstantsOK /\ ServeInv /\ [CoreNext /\ PoolsFirst]_vars => ServeInv'
<1> SUFFICES ASSUME ConstantsOK, ServeInv, [CoreNext /\ PoolsFirst]_vars
             PROVE  ServeInv'
  OBVIOUS
<1>1. WaitInv' /\ TypeOK'
  BY WaitStep DEF ServeInv, WaitInv
<1>2. /\ TypeOK /\ AsksWell(inbox, queue, grants) /\ HoldsWhatItAskedFor /\ Patient
      /\ inbox \in Boxes /\ grants \in Grants
  BY Asking DEF ServeInv, WaitInv
<1>3. CASE UNCHANGED vars
  <2>1. UNCHANGED <<phase, step, pools, inbox, queue, grants, held, budget>>
    BY <1>3 DEF vars
  <2>2. AsksWell(inbox, queue, grants)'
    BY <1>2, <2>1, AsksNext
  <2>3. HoldsWhatItAskedFor'
    BY <1>2, <2>1, HoldsKept
  <2> QED  BY <1>1, <1>2, <2>1, <2>2, <2>3 DEF ServeInv, Patient
<1>4. CASE CoreNext
  <2>1. ASSUME NEW event \in Events, Spend(event)
        PROVE  event \notin {"timeout", "rerun"} /\ Patient'
    BY <1>2, <2>1 DEF Spend, Patient, TypeOK
  <2>2. ASSUME NEW c \in Clients
        PROVE  ~AcquireTimeout(c) /\ ~Rerun(c)
    BY <2>1 DEF AcquireTimeout, Rerun, Events
  <2>3. Patient'
    <3>1. ASSUME NEW s, SendOrLose(s)
          PROVE  Patient'
      BY <1>2, <2>1, <3>1 DEF SendOrLose, Patient, Events
    <3>2. ASSUME NEW i \in DOMAIN inbox, HandleAcquire(i) \/ HandleRelease(i) \/ HandleRegister(i)
          PROVE  UNCHANGED budget
      BY <3>2 DEF HandleAcquire, HandleRelease, HandleRegister
    <3>3. ASSUME NEW c \in Clients, Acquired(c) \/ Close(c) \/ GrantFails(c)
          PROVE  UNCHANGED budget
      BY <3>3 DEF Acquired, Close, GrantFails
    <3>4. ASSUME NEW c \in Clients, Acquire(c) \/ FinishStep(c)
          PROVE  Patient'
      BY <3>1, <3>4 DEF Acquire, FinishStep
    <3>5. ASSUME NEW c \in Clients, Terminate(c)
          PROVE  Patient'
      BY <2>1, <3>5 DEF Terminate, Events
    <3>6. ASSUME NEW def \in PoolDefs, RegisterPool(def)
          PROVE  Patient'
      BY <2>1, <3>6 DEF RegisterPool, Events
    <3>7. UNCHANGED budget => Patient'
      BY <1>2 DEF Patient
    <3> QED
      BY <1>4, <2>2, <3>2, <3>3, <3>4, <3>5, <3>6, <3>7 DEF CoreNext, HandleSignal, Pipeline
  <2>4. ASSUME NEW i \in DOMAIN inbox, HandleAcquire(i) \/ HandleRelease(i)
        PROVE  AsksWell(inbox, queue, grants)' /\ HoldsWhatItAskedFor'
    <3>1. UNCHANGED <<phase, step, held, pools>>
      BY <2>4 DEF HandleAcquire, HandleRelease, client
    <3>2. HoldsWhatItAskedFor'
      BY <1>2, <3>1, HoldsKept
    <3> QED  BY <2>4, <3>2, AcquireServes, ReleaseAnswers
  <2>5. ASSUME NEW c \in Clients, GrantFails(c)
        PROVE  AsksWell(inbox, queue, grants)' /\ HoldsWhatItAskedFor'
    <3>1. /\ grants[c] # <<>> /\ grants' = [grants EXCEPT ![c] = Tail(grants[c])]
          /\ UNCHANGED <<phase, step, held, pools, inbox, queue>>
      BY <2>5 DEF GrantFails, manager, client
    <3>2. grants[c] \in Seq(Resources)
      BY <1>2 DEF Grants
    <3>3. /\ 1 \in 0..Len(grants[c])
          /\ Tail(grants[c]) = SubSeq(grants[c], 1 + 1, Len(grants[c]))
      BY <3>1, <3>2
    <3>4. AsksWell(inbox', queue', grants')
      BY <1>2, <3>1, <3>3, GrantsDropped
    <3>5. HoldsWhatItAskedFor'
      BY <1>2, <3>1, HoldsKept
    <3> QED  BY <3>1, <3>4, <3>5, AsksNext
  <2>6. ASSUME NEW def \in PoolDefs, RegisterPool(def)
        PROVE  AsksWell(inbox, queue, grants)' /\ HoldsWhatItAskedFor'
    <3> DEFINE sig == [kind |-> "register", def |-> def]
    <3>1. /\ inbox' = Append(inbox, sig)
          /\ UNCHANGED <<phase, step, held, pools, queue, grants>>
      BY <2>6 DEF RegisterPool, manager, client
    <3>2. sig \in Signal /\ sig.kind # "acquire"
      BY DEF Signal, ConstantsOK
    <3> HIDE DEF sig
    <3>3. AsksWell(inbox', queue', grants')
      BY <1>2, <3>1, <3>2, AsksSent
    <3>4. HoldsWhatItAskedFor'
      BY <1>2, <3>1, HoldsKept
    <3> QED  BY <3>1, <3>3, <3>4, AsksNext
  <2>7. ASSUME NEW c \in Clients, Close(c) \/ Terminate(c)
        PROVE  AsksWell(inbox, queue, grants)' /\ HoldsWhatItAskedFor'
    <3>1. CloseRun(c)
      BY <2>7 DEF Close, Terminate
    <3> QED  BY <1>1, <3>1, CloseAsks
  <2>8. AsksWell(inbox, queue, grants)' /\ HoldsWhatItAskedFor'
    BY <1>1, <1>4, <2>2, <2>4, <2>5, <2>6, <2>7, RegisterAsks, AcquireAsks, AcquiredHolds, FinishAsks
    DEF CoreNext, HandleSignal, Pipeline
  <2> QED  BY <1>1, <2>3, <2>8 DEF ServeInv
<1> QED  BY <1>3, <1>4

\* If besides no request is given up and no pipeline runs again under its
\* name, who asks is served with what was asked for, though signals get lost,
\* runs are terminated and pools are registered again.
THEOREM RequestsServed ==
  Budget["timeout"] = 0 /\ Budget["rerun"] = 0 => (PooledSpec => []ServedAsAsked)
<1> SUFFICES ASSUME Budget["timeout"] = 0 /\ Budget["rerun"] = 0
             PROVE  PooledSpec => []ServedAsAsked
  OBVIOUS
<1>1. Init => ServeInv
  <2> SUFFICES ASSUME Init
               PROVE  ServeInv
    OBVIOUS
  <2>1. WaitInv
    BY WaitInit, ConstantsOK
  <2>2. Patient
    BY DEF Init, Patient
  <2>3. AllCurrent(inbox, queue, grants) /\ AskedOnce(inbox, queue, grants)
    BY DEF Init, AllCurrent, AskedOnce, AsksOf, WaitsOf
  <2>4. HoldsWhatItAskedFor
    BY DEF Init, HoldsWhatItAskedFor
  <2> QED  BY <2>1, <2>2, <2>3, <2>4 DEF ServeInv, AsksWell
<1>2. ServeInv => ServedAsAsked
  BY DEF ServeInv, WaitInv, ServedAsAsked
<1> QED  BY <1>1, <1>2, ServeStep, ConstantsOK, PTL DEF PooledSpec

----------------------------------------------------------------------------
(* The named waiters of a resource *)

LEMMA CountFacts ==
  ASSUME NEW S, S \subseteq Nat, IsFiniteSet(S)
  PROVE  /\ Cardinality(S) \in Nat
         /\ \A i \in S : CountTo(S, i) \in 1..Cardinality(S)
         /\ \A i, j \in S : i < j => CountTo(S, i) < CountTo(S, j)
<1>1. Cardinality(S) \in Nat
  BY FS_CardinalityType
<1>2. ASSUME NEW i \in S
      PROVE  /\ IsFiniteSet({j \in S : j <= i}) /\ CountTo(S, i) \in Nat
             /\ CountTo(S, i) <= Cardinality(S) /\ CountTo(S, i) # 0
  <2> DEFINE U == {j \in S : j <= i}
  <2>1. IsFiniteSet(U) /\ Cardinality(U) <= Cardinality(S)
    BY FS_Subset
  <2>2. i \in U
    OBVIOUS
  <2> HIDE DEF U
  <2>3. Cardinality(U) \in Nat /\ Cardinality(U) # 0
    BY <2>1, <2>2, FS_CardinalityType, FS_EmptySet
  <2> QED  BY <2>1, <2>3 DEF CountTo, U
<1>3. ASSUME NEW i \in S, NEW j \in S, i < j
      PROVE  CountTo(S, i) < CountTo(S, j)
  <2> DEFINE U == {k \in S : k <= i}
             V == {k \in S : k <= j}
  <2>1. U \subseteq V /\ j \in V /\ j \notin U
    <3>1. S \subseteq Int /\ ~(j <= i) /\ j <= j
      BY <1>3
    <3>2. \A k \in S : k <= i => k <= j
      BY <1>3, <3>1
    <3> QED  BY <3>1, <3>2
  <2>2. IsFiniteSet(V) /\ Cardinality(V) \in Nat /\ Cardinality(U) \in Nat
    BY <1>2 DEF CountTo
  <2> HIDE DEF U, V
  <2>3. Cardinality(U) <= Cardinality(V) /\ Cardinality(U) # Cardinality(V)
    BY <2>1, <2>2, FS_Subset
  <2> QED  BY <2>2, <2>3 DEF CountTo, U, V
<1>4. \A i \in S : CountTo(S, i) \in 1..Cardinality(S)
  <2> SUFFICES ASSUME NEW i \in S
               PROVE  CountTo(S, i) \in 1..Cardinality(S)
    OBVIOUS
  <2>1. /\ CountTo(S, i) \in Nat /\ CountTo(S, i) <= Cardinality(S)
        /\ CountTo(S, i) # 0
    BY <1>2
  <2> QED  BY <1>1, <2>1
<1> QED  BY <1>1, <1>3, <1>4

\* Every number of a finite set has its place, and every place its number.
LEMMA NthFacts ==
  ASSUME NEW S, S \subseteq Nat, IsFiniteSet(S)
  PROVE  /\ \A n \in 1..Cardinality(S) : Nth(S, n) \in S /\ CountTo(S, Nth(S, n)) = n
         /\ \A i \in S : Nth(S, CountTo(S, i)) = i
         /\ \A m, n \in 1..Cardinality(S) : m < n => Nth(S, m) < Nth(S, n)
<1> DEFINE N == Cardinality(S)
           f == [i \in S |-> CountTo(S, i)]
<1>0. N \in Nat
  BY FS_CardinalityType
<1>1. \A i, j \in S : i # j => CountTo(S, i) # CountTo(S, j)
  <2> SUFFICES ASSUME NEW i \in S, NEW j \in S, i # j
               PROVE  CountTo(S, i) # CountTo(S, j)
    OBVIOUS
  <2>1. i \in Nat /\ j \in Nat /\ CountTo(S, i) \in Nat /\ CountTo(S, j) \in Nat
    <3>1. CountTo(S, i) \in 1..N /\ CountTo(S, j) \in 1..N
      BY CountFacts
    <3> HIDE DEF N
    <3> QED  BY <1>0, <3>1
  <2>2. i < j \/ j < i
    BY <2>1
  <2>3. CountTo(S, i) < CountTo(S, j) \/ CountTo(S, j) < CountTo(S, i)
    BY <2>2, CountFacts
  <2> QED  BY <2>1, <2>3
<1>2. f \in Injection(S, 1..N)
  <2>1. f \in [S -> 1..N]
    BY CountFacts
  <2> QED  BY <2>1, <1>1 DEF Injection, IsInjective
<1>3. IsFiniteSet(1..N) /\ Cardinality(1..N) = N
  BY <1>0, FS_Interval
<1> HIDE DEF f
<1>4. f \in Surjection(S, 1..N)
  BY <1>2, <1>3, FS_Injection
<1>5. \A n \in 1..N : \E i \in S : CountTo(S, i) = n
  BY <1>4 DEF Surjection, f
<1>6. \A n \in 1..N : Nth(S, n) \in S /\ CountTo(S, Nth(S, n)) = n
  BY <1>5 DEF Nth
<1>7. ASSUME NEW i \in S
      PROVE  Nth(S, CountTo(S, i)) = i
  <2>1. CountTo(S, i) \in 1..N
    BY CountFacts
  <2> QED  BY <2>1, <1>1, <1>6
<1>8. ASSUME NEW m \in 1..N, NEW n \in 1..N, m < n
      PROVE  Nth(S, m) < Nth(S, n)
  <2>1. Nth(S, m) \in S /\ CountTo(S, Nth(S, m)) = m /\ Nth(S, n) \in S /\ CountTo(S, Nth(S, n)) = n
    BY <1>6
  <2> DEFINE a == Nth(S, m)
             b == Nth(S, n)
  <2> HIDE DEF a, b
  <2>2. a \in S /\ b \in S /\ CountTo(S, a) = m /\ CountTo(S, b) = n
    BY <2>1 DEF a, b
  <2>3. a \in Nat /\ b \in Nat /\ m \in Nat /\ n \in Nat
    BY <2>2, <1>0
  <2>4. a # b /\ ~(b < a)
    <3>1. CountTo(S, a) # CountTo(S, b)
      BY <2>2, <2>3, <1>8
    <3>2. b < a => CountTo(S, b) < CountTo(S, a)
      BY <2>2, CountFacts
    <3> QED  BY <2>2, <2>3, <1>8, <3>1, <3>2
  <2> QED  BY <2>3, <2>4 DEF a, b
<1> QED  BY <1>6, <1>7, <1>8

\* An increasing map of one set onto another keeps the places.
LEMMA NthMoved ==
  ASSUME NEW S \in SUBSET Nat, NEW T \in SUBSET Nat, NEW f \in [S -> T], IsFiniteSet(S),
         \A i, j \in S : i < j => f[i] < f[j],
         \A t \in T : \E i \in S : f[i] = t
  PROVE  /\ IsFiniteSet(T) /\ Cardinality(T) = Cardinality(S)
         /\ \A n \in 1..Cardinality(S) : Nth(T, n) = f[Nth(S, n)]
<1>1. \A i, j \in S : f[i] <= f[j] <=> i <= j
  <2> SUFFICES ASSUME NEW i \in S, NEW j \in S
               PROVE  f[i] <= f[j] <=> i <= j
    OBVIOUS
  <2>1. i \in Nat /\ j \in Nat /\ f[i] \in Nat /\ f[j] \in Nat
    OBVIOUS
  <2>2. (i < j => f[i] < f[j]) /\ (j < i => f[j] < f[i])
    OBVIOUS
  <2> QED  BY <2>1, <2>2
<1>2. \A i, j \in S : f[i] = f[j] => i = j
  <2> SUFFICES ASSUME NEW i \in S, NEW j \in S, f[i] = f[j]
               PROVE  i = j
    OBVIOUS
  <2>1. i \in Nat /\ j \in Nat /\ f[i] \in Nat
    OBVIOUS
  <2> QED  BY <2>1, <1>1
<1>3. f \in Bijection(S, T)
  BY <1>2 DEF Bijection, Injection, Surjection, IsInjective
<1>4. IsFiniteSet(T) /\ Cardinality(T) = Cardinality(S)
  BY <1>3, FS_Bijection DEF ExistsBijection
<1>5. ASSUME NEW i \in S
      PROVE  CountTo(T, f[i]) = CountTo(S, i)
  <2> DEFINE U == {j \in S : j <= i}
             V == {t \in T : t <= f[i]}
             g == [j \in U |-> f[j]]
  <2>1. g \in [U -> V]
    BY <1>1
  <2>2. \A j, k \in U : g[j] = g[k] => j = k
    BY <1>2
  <2>3. \A t \in V : \E j \in U : g[j] = t
    BY <1>1
  <2>4. IsFiniteSet(U)
    BY FS_Subset
  <2> HIDE DEF g, U, V
  <2>5. g \in Bijection(U, V)
    BY <2>1, <2>2, <2>3 DEF Bijection, Injection, Surjection, IsInjective
  <2>6. Cardinality(V) = Cardinality(U)
    BY <2>4, <2>5, FS_Bijection DEF ExistsBijection
  <2> QED  BY <2>6 DEF CountTo, U, V
<1>6. ASSUME NEW n \in 1..Cardinality(S)
      PROVE  Nth(T, n) = f[Nth(S, n)]
  <2>1. Nth(S, n) \in S /\ CountTo(S, Nth(S, n)) = n
    BY NthFacts
  <2>2. f[Nth(S, n)] \in T /\ CountTo(T, f[Nth(S, n)]) = n
    BY <2>1, <1>5
  <2>3. Nth(T, CountTo(T, f[Nth(S, n)])) = f[Nth(S, n)]
    BY <2>2, <1>4, NthFacts
  <2> QED  BY <2>2, <2>3
<1> QED  BY <1>4, <1>6

\* Without its first number, the places of a set move up by one.
LEMMA NthBehind ==
  ASSUME NEW S, S \subseteq Nat, IsFiniteSet(S), NEW k \in S, \A i \in S : k <= i
  PROVE  /\ IsFiniteSet(S \ {k}) /\ Cardinality(S \ {k}) = Cardinality(S) - 1
         /\ \A n \in 1..(Cardinality(S) - 1) : Nth(S \ {k}, n) = Nth(S, n + 1)
<1> DEFINE R == S \ {k}
<1>1. IsFiniteSet(R) /\ Cardinality(R) = Cardinality(S) - 1 /\ R \subseteq Nat /\ Cardinality(S) \in Nat
  BY FS_RemoveElement, FS_CardinalityType
<1>2. ASSUME NEW i \in R
      PROVE  CountTo(S, i) = CountTo(R, i) + 1
  <2> DEFINE U == {j \in R : j <= i}
  <2>1. {j \in S : j <= i} = U \cup {k} /\ k \notin U
    OBVIOUS
  <2>2. IsFiniteSet(U)
    BY <1>1, FS_Subset
  <2> HIDE DEF U
  <2>3. Cardinality(U \cup {k}) = Cardinality(U) + 1
    BY <2>1, <2>2, FS_AddElement
  <2> QED  BY <2>1, <2>3 DEF CountTo, U
<1> HIDE DEF R
<1>3. ASSUME NEW n \in 1..(Cardinality(S) - 1)
      PROVE  Nth(R, n) = Nth(S, n + 1)
  <2> DEFINE i == Nth(R, n)
  <2>1. i \in R /\ CountTo(R, i) = n
    BY <1>1, NthFacts
  <2>2. i \in S /\ CountTo(S, i) = n + 1
    BY <2>1, <1>2 DEF R
  <2> QED  BY <2>2, NthFacts
<1> QED  BY <1>1, <1>3 DEF R

\* A number above all the others takes the last place.
LEMMA NthAhead ==
  ASSUME NEW S, S \subseteq Nat, IsFiniteSet(S), NEW k \in Nat, \A i \in S : i < k
  PROVE  /\ IsFiniteSet(S \cup {k}) /\ Cardinality(S \cup {k}) = Cardinality(S) + 1
         /\ \A n \in 1..Cardinality(S) : Nth(S \cup {k}, n) = Nth(S, n)
<1> DEFINE T == S \cup {k}
<1>1. k \notin S
  OBVIOUS
<1>2. IsFiniteSet(T) /\ Cardinality(T) = Cardinality(S) + 1 /\ T \subseteq Nat
  BY <1>1, FS_AddElement
<1>3. ASSUME NEW i \in S
      PROVE  CountTo(T, i) = CountTo(S, i)
  <2>1. i \in Nat /\ i < k
    OBVIOUS
  <2>2. {j \in T : j <= i} = {j \in S : j <= i}
    BY <2>1
  <2> QED  BY <2>2 DEF CountTo
<1> HIDE DEF T
<1>4. ASSUME NEW n \in 1..Cardinality(S)
      PROVE  Nth(T, n) = Nth(S, n)
  <2>1. Nth(S, n) \in S /\ CountTo(S, Nth(S, n)) = n
    BY NthFacts
  <2>2. Nth(S, n) \in T /\ CountTo(T, Nth(S, n)) = n
    BY <2>1, <1>3 DEF T
  <2> QED  BY <2>2, <1>2, NthFacts
<1> QED  BY <1>2, <1>4 DEF T

LEMMA PickedElements ==
  ASSUME NEW Q, NEW s \in Seq(Q), NEW S, S \subseteq DOMAIN s
  PROVE  /\ IsFiniteSet(S) /\ S \subseteq Nat /\ Cardinality(S) \in Nat
         /\ Picked(s, S) \in Seq(Q) /\ Len(Picked(s, S)) = Cardinality(S)
         /\ \A n \in 1..Cardinality(S) : Picked(s, S)[n] = s[Nth(S, n)]
<1>1. DOMAIN s = 1..Len(s) /\ Len(s) \in Nat
  OBVIOUS
<1>2. IsFiniteSet(DOMAIN s)
  BY <1>1, FS_Interval
<1>3. IsFiniteSet(S) /\ S \subseteq Nat
  BY <1>1, <1>2, FS_Subset
<1>4. Cardinality(S) \in Nat
  BY <1>3, FS_CardinalityType
<1>5. \A n \in 1..Cardinality(S) : s[Nth(S, n)] \in Q
  <2> SUFFICES ASSUME NEW n \in 1..Cardinality(S)
               PROVE  s[Nth(S, n)] \in Q
    OBVIOUS
  <2>1. Nth(S, n) \in DOMAIN s
    BY <1>3, NthFacts
  <2> QED  BY <2>1, ElementOfSeq, <1>1
<1> DEFINE N == Cardinality(S)
           e(n) == s[Nth(S, n)]
<1>6. Picked(s, S) = [n \in 1..N |-> e(n)]
  BY DEF Picked
<1> HIDE DEF N, e
<1>7. /\ Picked(s, S) \in [1..N -> Q]
      /\ \A n \in 1..N : Picked(s, S)[n] = e(n)
  BY <1>5, <1>6 DEF N, e
<1>8. N \in Nat
  BY <1>4 DEF N
<1>9. Picked(s, S) \in Seq(Q) /\ Len(Picked(s, S)) = N
  BY <1>7, <1>8
<1> QED  BY <1>3, <1>4, <1>7, <1>9 DEF N, e

\* A request that is queued waits behind the others.
LEMMA ListGrows ==
  ASSUME NEW q \in Queued, NEW r, queue \in Seq(Queued), queue' = Append(queue, q)
  PROVE  \/ NamedWaiters(r)' = NamedWaiters(r)
         \/ NamedWaiters(r)' # <<>> /\ NamedWaiters(r) = Front(NamedWaiters(r)')
<1> DEFINE n == Len(queue)
           S == WaitsFor(queue, r)
           T == WaitsFor(queue', r)
<1>1. /\ n \in Nat /\ queue' \in Seq(Queued)
      /\ DOMAIN queue = 1..n /\ DOMAIN queue' = 1..(n + 1)
      /\ \A i \in 1..n : queue'[i] = queue[i]
  BY AppendProperties, LenProperties
<1>2. S \subseteq DOMAIN queue /\ T \subseteq DOMAIN queue'
  BY DEF WaitsFor
<1>3. T = S \/ T = S \cup {n + 1}
  BY <1>1 DEF WaitsFor
<1>4. NamedWaiters(r) = Picked(queue, S) /\ NamedWaiters(r)' = Picked(queue', T)
  BY DEF NamedWaiters
<1> HIDE DEF S, T
<1>5. /\ IsFiniteSet(S) /\ S \subseteq Nat /\ Cardinality(S) \in Nat
      /\ Picked(queue, S) \in Seq(Queued) /\ Len(Picked(queue, S)) = Cardinality(S)
      /\ \A k \in 1..Cardinality(S) : Picked(queue, S)[k] = queue[Nth(S, k)]
  BY <1>2, PickedElements
<1>6. /\ IsFiniteSet(T) /\ T \subseteq Nat /\ Cardinality(T) \in Nat
      /\ Picked(queue', T) \in Seq(Queued) /\ Len(Picked(queue', T)) = Cardinality(T)
      /\ \A k \in 1..Cardinality(T) : Picked(queue', T)[k] = queue'[Nth(T, k)]
  <2>1. queue' \in Seq(Queued)
    BY <1>1
  <2> QED  BY <1>2, <2>1, PickedElements
<1>7. \A k \in 1..Cardinality(S) : Nth(S, k) \in 1..n
  BY <1>1, <1>2, <1>5, NthFacts
<1>8. CASE T = S
  <2>1. \A k \in 1..Cardinality(S) : Picked(queue', T)[k] = Picked(queue, S)[k]
    BY <1>1, <1>5, <1>6, <1>7, <1>8
  <2>2. Picked(queue', T) = Picked(queue, S)
    BY <2>1, <1>5, <1>6, <1>8, SeqEqual
  <2> QED  BY <2>2, <1>4
<1>9. CASE T = S \cup {n + 1}
  <2>1. \A i \in S : i < n + 1
    BY <1>1, <1>2
  <2>2. /\ Cardinality(T) = Cardinality(S) + 1
        /\ \A k \in 1..Cardinality(S) : Nth(T, k) = Nth(S, k)
    <3>1. n + 1 \in Nat
      BY <1>1
    <3> QED  BY <1>5, <1>9, <2>1, <3>1, NthAhead, Zenon
  <2> DEFINE after == Picked(queue', T)
             before == Picked(queue, S)
             m == Cardinality(S)
  <2>3. \A k \in 1..m : after[k] = before[k]
    BY <1>1, <1>5, <1>6, <1>7, <2>2
  <2> HIDE DEF after, before, m
  <2>4. /\ m \in Nat /\ after \in Seq(Queued) /\ Len(after) = m + 1
        /\ before \in Seq(Queued) /\ Len(before) = m
    BY <1>5, <1>6, <2>2 DEF after, before, m
  <2>5. /\ SubSeq(after, 1, m) \in Seq(Queued) /\ Len(SubSeq(after, 1, m)) = m
        /\ \A k \in 1..m : SubSeq(after, 1, m)[k] = after[k]
    BY <2>4
  <2>6. SubSeq(after, 1, m) = before
    BY <2>3, <2>4, <2>5, SeqEqual
  <2>7. Front(after) = before /\ after # <<>>
    BY <2>4, <2>6 DEF Front
  <2> QED  BY <2>7, <1>4 DEF after, before
<1> QED  BY <1>3, <1>8, <1>9

\* When the element at k leaves the queue, the others keep their order; when it
\* waited for r before all the others, they move up.
LEMMA ListShrinks ==
  ASSUME NEW r, NEW k \in DOMAIN queue, queue \in Seq(Queued), queue' = RemoveAt(queue, k),
         k \in WaitsFor(queue, r) => \A i \in WaitsFor(queue, r) : k <= i
  PROVE  \/ NamedWaiters(r)' = NamedWaiters(r)
         \/ NamedWaiters(r) # <<>> /\ NamedWaiters(r)' = Tail(NamedWaiters(r))
<1> DEFINE n == Len(queue)
           S == WaitsFor(queue, r)
           R == S \ {k}
           T == WaitsFor(queue', r)
           to(i) == IF i < k THEN i ELSE i - 1
           f == [i \in R |-> to(i)]
<1>1. /\ n \in Nat /\ k \in 1..n /\ queue' \in Seq(Queued)
      /\ DOMAIN queue = 1..n /\ DOMAIN queue' = 1..(n - 1)
      /\ \A j \in 1..(n - 1) : queue'[j] = IF j < k THEN queue[j] ELSE queue[j + 1]
  BY RemoveAtElements, LenProperties
<1>2. S \subseteq 1..n /\ T \subseteq DOMAIN queue' /\ R \subseteq 1..n /\ k \notin R
  BY <1>1 DEF WaitsFor
<1>3. \A i \in (1..n) \ {k} : to(i) \in 1..(n - 1) /\ queue'[to(i)] = queue[i]
  BY <1>1
<1>4. \A i \in R : to(i) \in T
  BY <1>1, <1>3 DEF WaitsFor
<1>5. \A t \in T : \E i \in R : to(i) = t
  <2> SUFFICES ASSUME NEW t \in T
               PROVE  \E i \in R : to(i) = t
    OBVIOUS
  <2>1. t \in 1..(n - 1) /\ queue'[t].pool = None /\ queue'[t].resource = r
    BY <1>1 DEF WaitsFor
  <2>2. CASE t < k
    <3>1. t \in 1..n /\ t # k /\ to(t) = t
      BY <1>1, <2>1, <2>2
    <3>2. t \in R
      BY <1>1, <2>1, <2>2, <3>1 DEF WaitsFor
    <3> QED  BY <3>1, <3>2
  <2>3. CASE ~(t < k)
    <3>1. t + 1 \in 1..n /\ t + 1 # k /\ to(t + 1) = t
      BY <1>1, <2>1, <2>3
    <3>2. t + 1 \in R
      BY <1>1, <2>1, <2>3, <3>1 DEF WaitsFor
    <3> QED  BY <3>1, <3>2
  <2> QED  BY <2>2, <2>3
<1>6. \A i, j \in R : i < j => to(i) < to(j)
  BY <1>1, <1>2
<1>7. NamedWaiters(r) = Picked(queue, S) /\ NamedWaiters(r)' = Picked(queue', T)
  BY DEF NamedWaiters
<1>01. \A i \in R : queue'[to(i)] = queue[i]
  BY <1>2, <1>3
<1>02. f \in [R -> T]
  BY <1>4
<1>03. \A i \in R : f[i] = to(i)
  OBVIOUS
<1>04. k \in S => \A i \in S : k <= i
  OBVIOUS
<1> HIDE DEF S, R, T, f, to
<1>8. /\ IsFiniteSet(S) /\ S \subseteq Nat /\ Cardinality(S) \in Nat
      /\ Picked(queue, S) \in Seq(Queued) /\ Len(Picked(queue, S)) = Cardinality(S)
      /\ \A i \in 1..Cardinality(S) : Picked(queue, S)[i] = queue[Nth(S, i)]
  <2>1. S \subseteq DOMAIN queue
    BY <1>1, <1>2
  <2> QED  BY <2>1, PickedElements
<1>9. /\ T \subseteq Nat /\ Cardinality(T) \in Nat
      /\ Picked(queue', T) \in Seq(Queued) /\ Len(Picked(queue', T)) = Cardinality(T)
      /\ \A i \in 1..Cardinality(T) : Picked(queue', T)[i] = queue'[Nth(T, i)]
  <2>1. queue' \in Seq(Queued)
    BY <1>1
  <2> QED  BY <1>2, <2>1, PickedElements
<1>10. IsFiniteSet(R) /\ R \subseteq Nat
  BY <1>1, <1>2, PickedElements
<1>11. /\ Cardinality(T) = Cardinality(R)
       /\ \A i \in 1..Cardinality(R) : Nth(T, i) = f[Nth(R, i)]
  <2>1. \A i, j \in R : i < j => f[i] < f[j]
    BY <1>03, <1>6
  <2>2. \A t \in T : \E i \in R : f[i] = t
    BY <1>03, <1>5
  <2>3. T \in SUBSET Nat /\ R \in SUBSET Nat
    BY <1>9, <1>10
  <2> QED  BY <1>02, <1>10, <2>1, <2>2, <2>3, NthMoved
<1>12. \A i \in 1..Cardinality(R) : Picked(queue', T)[i] = queue[Nth(R, i)]
  <2> SUFFICES ASSUME NEW i \in 1..Cardinality(R)
               PROVE  Picked(queue', T)[i] = queue[Nth(R, i)]
    OBVIOUS
  <2>1. Nth(R, i) \in R
    BY <1>10, NthFacts
  <2>2. Nth(T, i) = to(Nth(R, i))
    BY <1>11, <1>03, <2>1
  <2> QED  BY <2>1, <2>2, <1>01, <1>9, <1>11
<1>13. CASE k \notin S
  <2>1. R = S
    BY <1>13 DEF R
  <2>2. Picked(queue', T) = Picked(queue, S)
    BY <2>1, <1>8, <1>9, <1>11, <1>12, SeqEqual
  <2> QED  BY <2>2, <1>7
<1>14. CASE k \in S
  <2>1. /\ Cardinality(R) = Cardinality(S) - 1
        /\ \A i \in 1..(Cardinality(S) - 1) : Nth(R, i) = Nth(S, i + 1)
    BY <1>04, <1>8, <1>14, NthBehind DEF R
  <2> DEFINE before == Picked(queue, S)
             after == Picked(queue', T)
             m == Cardinality(S)
  <2>2. m \in Nat /\ m # 0
    BY <1>8, <1>14, FS_EmptySet
  <2>3. \A i \in 1..(m - 1) : i + 1 \in 1..m
    BY <2>2
  <2>4. \A i \in 1..(m - 1) : after[i] = before[i + 1]
    BY <1>8, <1>12, <2>1, <2>3
  <2> HIDE DEF before, after, m
  <2>5. /\ before \in Seq(Queued) /\ Len(before) = m
        /\ after \in Seq(Queued) /\ Len(after) = m - 1
    BY <1>8, <1>9, <1>11, <2>1 DEF before, after, m
  <2>6. before # <<>>
    BY <2>2, <2>5
  <2>7. /\ Tail(before) \in Seq(Queued) /\ Len(Tail(before)) = m - 1
        /\ \A i \in 1..(m - 1) : Tail(before)[i] = before[i + 1]
    BY <2>5, <2>6, HeadTailProperties
  <2>8. after = Tail(before)
    BY <2>4, <2>5, <2>7, SeqEqual
  <2> QED  BY <2>6, <2>8, <1>7 DEF before, after
<1> QED  BY <1>13, <1>14

LEMMA SameList ==
  ASSUME NEW r, UNCHANGED queue
  PROVE  InOrder(r)
BY DEF InOrder, NamedWaiters

LEMMA AcquireKeepsOrder ==
  ASSUME TypeOK, NEW r, NEW i \in DOMAIN inbox, HandleAcquire(i)
  PROVE  InOrder(r)
<1>1. queue \in Seq(Queued) /\ inbox \in Seq(Signal) /\ inbox[i].kind = "acquire"
  BY DEF TypeOK, HandleAcquire
<1>2. inbox[i].req \in Queued
  <2>1. inbox[i] \in Signal
    BY <1>1
  <2> QED  BY <1>1, <2>1, SignalTypes
<1>3. UNCHANGED queue \/ queue' = Append(queue, inbox[i].req)
  BY DEF HandleAcquire, Enqueue
<1>4. CASE queue' = Append(queue, inbox[i].req)
  BY <1>1, <1>2, <1>4, ListGrows DEF InOrder
<1> QED  BY <1>3, <1>4, SameList

\* The waiter that a release serves is the first of those that named its
\* resource: an earlier one would have been served instead.
LEMMA ReleaseKeepsOrder ==
  ASSUME ConstantsOK, TypeOK, NEW r \in Resources, NEW i \in DOMAIN inbox, HandleRelease(i)
  PROVE  InOrder(r)
<1>1. PICK released \in ReleaseTargets(inbox[i].req) :
        LET freed == [q \in Resources |-> IF q = released THEN None ELSE locks[q]] IN
        \/ \E k \in DOMAIN queue :
             /\ \A j \in 1..(k - 1) : Served(queue[j], freed, released) = {}
             /\ \E q \in Served(queue[k], freed, released) :
                  GrantFrom(freed, q, queue[k].requester)
             /\ queue' = RemoveAt(queue, k)
        \/ UNCHANGED queue
  BY DEF HandleRelease
<1> DEFINE freed == [q \in Resources |-> IF q = released THEN None ELSE locks[q]]
<1>2. queue \in Seq(Queued) /\ DOMAIN queue = 1..Len(queue) /\ Len(queue) \in Nat
  BY DEF TypeOK
<1> HIDE DEF freed
<1>3. ASSUME NEW k \in DOMAIN queue,
             \A j \in 1..(k - 1) : Served(queue[j], freed, released) = {},
             Served(queue[k], freed, released) # {},
             queue' = RemoveAt(queue, k)
      PROVE  InOrder(r)
  <2>1. k \in WaitsFor(queue, r) => \A j \in WaitsFor(queue, r) : k <= j
    <3> SUFFICES ASSUME k \in WaitsFor(queue, r), NEW j \in WaitsFor(queue, r), ~(k <= j)
                 PROVE  FALSE
      OBVIOUS
    <3>1. /\ queue[k].pool = None /\ queue[k].resource = r
          /\ j \in DOMAIN queue /\ queue[j].pool = None /\ queue[j].resource = r
      BY DEF WaitsFor
    <3>2. j \in 1..(k - 1)
      BY <1>2, <3>1
    <3>3. r = released
      BY <1>3, <3>1 DEF Served
    <3>4. r \in Served(queue[j], freed, released)
      BY <3>1, <3>3 DEF Served
    <3> QED  BY <1>3, <3>2, <3>4
  <2> QED  BY <1>2, <1>3, <2>1, ListShrinks DEF InOrder
<1>4. CASE UNCHANGED queue
  BY <1>4, SameList
<1> QED  BY <1>1, <1>3, <1>4 DEF freed

LEMMA OrderStep ==
  ASSUME ConstantsOK, TypeOK, [Next]_vars, NEW r \in Resources
  PROVE  InOrder(r)
<1>1. CASE \E i \in DOMAIN inbox : HandleAcquire(i)
  BY <1>1, AcquireKeepsOrder
<1>2. CASE \E i \in DOMAIN inbox : HandleRelease(i)
  BY <1>2, ReleaseKeepsOrder
<1>3. CASE \E i \in DOMAIN inbox : HandleRegister(i)
  BY <1>3, SameList DEF HandleRegister
<1>4. CASE \E c \in Clients : Pipeline(c)
  BY <1>4, SameList DEF Pipeline, Acquire, Acquired, AcquireTimeout, FinishStep, Close,
                        Terminate, CloseRun, Rerun, GrantFails, manager
<1>5. CASE \E def \in PoolDefs : RegisterPool(def)
  BY <1>5, SameList DEF RegisterPool, manager
<1>6. CASE ContinueAsNew
  BY <1>6 DEF ContinueAsNew, InOrder
<1>7. CASE \E q \in Resources : ForceRelease(q)
  BY <1>7, SameList DEF ForceRelease, manager
<1>8. CASE UNCHANGED vars
  BY <1>8, SameList DEF vars
<1> QED
  BY <1>1, <1>2, <1>3, <1>4, <1>5, <1>6, <1>7, <1>8 DEF Next, CoreNext, HandleSignal

\* Whoever named a resource and has to wait for it is served in turn, whatever
\* is lost, forced, terminated or run again: a step adds to the end of the
\* list of the resource's waiters, takes its head, or forgets everybody.
THEOREM WaitersServedInOrder == Spec => ServedInOrder
<1>1. ConstantsOK /\ TypeOK /\ [Next]_vars => \A r \in Resources : InOrder(r)
  BY OrderStep
<1> QED  BY <1>1, TypeCorrect, ConstantsOK, PTL DEF Spec, ServedInOrder
=============================================================================
