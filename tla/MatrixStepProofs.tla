-------------------------- MODULE MatrixStepProofs --------------------------
(***************************************************************************)
(* Proofs about MatrixStep, for a matrix of any number of combinations and *)
(* any settings of fail_fast and max_parallel.                             *)
(***************************************************************************)
EXTENDS MatrixStep, FiniteSetTheorems, SequenceTheorems, TLAPS

----------------------------------------------------------------------------
(* The inductive invariant *)

InWindow(k) == awaited = k \/ \E x \in DOMAIN pending : pending[x] = k

HasResult(k) == \E r \in DOMAIN results : results[r].combo = k

\* Every combination the loop has passed is in exactly one place.
OncePlaced ==
  /\ \A x, y \in DOMAIN pending : pending[x] = pending[y] => x = y
  /\ \A r, s \in DOMAIN results : results[r].combo = results[s].combo => r = s
  /\ \A x \in DOMAIN pending : pending[x] # awaited
  /\ \A k \in Combos : ~(InWindow(k) /\ HasResult(k))
  /\ \A k \in Combos : k < next <=> InWindow(k) \/ HasResult(k)

\* The window has room for the child it waits for; children still open are in it.
WindowKept ==
  /\ Len(pending) < Window
  /\ \A k \in Combos : future[k] = "open" => InWindow(k)

\* The commands that somebody still answers for.
Attended == running \ adrift

\* As long as nothing was cancelled, what runs and was not given up is open.
\* Afterwards nothing is started, and what runs is no more than before.
OpenOrEnding ==
  /\ ~stopped /\ ~cancelled => \A k \in Attended : future[k] = "open"
  /\ Cardinality(Attended) <= Window

\* Commands are of children that were started.
CommandsKept ==
  /\ \A k \in running \cup adrift : k < next
  /\ GivenUpFailed

Bookkeeping == OncePlaced /\ WindowKept /\ OpenOrEnding /\ CommandsKept

\* Combinations are left out, and children cancelled, because one failed.
StopsForFailure ==
  /\ \A r \in DOMAIN results : results[r].status = "skipped" => stopped
  /\ stopped => \E r \in DOMAIN results : results[r].status = "failed"
  /\ stopped => \A k \in Combos : future[k] # "open"

MatrixInv == TypeOK /\ Bookkeeping /\ StopsForFailure

----------------------------------------------------------------------------
(* Sequences and sizes *)

\* A sequence has no more elements than places.
LEMMA ElementsBounded ==
  ASSUME NEW S, NEW s \in Seq(S)
  PROVE  IsFiniteSet(ToSet(s)) /\ Cardinality(ToSet(s)) <= Len(s)
<1>1. Len(s) \in Nat /\ DOMAIN s = 1..Len(s)
  OBVIOUS
<1>2. s \in Surjection(1..Len(s), ToSet(s))
  BY <1>1 DEF Surjection, ToSet
<1>3. IsFiniteSet(1..Len(s)) /\ Cardinality(1..Len(s)) = Len(s)
  BY <1>1, FS_Interval
<1> QED  BY <1>2, <1>3, FS_Surjection

\* A set with at most one element has size zero or one.
LEMMA SizeOfFew ==
  ASSUME NEW S, \A x, y \in S : x = y
  PROVE  Cardinality(S) = IF S = {} THEN 0 ELSE 1
<1>1. CASE S = {}
  BY <1>1, FS_EmptySet
<1>2. CASE S # {}
  <2>1. PICK x \in S : S = {x}
    BY <1>2
  <2> QED  BY <2>1, FS_Singleton
<1> QED  BY <1>1, <1>2

LEMMA WindowSize == MatrixOK /\ TypeOK => Window \in Nat /\ Window > 0
<1> SUFFICES ASSUME MatrixOK, TypeOK
             PROVE  Window \in Nat /\ Window > 0
  OBVIOUS
<1>1. matrix.maxParallel \in Sizes
  BY DEF TypeOK
<1>2. matrix.maxParallel \in Nat
  BY <1>1 DEF MatrixOK
<1> QED  BY <1>2 DEF Window

----------------------------------------------------------------------------
(* Types *)

\* The settings never change, so neither does the window.
LEMMA SettingsStay == [Next]_vars => Window' = Window
BY DEF Next, Parent, Start, SkipRest, Drain, Collect, Child, ChildEnds, ChildGivesUp, CommandEnds,
       CancelRun, vars, Window

LEMMA MatrixTypes == MatrixOK /\ TypeOK /\ [Next]_vars => TypeOK'
<1> SUFFICES ASSUME MatrixOK, TypeOK, [Next]_vars
             PROVE  TypeOK'
  OBVIOUS
<1> USE DEF TypeOK, MatrixOK, Combos
<1> DEFINE Result == [combo : Combos, status : {"passed", "failed", "skipped"}]
<1>1. CASE Start
  <2> DEFINE p == Append(pending, next)
  <2>1. next \in Combos /\ p \in Seq(Combos) /\ p # <<>>
    <3>1. next \in Combos /\ pending \in Seq(Combos)
      BY <1>1 DEF Start
    <3>2. p \in Seq(Combos)
      BY <3>1
    <3>3. p # <<>>
      <4> HIDE DEF Combos, TypeOK, MatrixOK
      <4> QED  BY <3>1, AppendProperties, Zenon
    <3> QED  BY <3>1, <3>2, <3>3
  <2>2. pending' \in Seq(Combos) /\ awaited' \in 0..N
    <3>1. Tail(p) \in Seq(Combos) /\ Head(p) \in Combos
      BY <2>1
    <3>2. \/ pending' = Tail(p) /\ awaited' = Head(p)
          \/ pending' = p /\ awaited' = 0
      BY <1>1 DEF Start
    <3> HIDE DEF p
    <3>3. CASE pending' = Tail(p) /\ awaited' = Head(p)
      BY <3>1, <3>3
    <3>4. CASE pending' = p /\ awaited' = 0
      BY <2>1, <3>4
    <3> QED  BY <3>2, <3>3, <3>4
  <2>3. /\ future' \in [Combos -> {"none", "open", "passed", "failed"}]
        /\ running' \in SUBSET Combos
    BY <1>1, <2>1 DEF Start
  <2>4. next' \in 1..(N + 1) /\ UNCHANGED <<matrix, stopped, results, adrift, cancelled>>
    BY <1>1 DEF Start
  <2> HIDE DEF p
  <2> QED  BY <2>2, <2>3, <2>4
<1>2. CASE SkipRest
  <2>1. next \in Combos /\ [combo |-> next, status |-> "skipped"] \in Result
    BY <1>2 DEF SkipRest
  <2> QED  BY <1>2, <2>1 DEF SkipRest
<1>3. CASE Drain
  BY <1>3 DEF Drain
<1>4. CASE Collect
  <2>1. awaited \in Combos /\ [combo |-> awaited, status |-> future[awaited]] \in Result
    BY <1>4 DEF Collect
  <2>2. future' \in [Combos -> {"none", "open", "passed", "failed"}] /\ stopped' \in BOOLEAN
    BY <1>4 DEF Collect, CancelAll
  <2> QED  BY <1>4, <2>1, <2>2 DEF Collect
<1>5. ASSUME NEW k \in Combos, ChildEnds(k) \/ ChildGivesUp(k) \/ CommandEnds(k)
      PROVE  TypeOK'
  <2>1. CASE ChildEnds(k)
    BY <2>1 DEF ChildEnds
  <2>2. CASE ChildGivesUp(k)
    BY <2>2 DEF ChildGivesUp
  <2>3. CASE CommandEnds(k)
    BY <2>3 DEF CommandEnds
  <2> QED  BY <1>5, <2>1, <2>2, <2>3
<1>6. CASE CancelRun
  BY <1>6 DEF CancelRun, CancelAll
<1>7. CASE UNCHANGED vars
  BY <1>7 DEF vars
<1> QED  BY <1>1, <1>2, <1>3, <1>4, <1>5, <1>6, <1>7
     DEF Next, Parent, Child

----------------------------------------------------------------------------
(* One place for every combination *)

\* What a start does to the window: the new child enters it, nothing leaves.
LEMMA StartWindow ==
  ASSUME MatrixOK, TypeOK, OncePlaced, Len(pending) < Window, Start
  PROVE  /\ next \in Combos /\ ~InWindow(next) /\ ~HasResult(next)
         /\ \A k \in Combos : InWindow(k)' <=> InWindow(k) \/ k = next
         /\ \A x, y \in DOMAIN pending' : pending'[x] = pending'[y] => x = y
         /\ \A x \in DOMAIN pending' : pending'[x] # awaited'
         /\ Len(pending') < Window
<1> DEFINE n == Len(pending) + 1
           p == Append(pending, next)
<1>1. next \in Combos /\ awaited = 0 /\ 0 \notin Combos /\ ~(next < next)
  BY DEF MatrixOK, TypeOK, Start, Combos
<1>2. ~InWindow(next) /\ ~HasResult(next)
  BY <1>1 DEF OncePlaced
<1>3. /\ p \in Seq(Combos) /\ Len(p) = n /\ n \in Nat \ {0} /\ Len(pending) = n - 1
      /\ p[n] = next /\ \A x \in 1..(n - 1) : p[x] = pending[x] /\ x \in DOMAIN pending
  BY <1>1 DEF TypeOK
<1>4. \A x \in 1..(n - 1) : p[x] # next
  BY <1>2, <1>3 DEF InWindow
<1>5. \A x, y \in 1..n : p[x] = p[y] => x = y
  BY <1>3, <1>4 DEF OncePlaced
<1>6. \A k \in Combos : (\E x \in 1..n : p[x] = k) <=> InWindow(k) \/ k = next
  BY <1>1, <1>3 DEF InWindow
<1>7. IF Full(p) THEN pending' = Tail(p) /\ awaited' = Head(p)
      ELSE pending' = p /\ awaited' = 0
  BY <1>1 DEF Start
<1>8. Window \in Nat /\ Window > 0
  BY WindowSize
<1> HIDE DEF p, n
<1>9. CASE Full(p)
  <2>1. n = Window
    BY <1>3, <1>8, <1>9 DEF Full
  <2>2. /\ Len(pending') = n - 1 /\ DOMAIN pending' = 1..(n - 1)
        /\ \A x \in 1..(n - 1) : pending'[x] = p[x + 1]
        /\ awaited' = p[1]
    <3>1. pending' = Tail(p) /\ awaited' = Head(p) /\ p # <<>>
      BY <1>3, <1>7, <1>9
    <3> QED  BY <1>3, <3>1
  <2>3. \A k \in Combos : InWindow(k)' <=> \E x \in 1..n : p[x] = k
    <3> SUFFICES ASSUME NEW k \in Combos
                 PROVE  awaited' = k \/ (\E x \in DOMAIN pending' : pending'[x] = k)
                          <=> \E x \in 1..n : p[x] = k
      BY DEF InWindow
    <3>1. ASSUME NEW x \in 1..n, p[x] = k
          PROVE  awaited' = k \/ \E y \in DOMAIN pending' : pending'[y] = k
      <4>1. CASE x = 1
        <5>1. awaited' = k
          BY <2>2, <3>1, <4>1
        <5> QED  BY <5>1
      <4>2. CASE x # 1
        <5>0. n \in Nat
          BY <1>3
        <5>1. x - 1 \in 1..(n - 1) /\ x = (x - 1) + 1
          BY <5>0, <4>2
        <5>2. pending'[x - 1] = k
          BY <2>2, <3>1, <5>1
        <5> QED  BY <2>2, <5>1, <5>2
      <4> QED  BY <4>1, <4>2
    <3>2. 1 \in 1..n /\ \A y \in 1..(n - 1) : y + 1 \in 1..n
      BY <1>3
    <3> QED  BY <2>2, <3>1, <3>2
  <2>4. \A x \in DOMAIN pending' : pending'[x] # awaited'
    BY <1>3, <1>5, <2>2
  <2>5. \A x, y \in DOMAIN pending' : pending'[x] = pending'[y] => x = y
    BY <1>3, <1>5, <2>2
  <2> QED  BY <1>1, <1>2, <1>3, <1>6, <1>8, <2>1, <2>2, <2>3, <2>4, <2>5
<1>10. CASE ~Full(p)
  <2>1. pending' = p /\ awaited' = 0 /\ Len(p) < Window /\ DOMAIN p = 1..n
    BY <1>3, <1>7, <1>8, <1>10 DEF Full
  <2>2. \A k \in Combos : InWindow(k)' <=> \E x \in 1..n : p[x] = k
    BY <1>1, <2>1 DEF InWindow
  <2>3. \A x \in 1..n : p[x] # 0
    BY <1>1, <1>3, <2>1
  <2> QED  BY <1>1, <1>2, <1>5, <1>6, <2>1, <2>2, <2>3
<1> QED  BY <1>9, <1>10

\* What a result added does to the results.
LEMMA ResultAdded ==
  ASSUME TypeOK, NEW k \in Combos, NEW st,
         results' = Append(results, [combo |-> k, status |-> st])
  PROVE  /\ \A j \in Combos : HasResult(j)' <=> HasResult(j) \/ j = k
         /\ ~HasResult(k) /\ (\A r, s \in DOMAIN results : results[r].combo = results[s].combo => r = s)
              => \A r, s \in DOMAIN results' : results'[r].combo = results'[s].combo => r = s
         /\ \A c : (\E r \in DOMAIN results' : results'[r].status = c)
                     <=> (\E r \in DOMAIN results : results[r].status = c) \/ c = st
<1> DEFINE n == Len(results) + 1
           new == [combo |-> k, status |-> st]
<1>1. /\ DOMAIN results' = 1..n /\ DOMAIN results = 1..(n - 1) /\ n \in Nat \ {0}
      /\ \A r \in 1..(n - 1) : results'[r] = results[r]
      /\ results'[n] = new /\ new.combo = k /\ new.status = st
  BY DEF TypeOK
<1>2. \A r \in 1..n : r = n \/ r \in 1..(n - 1)
  BY <1>1
<1>3. n \in 1..n /\ 1..(n - 1) \subseteq 1..n
  BY <1>1
<1> HIDE DEF n, new
<1>4. \A j \in Combos : HasResult(j)' <=> HasResult(j) \/ j = k
  BY <1>1, <1>2, <1>3 DEF HasResult
<1>5. ASSUME ~HasResult(k),
             \A r, s \in DOMAIN results : results[r].combo = results[s].combo => r = s,
             NEW r \in DOMAIN results', NEW s \in DOMAIN results',
             results'[r].combo = results'[s].combo
      PROVE  r = s
  <2>1. \A q \in 1..(n - 1) : results'[q].combo # k
    BY <1>1, <1>5 DEF HasResult
  <2> QED  BY <1>1, <1>2, <1>5, <2>1
<1>6. \A c : (\E r \in DOMAIN results' : results'[r].status = c)
              <=> (\E r \in DOMAIN results : results[r].status = c) \/ c = st
  BY <1>1, <1>2, <1>3
<1> QED  BY <1>4, <1>5, <1>6

\* Taking the oldest child out of the window to wait for it leaves it there.
LEMMA DrainWindow ==
  ASSUME MatrixOK, TypeOK, OncePlaced, Drain
  PROVE  /\ \A k \in Combos : InWindow(k)' <=> InWindow(k)
         /\ \A x, y \in DOMAIN pending' : pending'[x] = pending'[y] => x = y
         /\ \A x \in DOMAIN pending' : pending'[x] # awaited'
         /\ Len(pending') < Len(pending)
<1> DEFINE n == Len(pending)
<1>1. /\ n \in Nat \ {0} /\ DOMAIN pending = 1..n /\ awaited = 0 /\ 0 \notin Combos
      /\ awaited' = pending[1] /\ pending[1] \in Combos
      /\ DOMAIN pending' = 1..(n - 1) /\ Len(pending') = n - 1
      /\ \A x \in 1..(n - 1) : pending'[x] = pending[x + 1]
  BY DEF TypeOK, Drain, Combos, MatrixOK
<1>2. \A x \in 1..n : x = 1 \/ (x - 1 \in 1..(n - 1) /\ x = (x - 1) + 1)
  BY <1>1
<1>3. \A x \in 1..(n - 1) : x + 1 \in 1..n /\ x + 1 # 1
  BY <1>1
<1> HIDE DEF n
<1>4. \A k \in Combos : InWindow(k)' <=> InWindow(k)
  <2> SUFFICES ASSUME NEW k \in Combos
               PROVE  InWindow(k)' <=> InWindow(k)
    OBVIOUS
  <2>1. ASSUME NEW x \in 1..n, pending[x] = k
        PROVE  InWindow(k)'
    <3>1. CASE x = 1
      BY <1>1, <2>1, <3>1 DEF InWindow
    <3>2. CASE x # 1
      <4>1. x - 1 \in 1..(n - 1) /\ pending'[x - 1] = k
        BY <1>1, <1>2, <2>1, <3>2
      <4> QED  BY <1>1, <4>1 DEF InWindow
    <3> QED  BY <3>1, <3>2
  <2>2. 1 \in 1..n
    BY <1>1
  <2> QED  BY <1>1, <1>3, <2>1, <2>2 DEF InWindow
<1>5. \A x, y \in DOMAIN pending' : pending'[x] = pending'[y] => x = y
  BY <1>1, <1>3 DEF OncePlaced
<1>6. \A x \in DOMAIN pending' : pending'[x] # awaited'
  <2>1. 1 \in 1..n
    BY <1>1
  <2> QED  BY <1>1, <1>3, <2>1 DEF OncePlaced
<1> QED  BY <1>1, <1>4, <1>5, <1>6

----------------------------------------------------------------------------
(* Every step keeps the invariant *)

LEMMA AttendedFinite ==
  MatrixOK /\ TypeOK => IsFiniteSet(Attended) /\ Cardinality(Attended) \in Nat
<1> SUFFICES ASSUME MatrixOK, TypeOK
             PROVE  IsFiniteSet(Attended)
  BY FS_CardinalityType
<1>1. IsFiniteSet(Combos) /\ Attended \subseteq Combos
  BY FS_Interval DEF MatrixOK, Combos, Attended, TypeOK
<1> QED  BY <1>1, FS_Subset

\* A child that starts finds room: what runs then is in the window.
LEMMA RoomForOne ==
  ASSUME MatrixOK, TypeOK, WindowKept, OpenOrEnding, ~stopped, ~cancelled, awaited = 0
  PROVE  Cardinality(Attended \cup {next}) <= Window
<1>1. Attended \subseteq ToSet(pending)
  <2> SUFFICES ASSUME NEW k \in Attended
               PROVE  k \in ToSet(pending)
    OBVIOUS
  <2>1. k \in Combos /\ future[k] = "open"
    BY DEF OpenOrEnding, TypeOK, Attended
  <2>2. InWindow(k) /\ k # 0
    BY <2>1 DEF WindowKept, Combos, MatrixOK
  <2> QED  BY <2>2 DEF InWindow, ToSet
<1>2. pending \in Seq(Combos) /\ Len(pending) \in Nat /\ Window \in Nat
  BY WindowSize DEF TypeOK
<1>3. IsFiniteSet(ToSet(pending)) /\ Cardinality(ToSet(pending)) <= Len(pending)
  BY <1>2, ElementsBounded
<1>4. Cardinality(Attended) <= Cardinality(ToSet(pending)) /\ Cardinality(ToSet(pending)) \in Nat
  BY <1>1, <1>3, FS_Subset, FS_CardinalityType
<1>5. Cardinality(Attended) \in Nat /\ IsFiniteSet(Attended)
  BY AttendedFinite
<1>6. Cardinality(Attended \cup {next}) <= Cardinality(Attended) + 1
  BY <1>5, FS_AddElement
<1>7. Cardinality(Attended \cup {next}) \in Nat
  BY <1>5, FS_AddElement, FS_CardinalityType
<1> QED  BY <1>2, <1>3, <1>4, <1>5, <1>6, <1>7 DEF WindowKept

LEMMA StartKeeps ==
  ASSUME MatrixOK, MatrixInv, Start
  PROVE  Bookkeeping' /\ StopsForFailure'
<1> USE DEF MatrixInv, Bookkeeping
<1>0. /\ UNCHANGED <<matrix, stopped, results, adrift, cancelled>> /\ next' = next + 1
      /\ ~stopped /\ awaited = 0 /\ Window' = Window
      /\ next \in Combos /\ ~InWindow(next) /\ ~HasResult(next)
      /\ \A k \in Combos : InWindow(k)' <=> InWindow(k) \/ k = next
      /\ \A x, y \in DOMAIN pending' : pending'[x] = pending'[y] => x = y
      /\ \A x \in DOMAIN pending' : pending'[x] # awaited'
      /\ Len(pending') < Window
  BY StartWindow DEF WindowKept, Start, Window
<1>1. \A k \in Combos : HasResult(k)' <=> HasResult(k)
  BY <1>0 DEF HasResult
<1>2. OncePlaced'
  <2>1. \A k \in Combos : k < next' <=> k < next \/ k = next
    BY <1>0 DEF Combos, TypeOK, MatrixOK
  <2> QED  BY <1>0, <1>1, <2>1 DEF OncePlaced
<1>3. \A k \in Combos : k # next => future'[k] = future[k]
  BY DEF Start, TypeOK
<1>4. \A k \in Combos : future'[k] = "open" => InWindow(k)'
  BY <1>0, <1>3 DEF WindowKept
<1>5. next \notin running /\ next \notin adrift /\ Window \in Nat
  <2>1. ~(next < next)
    BY <1>0 DEF Combos, TypeOK, MatrixOK
  <2> QED  BY <2>1, WindowSize DEF CommandsKept
<1>8. OpenOrEnding' /\ CommandsKept'
  <2>0. next' = next + 1 /\ next \in Nat /\ \A k \in Combos : k < next => k < next'
    BY <1>0 DEF Combos, TypeOK, MatrixOK
  <2>1. CASE /\ ~cancelled
             /\ future' = [future EXCEPT ![next] = "open"]
             /\ running' = running \cup {next}
    <3>1. Attended' = Attended \cup {next}
      BY <1>0, <1>5, <2>1 DEF Attended
    <3>2. Cardinality(Attended') <= Window'
      BY <1>0, <2>1, <3>1, RoomForOne
    <3>3. \A k \in Attended' : future'[k] = "open"
      BY <1>0, <1>3, <2>1, <3>1 DEF OpenOrEnding, TypeOK, Attended
    <3>4. \A k \in running' \cup adrift' : k < next'
      BY <1>0, <2>0, <2>1 DEF CommandsKept, TypeOK
    <3>5. GivenUpFailed'
      BY <1>0, <1>3, <1>5, <2>1 DEF CommandsKept, GivenUpFailed, TypeOK
    <3> QED  BY <3>2, <3>3, <3>4, <3>5 DEF OpenOrEnding, CommandsKept
  <2>2. CASE future' = [future EXCEPT ![next] = "failed"] /\ UNCHANGED running
    <3>1. Attended' = Attended /\ next \notin Attended
      BY <1>0, <1>5, <2>2 DEF Attended
    <3>2. ~cancelled => \A k \in Attended' : future'[k] = "open"
      BY <1>0, <1>3, <3>1 DEF OpenOrEnding, TypeOK, Attended
    <3>3. \A k \in running' \cup adrift' : k < next'
      BY <1>0, <2>0, <2>2 DEF CommandsKept, TypeOK
    <3>4. GivenUpFailed'
      BY <1>0, <1>3, <1>5, <2>2 DEF CommandsKept, GivenUpFailed, TypeOK
    <3> QED  BY <1>0, <3>1, <3>2, <3>3, <3>4 DEF OpenOrEnding, CommandsKept
  <2> QED  BY <2>1, <2>2 DEF Start
<1>6. WindowKept'
  BY <1>0, <1>4 DEF WindowKept
<1>7. StopsForFailure'
  BY <1>0 DEF StopsForFailure
<1> QED  BY <1>2, <1>6, <1>7, <1>8

LEMMA SkipKeeps ==
  ASSUME MatrixOK, MatrixInv, SkipRest
  PROVE  Bookkeeping' /\ StopsForFailure'
<1> USE DEF MatrixInv, Bookkeeping
<1>0. /\ UNCHANGED <<matrix, pending, awaited, stopped, future, running, adrift, cancelled>>
      /\ next' = next + 1 /\ stopped /\ next \in Combos /\ Window' = Window
      /\ results' = Append(results, [combo |-> next, status |-> "skipped"])
  BY DEF SkipRest, Window, TypeOK, Combos, MatrixOK
<1>1. ~InWindow(next) /\ ~HasResult(next)
  <2>1. ~(next < next)
    BY <1>0 DEF Combos
  <2> QED  BY <1>0, <2>1 DEF OncePlaced
<1>2. \A k \in Combos : InWindow(k)' <=> InWindow(k)
  BY <1>0 DEF InWindow
<1>3. \A k \in Combos : k < next' <=> k < next \/ k = next
  BY <1>0 DEF Combos, TypeOK, MatrixOK
<1>4. /\ \A k \in Combos : HasResult(k)' <=> HasResult(k) \/ k = next
      /\ \A r, s \in DOMAIN results' : results'[r].combo = results'[s].combo => r = s
      /\ \A c : (\E r \in DOMAIN results' : results'[r].status = c)
                  <=> (\E r \in DOMAIN results : results[r].status = c) \/ c = "skipped"
  BY <1>0, <1>1, ResultAdded DEF OncePlaced
<1>5. OncePlaced'
  BY <1>0, <1>1, <1>2, <1>3, <1>4 DEF OncePlaced
<1>6. WindowKept' /\ OpenOrEnding'
  BY <1>0, <1>2 DEF WindowKept, OpenOrEnding, Attended
<1>7. CommandsKept'
  <2>1. \A k \in running \cup adrift : k < next'
    BY <1>0 DEF CommandsKept, TypeOK, Combos, MatrixOK
  <2> QED  BY <1>0, <2>1 DEF CommandsKept, GivenUpFailed
<1>8. StopsForFailure'
  BY <1>0, <1>4 DEF StopsForFailure
<1> QED  BY <1>5, <1>6, <1>7, <1>8

LEMMA DrainKeeps ==
  ASSUME MatrixOK, MatrixInv, Drain
  PROVE  Bookkeeping' /\ StopsForFailure'
<1> USE DEF MatrixInv, Bookkeeping
<1>0. /\ UNCHANGED <<matrix, next, stopped, results, future, running, adrift, cancelled>>
      /\ Window' = Window
  BY DEF Drain, Window
<1>1. /\ \A k \in Combos : InWindow(k)' <=> InWindow(k)
      /\ \A x, y \in DOMAIN pending' : pending'[x] = pending'[y] => x = y
      /\ \A x \in DOMAIN pending' : pending'[x] # awaited'
      /\ Len(pending') < Len(pending) /\ Len(pending') \in Nat /\ Len(pending) \in Nat
  <2>1. pending \in Seq(Combos) /\ pending' \in Seq(Combos)
    BY DEF Drain, TypeOK
  <2>2. Len(pending) \in Nat /\ Len(pending') \in Nat
    BY <2>1
  <2> QED  BY <2>2, DrainWindow
<1>2. \A k \in Combos : HasResult(k)' <=> HasResult(k)
  BY <1>0 DEF HasResult
<1>3. OncePlaced'
  BY <1>0, <1>1, <1>2 DEF OncePlaced
<1>4. Len(pending') < Window'
  BY <1>0, <1>1, WindowSize DEF WindowKept
<1>5. WindowKept' /\ OpenOrEnding' /\ CommandsKept'
  BY <1>0, <1>1, <1>4 DEF WindowKept, OpenOrEnding, Attended, CommandsKept, GivenUpFailed
<1>6. StopsForFailure'
  BY <1>0 DEF StopsForFailure
<1> QED  BY <1>3, <1>5, <1>6

LEMMA CollectKeeps ==
  ASSUME MatrixOK, MatrixInv, Collect
  PROVE  Bookkeeping' /\ StopsForFailure'
<1> USE DEF MatrixInv, Bookkeeping
<1>0. /\ UNCHANGED <<matrix, next, pending, running, adrift, cancelled>> /\ Window' = Window
      /\ awaited' = 0 /\ awaited \in Combos /\ 0 \notin Combos
      /\ future[awaited] \in {"passed", "failed"}
      /\ results' = Append(results, [combo |-> awaited, status |-> future[awaited]])
  BY DEF Collect, Window, TypeOK, Combos, MatrixOK
<1>1. InWindow(awaited) /\ ~HasResult(awaited)
  BY <1>0 DEF OncePlaced, InWindow
<1>2. \A k \in Combos : InWindow(k)' <=> InWindow(k) /\ k # awaited
  BY <1>0 DEF InWindow, OncePlaced
<1>3. /\ \A k \in Combos : HasResult(k)' <=> HasResult(k) \/ k = awaited
      /\ \A r, s \in DOMAIN results' : results'[r].combo = results'[s].combo => r = s
      /\ \A c : (\E r \in DOMAIN results' : results'[r].status = c)
                  <=> (\E r \in DOMAIN results : results[r].status = c) \/ c = future[awaited]
  BY <1>0, <1>1, ResultAdded DEF OncePlaced
<1>4. OncePlaced'
  <2>1. \A x \in DOMAIN pending : pending[x] # 0
    BY <1>0 DEF TypeOK
  <2> QED  BY <1>0, <1>1, <1>2, <1>3, <2>1 DEF OncePlaced
<1>5. \A k \in Combos : future'[k] = "open" => future[k] = "open" /\ k # awaited
  BY <1>0 DEF Collect, CancelAll
<1>6. WindowKept'
  BY <1>0, <1>2, <1>5 DEF WindowKept
<1>7. OpenOrEnding' /\ CommandsKept'
  <2>1. \A k \in Combos : future'[k] = future[k] \/ future'[k] = "failed"
    BY <1>0 DEF Collect, CancelAll
  <2>2. CommandsKept'
    BY <1>0, <2>1 DEF CommandsKept, GivenUpFailed, TypeOK
  <2> QED  BY <1>0, <2>2 DEF Collect, OpenOrEnding, Attended
<1>8. StopsForFailure'
  <2>1. CASE matrix.failFast /\ future[awaited] = "failed"
    <3>1. stopped' = TRUE /\ CancelAll(ToSet(pending))
      BY <2>1 DEF Collect
    <3>2. \A k \in Combos : future'[k] # "open"
      <4> SUFFICES ASSUME NEW k \in Combos, future'[k] = "open"
                   PROVE  FALSE
        OBVIOUS
      <4>1. \E x \in DOMAIN pending : pending[x] = k
        BY <1>5 DEF WindowKept, InWindow
      <4>2. k \in ToSet(pending)
        BY <4>1 DEF ToSet
      <4> QED  BY <3>1, <4>2 DEF CancelAll
    <3> QED  BY <1>3, <2>1, <3>1, <3>2 DEF StopsForFailure
  <2>2. CASE ~(matrix.failFast /\ future[awaited] = "failed")
    <3>1. UNCHANGED <<stopped, future>>
      BY <2>2 DEF Collect
    <3> QED  BY <1>0, <1>3, <3>1 DEF StopsForFailure
  <2> QED  BY <2>1, <2>2
<1> QED  BY <1>4, <1>6, <1>7, <1>8

LEMMA MatrixStepKeeps == MatrixOK /\ MatrixInv /\ [Next]_vars => MatrixInv'
<1> SUFFICES ASSUME MatrixOK, MatrixInv, [Next]_vars
             PROVE  Bookkeeping' /\ StopsForFailure'
  BY MatrixTypes DEF MatrixInv
<1> USE DEF MatrixInv, Bookkeeping
<1>1. CASE Start
  BY <1>1, StartKeeps
<1>2. CASE SkipRest
  BY <1>2, SkipKeeps
<1>3. CASE Drain
  BY <1>3, DrainKeeps
<1>4. CASE Collect
  BY <1>4, CollectKeeps
<1>5. ASSUME UNCHANGED <<matrix, next, pending, awaited, stopped, results>>,
             \A k \in Combos : future'[k] = "open" => future[k] = "open",
             ~stopped' /\ ~cancelled' => \A k \in Attended' : future'[k] = "open",
             Attended' \subseteq Attended,
             \A k \in running' \cup adrift' : k < next,
             GivenUpFailed'
      PROVE  Bookkeeping' /\ StopsForFailure'
  <2>1. OncePlaced'
    BY <1>5 DEF OncePlaced, InWindow, HasResult
  <2>2. Cardinality(Attended') <= Window
    <3>1. /\ IsFiniteSet(Attended) /\ Cardinality(Attended) \in Nat
          /\ Cardinality(Attended) <= Window /\ Window \in Nat
      BY AttendedFinite, WindowSize DEF OpenOrEnding
    <3>2. IsFiniteSet(Attended') /\ Cardinality(Attended') <= Cardinality(Attended)
      BY <1>5, <3>1, FS_Subset
    <3>3. Cardinality(Attended') \in Nat
      BY <3>2, FS_CardinalityType
    <3> QED  BY <3>1, <3>2, <3>3
  <2>3. WindowKept' /\ OpenOrEnding' /\ StopsForFailure'
    BY <1>5, <2>2 DEF WindowKept, InWindow, OpenOrEnding, StopsForFailure, Window
  <2>4. CommandsKept'
    BY <1>5 DEF CommandsKept
  <2> QED  BY <2>1, <2>3, <2>4
<1>6. ASSUME NEW k \in Combos, ChildEnds(k) \/ ChildGivesUp(k) \/ CommandEnds(k)
      PROVE  Bookkeeping' /\ StopsForFailure'
  <2>1. UNCHANGED <<matrix, next, pending, awaited, stopped, results, cancelled>>
    BY <1>6 DEF ChildEnds, ChildGivesUp, CommandEnds
  <2>2. CASE ChildEnds(k)
    <3>1. /\ running' = running \ {k} /\ adrift' = adrift /\ future[k] = "open"
          /\ \A j \in Combos : j # k => future'[j] = future[j]
          /\ future'[k] # "open"
      BY <2>2 DEF ChildEnds, TypeOK
    <3>2. GivenUpFailed'
      BY <3>1 DEF GivenUpFailed, CommandsKept, TypeOK
    <3>3. Attended' \subseteq Attended /\ k \notin Attended'
      BY <3>1 DEF Attended
    <3>4. ~stopped' /\ ~cancelled' => \A j \in Attended' : future'[j] = "open"
      BY <2>1, <3>1, <3>3 DEF OpenOrEnding, TypeOK, Attended
    <3>5. \A j \in running' \cup adrift' : j < next
      BY <3>1 DEF CommandsKept
    <3> QED  BY <1>5, <2>1, <3>1, <3>2, <3>3, <3>4, <3>5
  <2>3. CASE ChildGivesUp(k)
    <3>1. /\ running' = running /\ adrift' = adrift \cup {k} /\ future'[k] = "failed"
          /\ \A j \in Combos : j # k => future'[j] = future[j]
          /\ future[k] = "open"
      BY <2>3 DEF ChildGivesUp, TypeOK
    <3>2. k < next
      BY <3>1 DEF WindowKept, OncePlaced
    <3>3. GivenUpFailed'
      BY <3>1 DEF GivenUpFailed, CommandsKept, TypeOK
    <3>4. Attended' \subseteq Attended /\ k \notin Attended'
      BY <3>1 DEF Attended
    <3>5. ~stopped' /\ ~cancelled' => \A j \in Attended' : future'[j] = "open"
      BY <2>1, <3>1, <3>4 DEF OpenOrEnding, TypeOK, Attended
    <3>6. \A j \in running' \cup adrift' : j < next
      BY <3>1, <3>2 DEF CommandsKept
    <3>7. \A j \in Combos : future'[j] = "open" => future[j] = "open"
      BY <3>1
    <3> QED  BY <1>5, <2>1, <3>3, <3>4, <3>5, <3>6, <3>7
  <2>4. CASE CommandEnds(k)
    <3>1. /\ running' = running \ {k} /\ adrift' = adrift \ {k} /\ future' = future
      BY <2>4 DEF CommandEnds
    <3>2. Attended' \subseteq Attended
      BY <3>1 DEF Attended
    <3>3. GivenUpFailed'
      BY <3>1 DEF GivenUpFailed, CommandsKept
    <3>4. ~stopped' /\ ~cancelled' => \A j \in Attended' : future'[j] = "open"
      BY <2>1, <3>1, <3>2 DEF OpenOrEnding
    <3>5. \A j \in running' \cup adrift' : j < next
      BY <3>1 DEF CommandsKept
    <3> QED  BY <1>5, <2>1, <3>1, <3>2, <3>3, <3>4, <3>5
  <2> QED  BY <1>6, <2>2, <2>3, <2>4
<1>7. CASE CancelRun
  <2>1. /\ UNCHANGED <<matrix, next, pending, awaited, stopped, results, running, adrift>>
        /\ cancelled'
        /\ \A k \in Combos : future'[k] # "open"
        /\ \A k \in Combos : future'[k] = future[k] \/ future'[k] = "failed"
    BY <1>7 DEF CancelRun, CancelAll
  <2>2. GivenUpFailed'
    BY <2>1 DEF GivenUpFailed, CommandsKept, TypeOK
  <2>3. \A k \in running' \cup adrift' : k < next
    BY <2>1 DEF CommandsKept
  <2>4. Attended' = Attended
    BY <2>1 DEF Attended
  <2> QED  BY <1>5, <2>1, <2>2, <2>3, <2>4
<1>8. CASE UNCHANGED vars
  <2>1. GivenUpFailed' /\ Attended' = Attended
    BY <1>8 DEF vars, GivenUpFailed, CommandsKept, Attended
  <2>2. \A k \in running' \cup adrift' : k < next
    BY <1>8 DEF vars, CommandsKept
  <2>3. ~stopped' /\ ~cancelled' => \A k \in Attended' : future'[k] = "open"
    BY <1>8, <2>1 DEF vars, OpenOrEnding
  <2>4. /\ UNCHANGED <<matrix, next, pending, awaited, stopped, results>>
        /\ \A k \in Combos : future'[k] = "open" => future[k] = "open"
    BY <1>8 DEF vars
  <2> QED  BY <1>5, <2>1, <2>2, <2>3, <2>4
<1> QED  BY <1>1, <1>2, <1>3, <1>4, <1>6, <1>7, <1>8 DEF Next, Parent, Child

LEMMA MatrixStart == MatrixOK => (Init => MatrixInv)
<1> SUFFICES ASSUME MatrixOK, Init
             PROVE  MatrixInv
  OBVIOUS
<1>1. TypeOK
  <2>1. next \in 1..(N + 1) /\ awaited \in 0..N
    BY DEF Init, MatrixOK
  <2>2. pending \in Seq(Combos) /\ running \in SUBSET Combos /\ adrift \in SUBSET Combos
        /\ results \in Seq([combo : Combos, status : {"passed", "failed", "skipped"}])
    BY DEF Init
  <2>3. future \in [Combos -> {"none", "open", "passed", "failed"}]
    BY DEF Init
  <2>4. /\ matrix \in [failFast : BOOLEAN, maxParallel : Sizes]
        /\ stopped \in BOOLEAN /\ cancelled \in BOOLEAN
    BY DEF Init
  <2> QED  BY <2>1, <2>2, <2>3, <2>4 DEF TypeOK
<1>2. /\ pending = <<>> /\ results = <<>> /\ awaited = 0 /\ 0 \notin Combos /\ next = 1
      /\ running = {} /\ adrift = {} /\ ~stopped /\ \A k \in Combos : future[k] = "none"
      /\ \A k \in Combos : ~(k < 1)
  BY DEF Init, Combos, MatrixOK
<1>3. OncePlaced
  BY <1>2 DEF OncePlaced, InWindow, HasResult
<1>4. Window \in Nat /\ Window > 0 /\ Cardinality(Attended) = 0 /\ Len(pending) = 0
  BY <1>1, <1>2, WindowSize, FS_EmptySet DEF Attended
<1>5. WindowKept /\ OpenOrEnding /\ CommandsKept /\ StopsForFailure
  BY <1>2, <1>4 DEF WindowKept, OpenOrEnding, Attended, CommandsKept, GivenUpFailed,
                    StopsForFailure
<1> QED  BY <1>1, <1>3, <1>5 DEF MatrixInv, Bookkeeping

----------------------------------------------------------------------------
(* Theorems *)

\* The variables of a matrix step keep their shape.
THEOREM MatrixTyped == Spec => []TypeOK
<1>1. MatrixInv => TypeOK
  BY DEF MatrixInv
<1> QED  BY <1>1, MatrixStart, MatrixStepKeeps, MatrixOK, PTL DEF Spec

\* Whatever fails, is skipped or is cancelled, in whatever order the children
\* end, every combination is accounted for once, and a step that left one out
\* has the result of a failure that made it do so.
THEOREM MatrixAccounted == Spec => []FullAccount
<1>1. MatrixInv => FullAccount
  <2> SUFFICES ASSUME MatrixInv
               PROVE  FullAccount
    OBVIOUS
  <2> USE DEF MatrixInv, Bookkeeping
  <2>1. ASSUME NEW k \in Combos
        PROVE  Cardinality({x \in DOMAIN pending : pending[x] = k})
                 + (IF awaited = k THEN 1 ELSE 0) + Cardinality(Results(k))
                 = IF k < next THEN 1 ELSE 0
    <3> DEFINE P == {x \in DOMAIN pending : pending[x] = k}
    <3>1. Cardinality(P) = IF P = {} THEN 0 ELSE 1
      BY SizeOfFew DEF OncePlaced
    <3>2. Cardinality(Results(k)) = IF Results(k) = {} THEN 0 ELSE 1
      BY SizeOfFew DEF OncePlaced, Results
    <3>3. P = {} \/ awaited # k
      BY DEF OncePlaced
    <3>4. InWindow(k) <=> awaited = k \/ P # {}
      BY DEF InWindow
    <3>5. HasResult(k) <=> Results(k) # {}
      BY DEF HasResult, Results
    <3>6. ~(InWindow(k) /\ HasResult(k)) /\ (k < next <=> InWindow(k) \/ HasResult(k))
      BY DEF OncePlaced
    <3> HIDE DEF P
    <3>7. Cardinality(P) + (IF awaited = k THEN 1 ELSE 0) + Cardinality(Results(k))
            = IF k < next THEN 1 ELSE 0
      <4>1. CASE awaited = k
        BY <3>1, <3>2, <3>3, <3>4, <3>5, <3>6, <4>1
      <4>2. CASE awaited # k
        BY <3>1, <3>2, <3>4, <3>5, <3>6, <4>2
      <4> QED  BY <4>1, <4>2
    <3> QED  BY <3>7 DEF P
  <2>2. AccountedOnce
    BY <2>1 DEF AccountedOnce
  <2>3. NeverPassesPartly
    BY DEF NeverPassesPartly, StopsForFailure
  <2> QED  BY <2>2, <2>3 DEF FullAccount
<1> QED  BY <1>1, MatrixStart, MatrixStepKeeps, MatrixOK, PTL DEF Spec

\* At no time run more commands than max_parallel allows, those aside that a
\* child gave up and failed for; and once a failure was collected under fail_fast
\* no child is left that was not cancelled.
THEOREM MatrixRunsWhatItMay == Spec => []RunsWhatItMay
<1>1. MatrixInv => RunsWhatItMay
  BY DEF MatrixInv, Bookkeeping, OpenOrEnding, Attended, CommandsKept, StopsForFailure,
         RunsWhatItMay, WithinWindow, FailsFast
<1> QED  BY <1>1, MatrixStart, MatrixStepKeeps, MatrixOK, PTL DEF Spec
=============================================================================
