---------------------------- MODULE RulesProofs ----------------------------
(***************************************************************************)
(* Proofs about the rules a pipeline file is read by: the triggers of its  *)
(* pipelines, the order of its steps, the matrix of a step; for any files  *)
(* and deliveries that the assumptions on the constants allow.             *)
(***************************************************************************)
EXTENDS Rules, WellFoundedInduction, FiniteSetTheorems, SequenceTheorems, TLAPS

----------------------------------------------------------------------------
(* Telling less starts less *)

Renamed(x) == [x EXCEPT !.ref.name = x.base]

IsEvent(x) ==
  /\ x = [kind |-> x.kind, ref |-> x.ref, base |-> x.base, action |-> x.action,
          labels |-> x.labels, files |-> x.files, fields |-> x.fields]
  /\ x.ref \in [tag : BOOLEAN, name : STRING]

LEMMA RenamedIs ==
  ASSUME NEW x, IsEvent(x)
  PROVE  /\ Renamed(x).kind = x.kind /\ Renamed(x).files = x.files
         /\ Renamed(x).ref.name = x.base
<1>1. Renamed(x) = [x EXCEPT !.ref = [x.ref EXCEPT !.name = x.base]]
  BY DEF Renamed
<1>2. [x.ref EXCEPT !.name = x.base].name = x.base
  BY DEF IsEvent
<1>3. \A r : LET y == [x EXCEPT !.ref = r] IN
        y.kind = x.kind /\ y.files = x.files /\ y.ref = r
  BY DEF IsEvent
<1> QED  BY <1>1, <1>2, <1>3

LEMMA PoorerTells ==
  ASSUME NEW e \in Delivery, NEW d \in Poorer(e)
  PROVE  /\ d.kind = e.kind /\ d.ref = e.ref
         /\ d.base \in {"", e.base} /\ d.action \in {"", e.action}
         /\ d.labels \subseteq e.labels /\ d.files \subseteq e.files /\ d.fields \subseteq e.fields
         /\ \A x \in {d, e} : /\ Renamed(x).kind = x.kind /\ Renamed(x).files = x.files
                              /\ Renamed(x).ref.name = x.base
<1>1. /\ d.kind = e.kind /\ d.ref = e.ref
      /\ d.base \in {"", e.base} /\ d.action \in {"", e.action}
      /\ d.labels \subseteq e.labels /\ d.files \subseteq e.files /\ d.fields \subseteq e.fields
  BY DEF Poorer
<1>2. e.ref \in [tag : BOOLEAN, name : STRING]
  BY DEF Delivery
<1>3. IsEvent(d)
  BY <1>2 DEF Poorer, IsEvent
<1>4. IsEvent(e)
  BY <1>2 DEF Delivery, IsEvent
<1> QED  BY <1>1, <1>3, <1>4, RenamedIs

\* What the events that the two filters look at have in common is enough.
LEMMA SamePlace ==
  ASSUME NEW on, NEW d, NEW e, d.kind = e.kind, d.files \subseteq e.files,
         \/ d.ref = e.ref
         \/ e.kind = "pull_request" /\ d.ref.name = e.ref.name
         \/ e.kind = "pull_request" /\ \A f \in on.pull_request : f.branches = {},
         ShouldRunWithPaths(on, d)
  PROVE  ShouldRunWithPaths(on, e)
<1>1. TriggerMatches(on, e)
  BY DEF ShouldRunWithPaths, TriggerMatches, MatchBranch
<1>2. \A paths : MatchesChangedPaths(paths, d.files) => MatchesChangedPaths(paths, e.files)
  BY DEF MatchesChangedPaths
<1> QED  BY <1>1, <1>2 DEF ShouldRunWithPaths

LEMMA TargetsKept ==
  ASSUME NEW e \in Delivery, NEW d \in Poorer(e), NEW on,
         \E t \in Target(on, d) : ShouldRunWithPaths(on, t)
  PROVE  \E t \in Target(on, e) : ShouldRunWithPaths(on, t)
<1>1. PICK t \in Target(on, d) : ShouldRunWithPaths(on, t)
  OBVIOUS
<1>2. /\ d.kind = e.kind /\ d.ref = e.ref /\ d.base \in {"", e.base}
      /\ d.files \subseteq e.files
  BY PoorerTells
<1>3. \A x \in {d, e} : /\ Renamed(x).kind = x.kind /\ Renamed(x).files = x.files
                        /\ Renamed(x).ref.name = x.base
  BY PoorerTells
<1>4. CASE e.kind # "pull_request"
  <2>1. t = d /\ Target(on, e) = {e}
    BY <1>2, <1>4 DEF Target
  <2> QED  BY <1>1, <1>2, <2>1, SamePlace
<1>5. CASE e.kind = "pull_request" /\ d.base # ""
  <2>1. d.base = e.base /\ e.base # ""
    BY <1>2, <1>5
  <2>2. t = Renamed(d) /\ Target(on, e) = {Renamed(e)}
    BY <1>2, <1>5, <2>1 DEF Target, Renamed
  <2>3. /\ Renamed(d).kind = Renamed(e).kind /\ Renamed(d).files \subseteq Renamed(e).files
        /\ Renamed(d).ref.name = Renamed(e).ref.name /\ Renamed(e).kind = "pull_request"
    BY <1>2, <1>3, <1>5, <2>1
  <2>4. ShouldRunWithPaths(on, Renamed(e))
    BY <1>1, <2>2, <2>3, SamePlace
  <2> QED  BY <2>2, <2>4
<1>6. CASE e.kind = "pull_request" /\ d.base = ""
  <2>1. t = d /\ \A f \in on.pull_request : f.branches = {}
    BY <1>2, <1>6 DEF Target
  <2>2. Target(on, e) = {IF e.base # "" THEN Renamed(e) ELSE e}
    BY <1>6, <2>1 DEF Target, Renamed
  <2>3. /\ Renamed(e).kind = e.kind /\ Renamed(e).files = e.files
    BY <1>3
  <2>4. ShouldRunWithPaths(on, Renamed(e)) /\ ShouldRunWithPaths(on, e)
    BY <1>1, <1>2, <1>6, <2>1, <2>3, SamePlace
  <2> QED  BY <2>2, <2>4
<1> QED  BY <1>4, <1>5, <1>6

\* An event runs what it would run if it told less.
LEMMA RunsAnyway ==
  ASSUME NEW e \in Delivery, NEW d \in Poorer(e), NEW triggers,
         \A on \in triggers : \A types \in on.release \cup on.issues : "" \notin types,
         ShouldRunForEvent(triggers, d)
  PROVE  ShouldRunForEvent(triggers, e)
<1> SUFFICES ASSUME NEW on \in triggers
             PROVE  /\ \E t \in Target(on, e) : ShouldRunWithPaths(on, t)
                    /\ e.kind = "pull_request" => \A f \in on.pull_request : f.labels \subseteq e.labels
                    /\ e.kind = "release" => \A types \in on.release : MatchEventType(types, e.action)
                    /\ e.kind = "issues" => \A types \in on.issues : MatchEventType(types, e.action)
                    /\ e.kind \in {"webhook", "manual"} =>
                         \A match \in on.webhook : match \subseteq e.fields
  BY DEF ShouldRunForEvent
<1>1. /\ d.kind = e.kind /\ d.action \in {"", e.action}
      /\ d.labels \subseteq e.labels /\ d.fields \subseteq e.fields
  BY PoorerTells
<1>2. /\ \E t \in Target(on, d) : ShouldRunWithPaths(on, t)
      /\ d.kind = "pull_request" => \A f \in on.pull_request : f.labels \subseteq d.labels
      /\ d.kind = "release" => \A types \in on.release : MatchEventType(types, d.action)
      /\ d.kind = "issues" => \A types \in on.issues : MatchEventType(types, d.action)
      /\ d.kind \in {"webhook", "manual"} => \A match \in on.webhook : match \subseteq d.fields
  BY DEF ShouldRunForEvent
<1>3. \E t \in Target(on, e) : ShouldRunWithPaths(on, t)
  BY <1>2, TargetsKept
<1>4. \A types \in on.release \cup on.issues :
        MatchEventType(types, d.action) => MatchEventType(types, e.action)
  BY <1>1 DEF MatchEventType
<1> QED  BY <1>1, <1>2, <1>3, <1>4

----------------------------------------------------------------------------
(* What is selected *)

LEMMA SelectsLess ==
  ASSUME NEW file, NamesGiven(file), NEW e \in Delivery
  PROVE  FailsClosed(file, e, Selected(file, "", e))
<1> SUFFICES ASSUME NEW d \in Poorer(e), NEW p \in Selected(file, "", d)
             PROVE  p \in Selected(file, "", e)
  BY DEF FailsClosed
<1> DEFINE direct == e.kind = ""
<1>1. p \in DOMAIN file /\ (direct \/ ShouldRunForEvent(file[p], d))
  BY DEF Selected, Poorer
<1>2. \A on \in file[p] : \A types \in on.release \cup on.issues : "" \notin types
  BY <1>1 DEF NamesGiven
<1>3. direct \/ ShouldRunForEvent(file[p], e)
  BY <1>1, <1>2, RunsAnyway
<1> QED  BY <1>1, <1>3 DEF Selected

LEMMA SelectsItself ==
  ASSUME NEW file, NamesGiven(file), NEW e
  PROVE  DispatchSelectsItself(file, e, Selected(file, "", e))
<1> SUFFICES ASSUME NEW p \in Selected(file, "", e)
             PROVE  Selected(file, p, e) = {p}
  BY DEF DispatchSelectsItself
<1>1. p \in DOMAIN file /\ p # "" /\ (e.kind = "" \/ ShouldRunForEvent(file[p], e))
  BY DEF Selected, NamesGiven
<1>2. p \in Selected(file, p, e)
  BY <1>1 DEF Selected
<1>3. \A q \in Selected(file, p, e) : q = p
  BY <1>1 DEF Selected
<1> QED  BY <1>2, <1>3

\* The webhook's parsers hand on deliveries.
LEMMA ParsedAreDeliveries ==
  ASSUME NEW delivery \in Delivery, NEW e \in ParseEvent(delivery)
  PROVE  e \in Delivery
<1>1. \/ e = delivery
      \/ e = [delivery EXCEPT !.kind = "tag"]
      \/ e = [delivery EXCEPT !.files = {}]
  BY DEF ParseEvent
<1>2. [delivery EXCEPT !.kind = "tag"] \in Delivery
  BY DEF Delivery
<1>3. [delivery EXCEPT !.files = {}] \in Delivery
  BY DEF Delivery
<1> QED  BY <1>1, <1>2, <1>3
----------------------------------------------------------------------------
(* The verdicts about triggers *)

\* A verdict is that of loadSelectedPipeline for the file and an event parsed
\* from the delivery.
JudgedAsAsked ==
  /\ asked \in TriggerCases
  /\ \A v \in verdict : \E e \in ParseEvent(asked.delivery) :
       v = [event |-> e, selected |-> Selected(asked.file, "", e)]

LEMMA TriggersJudged == TriggerSpec => []TriggersFailClosed
<1>1. TriggerInit => JudgedAsAsked
  BY DEF TriggerInit, JudgedAsAsked
<1>2. JudgedAsAsked /\ [Judge]_selection => JudgedAsAsked'
  BY DEF Judge, JudgedAsAsked, selection
<1>3. TriggersOK /\ JudgedAsAsked => TriggersFailClosed
  <2> SUFFICES ASSUME TriggersOK, JudgedAsAsked, NEW v \in verdict
               PROVE  /\ FailsClosed(asked.file, v.event, v.selected)
                      /\ DispatchSelectsItself(asked.file, v.event, v.selected)
    BY DEF TriggersFailClosed
  <2>1. PICK e \in ParseEvent(asked.delivery) :
          v = [event |-> e, selected |-> Selected(asked.file, "", e)]
    BY DEF JudgedAsAsked
  <2>2. v.event = e /\ v.selected = Selected(asked.file, "", e)
    BY <2>1
  <2>3. asked.delivery \in Delivery /\ NamesGiven(asked.file)
    BY DEF JudgedAsAsked, TriggersOK
  <2>4. e \in Delivery
    BY <2>3, ParsedAreDeliveries
  <2> QED  BY <2>2, <2>3, <2>4, SelectsLess, SelectsItself
<1> QED  BY <1>1, <1>2, <1>3, TriggersOK, PTL DEF TriggerSpec

----------------------------------------------------------------------------
(* The order of the steps *)

LEMMA LessOnNaturals ==
  \E R : IsWellFoundedOn(R, Nat) /\ \A x, y \in Nat : x < y => <<x, y>> \in R
<1>1. IsWellFoundedOn(OpToRel(<, Nat), Nat)
  BY NatLessThanWellFounded, Zenon
<1>2. \A x, y \in Nat : x < y => <<x, y>> \in OpToRel(<, Nat)
  BY DEF OpToRel
<1> QED  BY <1>1, <1>2, Zenon

\* A set of numbers has a least one.
LEMMA Least ==
  ASSUME NEW T, T \subseteq Nat, T # {}
  PROVE  \E x \in T : \A y \in T : x <= y
<1>1. PICK R : IsWellFoundedOn(R, Nat) /\ \A x, y \in Nat : x < y => <<x, y>> \in R
  BY LessOnNaturals, Zenon
<1>2. PICK x \in T : \A y \in T : ~ (<<y, x>> \in R)
  BY <1>1, WFMin, ZenonT(60)
<1>3. \A y \in T : ~(y < x)
  BY <1>1, <1>2, Zenon
<1> QED  BY <1>2, <1>3

\* A set of numbers up to n has a greatest one.
LEMMA Greatest ==
  ASSUME NEW n \in Nat, NEW T \in SUBSET (1..n), T # {}
  PROVE  \E x \in T : \A y \in T : y <= x
<1> DEFINE U == {i \in Nat : \E x \in T : i = n - x}
<1>1. U \subseteq Nat /\ U # {}
  <2>1. PICK x \in T : TRUE
    OBVIOUS
  <2>2. x \in 1..n /\ n - x \in Nat
    OBVIOUS
  <2> QED  BY <2>1, <2>2
<1>2. PICK i \in U : \A j \in U : i <= j
  <2> HIDE DEF U
  <2> QED  BY <1>1, Least
<1>3. PICK x \in T : i = n - x
  OBVIOUS
<1>4. ASSUME NEW y \in T
      PROVE  y <= x
  <2>1. y \in 1..n /\ x \in 1..n
    OBVIOUS
  <2>2. n - y \in U
    BY <2>1
  <2>3. n - x <= n - y
    BY <1>2, <1>3, <2>2
  <2> QED  BY <2>1, <2>3
<1> QED  BY <1>4

----------------------------------------------------------------------------
(* The search for cycles *)

LEMMA GraphTypes ==
  ASSUME steps \in Seq(Step), NEW n
  PROVE  Graph(n) \in Seq(StepNames)
<1>1. CASE Named(n) = {}
  BY <1>1 DEF Graph
<1>2. CASE Named(n) # {}
  <2>1. Len(steps) \in Nat /\ DOMAIN steps = 1..Len(steps)
    OBVIOUS
  <2>2. Named(n) \in SUBSET (1..Len(steps))
    BY <2>1 DEF Named
  <2>3. \E i \in Named(n) : \A j \in Named(n) : j <= i
    BY <1>2, <2>1, <2>2, Greatest
  <2> DEFINE last == CHOOSE i \in Named(n) : \A j \in Named(n) : j <= i
  <2>4. last \in DOMAIN steps
    BY <2>1, <2>2, <2>3
  <2>5. steps[last] \in Step
    BY <2>1, <2>4
  <2>6. Graph(n) = steps[last].deps
    BY <1>2 DEF Graph
  <2> QED  BY <2>5, <2>6 DEF Step
<1> QED  BY <1>1, <1>2

\* The graph does not change, and only a step's name depends on something.
LEMMA SameGraph ==
  ASSUME UNCHANGED steps
  PROVE  \A n : Graph(n)' = Graph(n)
BY DEF Graph, Named

LEMMA OnlyNamedDepend ==
  ASSUME steps \in Seq(Step), NEW m, NEW n, DependsOn(m, n)
  PROVE  n \in Names /\ \E i \in DOMAIN steps : steps[i].name = m
<1>1. Graph(m) \in Seq(StepNames)
  BY GraphTypes
<1>2. PICK j \in DOMAIN Graph(m) : n = Graph(m)[j]
  BY DEF DependsOn, ToSet
<1>3. n \in StepNames
  BY <1>1, <1>2
<1>4. Graph(m) # <<>>
  BY <1>2
<1>5. Named(m) # {}
  BY <1>4 DEF Graph
<1> QED  BY <1>3, <1>5 DEF Named, Names

LEMMA LoopTypes ==
  ASSUME OrderTypeOK, NEW k \in DOMAIN turn
  PROVE  /\ Len(path) \in Nat /\ DOMAIN path = 1..Len(path) /\ DOMAIN turn = 1..(Len(path) + 1)
         /\ k \in 1..(Len(path) + 1) /\ (k # 1 => k - 1 \in DOMAIN path)
         /\ Loop(k) \in Seq(Names) /\ turn[k] \in Nat \ {0}
<1>1. /\ path \in Seq(Names) /\ turn \in Seq(Nat \ {0}) /\ Len(turn) = Len(path) + 1
      /\ steps \in Seq(Step)
  BY DEF OrderTypeOK
<1>2. /\ Len(path) \in Nat /\ DOMAIN path = 1..Len(path) /\ DOMAIN turn = 1..(Len(path) + 1)
      /\ k \in 1..(Len(path) + 1) /\ (k # 1 => k - 1 \in DOMAIN path)
      /\ turn[k] \in Nat \ {0}
  BY <1>1
<1>3. CASE k = 1
  <2>1. Len(steps) \in Nat /\ DOMAIN steps = 1..Len(steps)
    BY <1>1
  <2>2. \A i \in DOMAIN steps : steps[i].name \in Names
    <3>1. \A i \in DOMAIN steps : steps[i] \in Step
      BY <1>1
    <3> QED  BY <3>1 DEF Step
  <2>3. [i \in 1..Len(steps) |-> steps[i].name] \in Seq(Names)
    BY <2>1, <2>2
  <2> QED  BY <1>2, <1>3, <2>1, <2>3 DEF Loop
<1>4. CASE k # 1
  <2>1. Loop(k) \in Seq(StepNames)
    BY <1>1, <1>4, GraphTypes DEF Loop
  <2> QED  BY <1>2, <2>1 DEF Names
<1> QED  BY <1>3, <1>4

\* What the loops under way have been through is done.
LoopsFollowed ==
  \A k \in DOMAIN turn : \A j \in 1..(turn[k] - 1) :
    j \in DOMAIN Loop(k) /\ mark[Loop(k)[j]] = "done"

\* Each loop but the innermost is at the name of the next one.
CallsFollowed ==
  \A k \in DOMAIN path : turn[k] \in DOMAIN Loop(k) /\ Loop(k)[turn[k]] = path[k]

SeenOnPath ==
  /\ \A n \in Names : mark[n] = "seen" <=> \E k \in DOMAIN path : path[k] = n
  /\ \A j, k \in DOMAIN path : path[j] = path[k] => j = k

\* What a name that is done depends on is done, and no such names wait for
\* each other.
DoneIsClosed ==
  \A m, n \in Names : mark[m] = "done" /\ DependsOn(m, n) => mark[n] = "done"

DoneIsFree ==
  \A S \in SUBSET Names :
    S # {} /\ (\A m \in S : mark[m] = "done") => \E m \in S : \A n \in S : ~DependsOn(m, n)

SearchInv ==
  /\ LoopsFollowed /\ CallsFollowed /\ SeenOnPath /\ DoneIsClosed /\ DoneIsFree
  /\ cycle = <<>>

\* What has run depends on what ran before.
RunInv ==
  /\ phase = "search" => ran = 0 /\ completed = {}
  /\ ListedInOrder => \A i \in 1..ran : steps[i].name \in completed
  /\ \A n \in completed : \E i \in 1..ran :
       steps[i].name = n /\ \A d \in ToSet(steps[i].deps) : \E j \in 1..(i - 1) : steps[j].name = d

OrderInv ==
  OrderTypeOK /\ (phase = "search" => SearchInv) /\ CyclesFound /\ RunInv

\* A loop goes on.
LEMMA AdvancedLast ==
  ASSUME NEW p \in Nat, NEW s \in Seq(Nat \ {0}), Len(s) = p + 1
  PROVE  /\ Advanced(s) \in Seq(Nat \ {0}) /\ Len(Advanced(s)) = p + 1
         /\ DOMAIN Advanced(s) = 1..(p + 1)
         /\ Advanced(s)[p + 1] = s[p + 1] + 1
         /\ \A k \in 1..p : Advanced(s)[k] = s[k]
<1>1. p + 1 \in 1..Len(s) /\ s[p + 1] \in Nat \ {0} /\ \A k \in 1..p : k \in 1..Len(s) /\ k # p + 1
  OBVIOUS
<1>2. s[p + 1] + 1 \in Nat \ {0}
  BY <1>1
<1>3. Advanced(s) = [s EXCEPT ![p + 1] = s[p + 1] + 1]
  BY DEF Advanced
<1>4. /\ Advanced(s) \in Seq(Nat \ {0}) /\ Len(Advanced(s)) = Len(s)
      /\ \A j \in 1..Len(s) : Advanced(s)[j] = IF j = p + 1 THEN s[p + 1] + 1 ELSE s[j]
  BY <1>1, <1>2, <1>3, ExceptSeq
<1>5. DOMAIN Advanced(s) = 1..(p + 1)
  BY <1>4, LenProperties
<1> QED  BY <1>1, <1>4, <1>5

\* The marks of a step that changes what is done by nothing.
LEMMA DoneKept ==
  ASSUME UNCHANGED steps, DoneIsClosed, DoneIsFree,
         \A n \in Names : mark'[n] = "done" <=> mark[n] = "done"
  PROVE  DoneIsClosed' /\ DoneIsFree'
<1>1. \A m, n : DependsOn(m, n)' <=> DependsOn(m, n)
  BY SameGraph DEF DependsOn
<1>2. DoneIsClosed'
  BY <1>1 DEF DoneIsClosed
<1>3. DoneIsFree'
  <2> SUFFICES ASSUME NEW S \in SUBSET Names, S # {}, \A m \in S : mark'[m] = "done"
               PROVE  \E m \in S : \A n \in S : ~DependsOn(m, n)
    BY <1>1 DEF DoneIsFree
  <2>1. \A m \in S : mark[m] = "done"
    OBVIOUS
  <2> QED  BY <2>1 DEF DoneIsFree
<1> QED  BY <1>2, <1>3

LEMMA PathTypes ==
  ASSUME OrderTypeOK
  PROVE  \E p \in Nat :
           /\ path \in Seq(Names) /\ turn \in Seq(Nat \ {0})
           /\ p = Len(path) /\ Len(turn) = p + 1
           /\ DOMAIN path = 1..p /\ DOMAIN turn = 1..(p + 1)
           /\ \A k \in 1..p : k \in 1..(p + 1) /\ k # p + 1
           /\ \A k \in 1..(p + 1) : k # p + 1 => k \in 1..p
           /\ \A k \in 1..(p + 1) : k # 1 => k - 1 \in 1..p
           /\ p + 1 \in 1..(p + 1) /\ p + 1 \notin 1..p
<1>1. path \in Seq(Names) /\ turn \in Seq(Nat \ {0}) /\ Len(turn) = Len(path) + 1
  BY DEF OrderTypeOK
<1>2. Len(path) \in Nat /\ DOMAIN path = 1..Len(path) /\ DOMAIN turn = 1..(Len(path) + 1)
  BY <1>1
<1> DEFINE p == Len(path)
<1>3. p \in Nat
  BY <1>2
<1>4. path \in Seq(Names) /\ turn \in Seq(Nat \ {0}) /\ p = Len(path) /\ Len(turn) = p + 1
      /\ DOMAIN path = 1..p /\ DOMAIN turn = 1..(p + 1)
  BY <1>1, <1>2
<1> HIDE DEF p
<1>5. /\ \A k \in 1..p : k \in 1..(p + 1) /\ k # p + 1
      /\ \A k \in 1..(p + 1) : k # p + 1 => k \in 1..p
      /\ \A k \in 1..(p + 1) : k # 1 => k - 1 \in 1..p
      /\ p + 1 \in 1..(p + 1) /\ p + 1 \notin 1..p
  BY <1>3
<1> QED  BY <1>3, <1>4, <1>5

LEMMA AppendedTo ==
  ASSUME NEW S, NEW s \in Seq(S), NEW e \in S, NEW p \in Nat, Len(s) = p
  PROVE  /\ Append(s, e) \in Seq(S) /\ Len(Append(s, e)) = p + 1
         /\ DOMAIN Append(s, e) = 1..(p + 1)
         /\ Append(s, e)[p + 1] = e /\ \A k \in 1..p : Append(s, e)[k] = s[k]
BY AppendProperties, LenProperties

LEMMA SkipStep ==
  ASSUME OrderTypeOK, SearchInv, NEW n \in Names, SkipDone(n)
  PROVE  OrderTypeOK' /\ SearchInv'
<1>0. PICK p \in Nat :
        /\ path \in Seq(Names) /\ turn \in Seq(Nat \ {0})
        /\ p = Len(path) /\ Len(turn) = p + 1
        /\ DOMAIN path = 1..p /\ DOMAIN turn = 1..(p + 1)
        /\ \A k \in 1..p : k \in 1..(p + 1) /\ k # p + 1
        /\ \A k \in 1..(p + 1) : k # p + 1 => k \in 1..p
        /\ \A k \in 1..(p + 1) : k # 1 => k - 1 \in 1..p
        /\ p + 1 \in 1..(p + 1) /\ p + 1 \notin 1..p
  BY PathTypes
<1>1. /\ UNCHANGED <<steps, phase, mark, path, cycle, ran, completed>>
      /\ turn' = Advanced(turn)
      /\ turn[Len(turn)] \in DOMAIN Loop(Len(turn)) /\ n = Loop(Len(turn))[turn[Len(turn)]]
      /\ mark[n] = "done"
  BY DEF SkipDone, Calling, Innermost, Last
<1>2. mark \in [Names -> {"", "seen", "done"}]
  BY DEF OrderTypeOK
<1>3. /\ turn' \in Seq(Nat \ {0}) /\ Len(turn') = p + 1 /\ DOMAIN turn' = 1..(p + 1)
      /\ turn'[p + 1] = turn[p + 1] + 1 /\ \A k \in 1..p : turn'[k] = turn[k]
  <2>1. turn \in Seq(Nat \ {0}) /\ Len(turn) = p + 1
    BY <1>0
  <2>2. /\ Advanced(turn) \in Seq(Nat \ {0}) /\ Len(Advanced(turn)) = p + 1
        /\ DOMAIN Advanced(turn) = 1..(p + 1)
        /\ Advanced(turn)[p + 1] = turn[p + 1] + 1
        /\ \A k \in 1..p : Advanced(turn)[k] = turn[k]
    BY <2>1, AdvancedLast
  <2> QED  BY <1>1, <2>2
<1>4. \A k : Loop(k)' = Loop(k)
  BY <1>1, SameGraph DEF Loop
<1>5. OrderTypeOK'
  BY <1>1, <1>0, <1>2, <1>3 DEF OrderTypeOK
<1>6. LoopsFollowed'
  <2>0. DOMAIN turn' = DOMAIN turn /\ mark' = mark
    BY <1>0, <1>1, <1>3
  <2> SUFFICES ASSUME NEW k \in DOMAIN turn, NEW j \in 1..(turn'[k] - 1)
               PROVE  j \in DOMAIN Loop(k) /\ mark[Loop(k)[j]] = "done"
    BY <1>4, <2>0 DEF LoopsFollowed
  <2>1. turn[k] \in Nat \ {0} /\ k \in 1..(p + 1)
    BY <1>0, LoopTypes
  <2>2. CASE j \in 1..(turn[k] - 1)
    BY <2>2 DEF SearchInv, LoopsFollowed
  <2>3. CASE j \notin 1..(turn[k] - 1)
    <3>1. k = p + 1 /\ j = turn[p + 1]
      BY <1>3, <2>1, <2>3
    <3> QED  BY <1>1, <1>0, <1>2, <3>1
  <2> QED  BY <2>2, <2>3
<1>7. CallsFollowed'
  <2> SUFFICES ASSUME NEW k \in DOMAIN path
               PROVE  turn'[k] \in DOMAIN Loop(k) /\ Loop(k)[turn'[k]] = path[k]
    BY <1>1, <1>4 DEF CallsFollowed
  <2>1. k \in 1..p
    BY <1>0, <1>2
  <2>2. turn'[k] = turn[k]
    BY <1>3, <2>1
  <2> QED  BY <2>2 DEF SearchInv, CallsFollowed
<1>8. SeenOnPath'
  BY <1>1 DEF SearchInv, SeenOnPath
<1>9. DoneIsClosed' /\ DoneIsFree'
  BY <1>1, DoneKept DEF SearchInv
<1> QED  BY <1>1, <1>5, <1>6, <1>7, <1>8, <1>9 DEF SearchInv

LEMMA EnterStep ==
  ASSUME OrderTypeOK, SearchInv, NEW n \in Names, Enter(n)
  PROVE  OrderTypeOK' /\ SearchInv'
<1>0. PICK p \in Nat :
        /\ path \in Seq(Names) /\ turn \in Seq(Nat \ {0})
        /\ p = Len(path) /\ Len(turn) = p + 1
        /\ DOMAIN path = 1..p /\ DOMAIN turn = 1..(p + 1)
        /\ \A k \in 1..p : k \in 1..(p + 1) /\ k # p + 1
        /\ \A k \in 1..(p + 1) : k # p + 1 => k \in 1..p
        /\ \A k \in 1..(p + 1) : k # 1 => k - 1 \in 1..p
        /\ p + 1 \in 1..(p + 1) /\ p + 1 \notin 1..p
  BY PathTypes
<1>1. /\ UNCHANGED <<steps, phase, cycle, ran, completed>>
      /\ turn' = Append(turn, 1) /\ path' = Append(path, n)
      /\ mark' = [mark EXCEPT ![n] = "seen"]
      /\ turn[Len(turn)] \in DOMAIN Loop(Len(turn)) /\ n = Loop(Len(turn))[turn[Len(turn)]]
      /\ mark[n] = ""
  BY DEF Enter, Calling, Innermost, Last
<1>2. mark \in [Names -> {"", "seen", "done"}]
  BY DEF OrderTypeOK
<1>3. /\ turn' \in Seq(Nat \ {0}) /\ Len(turn') = p + 1 + 1 /\ DOMAIN turn' = 1..(p + 1 + 1)
      /\ turn'[p + 1 + 1] = 1 /\ \A k \in 1..(p + 1) : turn'[k] = turn[k]
      /\ path' \in Seq(Names) /\ Len(path') = p + 1 /\ DOMAIN path' = 1..(p + 1)
      /\ path'[p + 1] = n /\ \A k \in 1..p : path'[k] = path[k]
  <2>1. /\ path \in Seq(Names) /\ Len(path) = p
        /\ turn \in Seq(Nat \ {0}) /\ Len(turn) = p + 1 /\ p + 1 \in Nat /\ 1 \in Nat \ {0}
    BY <1>0
  <2>2. /\ Append(turn, 1) \in Seq(Nat \ {0}) /\ Len(Append(turn, 1)) = p + 1 + 1
        /\ DOMAIN Append(turn, 1) = 1..(p + 1 + 1)
        /\ Append(turn, 1)[p + 1 + 1] = 1
        /\ \A k \in 1..(p + 1) : Append(turn, 1)[k] = turn[k]
    BY <2>1, AppendedTo
  <2>3. /\ Append(path, n) \in Seq(Names) /\ Len(Append(path, n)) = p + 1
        /\ DOMAIN Append(path, n) = 1..(p + 1)
        /\ Append(path, n)[p + 1] = n /\ \A k \in 1..p : Append(path, n)[k] = path[k]
    BY <2>1, AppendedTo
  <2> QED  BY <1>1, <2>2, <2>3
<1>4. /\ mark' \in [Names -> {"", "seen", "done"}] /\ mark'[n] = "seen"
      /\ \A m \in Names : m # n => mark'[m] = mark[m]
      /\ \A m \in Names : mark'[m] = "done" <=> mark[m] = "done"
  BY <1>1, <1>0, <1>2
<1>5. \A k \in 1..(p + 1) : Loop(k)' = Loop(k)
  <2> SUFFICES ASSUME NEW k \in 1..(p + 1)
               PROVE  Loop(k)' = Loop(k)
    OBVIOUS
  <2>1. k # 1 => k - 1 \in 1..Len(path)
    BY <1>0, <1>2
  <2>2. k # 1 => path'[k - 1] = path[k - 1]
    BY <1>3, <2>1
  <2>3. \A m : Graph(m)' = Graph(m)
    BY <1>1, SameGraph
  <2> QED  BY <1>1, <2>2, <2>3 DEF Loop
<1>6. OrderTypeOK'
  <2>1. Len(turn') = Len(path') + 1
    BY <1>3
  <2> QED  BY <1>1, <1>3, <1>4, <2>1 DEF OrderTypeOK
<1>7. LoopsFollowed'
  <2> SUFFICES ASSUME NEW k \in 1..(p + 1 + 1), NEW j \in 1..(turn'[k] - 1)
               PROVE  j \in DOMAIN Loop(k)' /\ mark'[Loop(k)'[j]] = "done"
    BY <1>3 DEF LoopsFollowed
  <2>1. k \in 1..(p + 1)
    <3>1. k # p + 1 + 1
      BY <1>3
    <3> QED  BY <3>1
  <2>2. k \in DOMAIN turn /\ j \in 1..(turn[k] - 1) /\ Loop(k)' = Loop(k)
    BY <1>0, <1>2, <1>3, <1>5, <2>1
  <2>3. j \in DOMAIN Loop(k) /\ mark[Loop(k)[j]] = "done"
    BY <2>2 DEF SearchInv, LoopsFollowed
  <2>4. Loop(k)[j] \in Names
    <3>1. Loop(k) \in Seq(Names)
      BY <2>2, LoopTypes
    <3> QED  BY <3>1, <2>3
  <2> QED  BY <1>4, <2>2, <2>3, <2>4
<1>8. CallsFollowed'
  <2> SUFFICES ASSUME NEW k \in 1..(p + 1)
               PROVE  turn'[k] \in DOMAIN Loop(k) /\ Loop(k)[turn'[k]] = path'[k]
    BY <1>3, <1>5 DEF CallsFollowed
  <2>1. turn'[k] = turn[k]
    BY <1>3
  <2>2. CASE k = p + 1
    BY <1>1, <1>0, <1>2, <1>3, <2>1, <2>2
  <2>3. CASE k # p + 1
    <3>1. k \in DOMAIN path
      BY <1>0, <1>2, <2>3
    <3>2. path'[k] = path[k]
      BY <1>0, <1>2, <1>3, <3>1
    <3> QED  BY <2>1, <3>1, <3>2 DEF SearchInv, CallsFollowed
  <2> QED  BY <2>2, <2>3
<1>9. SeenOnPath'
  <2>1. ~\E k \in DOMAIN path : path[k] = n
    BY <1>1 DEF SearchInv, SeenOnPath
  <2>2. \A k \in 1..(p + 1) : k # p + 1 => k \in DOMAIN path /\ path'[k] = path[k] /\ path[k] # n
    <3> SUFFICES ASSUME NEW k \in 1..(p + 1), k # p + 1
                 PROVE  k \in DOMAIN path /\ path'[k] = path[k] /\ path[k] # n
      OBVIOUS
    <3>1. k \in DOMAIN path
      BY <1>0, <1>2
    <3> QED  BY <1>0, <1>2, <1>3, <2>1, <3>1
  <2>3. DOMAIN path \subseteq 1..(p + 1) /\ (p + 1) \in 1..(p + 1) /\ (p + 1) \notin DOMAIN path
    BY <1>0, <1>2
  <2>4. /\ \A m \in Names : mark[m] = "seen" <=> \E k \in DOMAIN path : path[k] = m
        /\ \A j, k \in DOMAIN path : path[j] = path[k] => j = k
    BY DEF SearchInv, SeenOnPath
  <2>5. DOMAIN path' = 1..(p + 1) /\ path'[p + 1] = n
    BY <1>3
  <2>6. ASSUME NEW m \in Names
        PROVE  mark'[m] = "seen" <=> \E k \in 1..(p + 1) : path'[k] = m
    <3>1. CASE m = n
      BY <1>4, <2>3, <2>5, <3>1
    <3>2. CASE m # n
      <4>1. mark'[m] = mark[m]
        BY <1>4, <3>2
      <4>2. (\E k \in 1..(p + 1) : path'[k] = m) <=> \E k \in DOMAIN path : path[k] = m
        BY <2>2, <2>3, <2>5, <3>2
      <4> QED  BY <2>4, <4>1, <4>2
    <3> QED  BY <3>1, <3>2
  <2>7. \A j, k \in 1..(p + 1) : path'[j] = path'[k] => j = k
    BY <2>2, <2>3, <2>4, <2>5
  <2> QED  BY <2>5, <2>6, <2>7 DEF SeenOnPath
<1>10. DoneIsClosed' /\ DoneIsFree'
  BY <1>1, <1>4, DoneKept DEF SearchInv
<1> QED  BY <1>1, <1>6, <1>7, <1>8, <1>9, <1>10 DEF SearchInv

LEMMA LeaveStep ==
  ASSUME OrderTypeOK, SearchInv, Leave
  PROVE  OrderTypeOK' /\ SearchInv'
<1>0. PICK p \in Nat :
        /\ path \in Seq(Names) /\ turn \in Seq(Nat \ {0})
        /\ p = Len(path) /\ Len(turn) = p + 1
        /\ DOMAIN path = 1..p /\ DOMAIN turn = 1..(p + 1)
        /\ \A k \in 1..p : k \in 1..(p + 1) /\ k # p + 1
        /\ \A k \in 1..(p + 1) : k # p + 1 => k \in 1..p
        /\ \A k \in 1..(p + 1) : k # 1 => k - 1 \in 1..p
        /\ p + 1 \in 1..(p + 1) /\ p + 1 \notin 1..p
  BY PathTypes
<1> DEFINE x == path[p]
<1>1. /\ UNCHANGED <<steps, phase, cycle, ran, completed>>
      /\ mark' = [mark EXCEPT ![x] = "done"]
      /\ path' = Front(path) /\ turn' = Advanced(Front(turn)) /\ path # <<>>
      /\ turn[p + 1] > Len(Loop(p + 1))
  BY <1>0 DEF Leave, Innermost, Last, MarkedDone
<1>2. PICK q \in Nat : p = q + 1 /\ p \in 1..p /\ \A k \in 1..q : k \in 1..p /\ k # p
  <2>1. p # 0
    BY <1>0, <1>1
  <2>2. p - 1 \in Nat /\ p = (p - 1) + 1
    BY <2>1
  <2> QED  BY <2>2
<1>3. /\ path' \in Seq(Names) /\ Len(path') = q /\ DOMAIN path' = 1..q
      /\ \A k \in 1..q : path'[k] = path[k]
  <2>1. q \in Nat /\ path \in Seq(Names) /\ Len(path) = q + 1
    BY <1>0, <1>2
  <2>2. /\ Front(path) \in Seq(Names) /\ Len(Front(path)) = q /\ DOMAIN Front(path) = 1..q
        /\ \A k \in 1..q : Front(path)[k] = path[k]
    BY <2>1 DEF Front
  <2> QED  BY <1>1, <2>2
<1>4. /\ turn' \in Seq(Nat \ {0}) /\ Len(turn') = q + 1 /\ DOMAIN turn' = 1..(q + 1)
      /\ turn'[p] = turn[p] + 1 /\ \A k \in 1..q : turn'[k] = turn[k]
  <2>1. turn \in Seq(Nat \ {0}) /\ Len(turn) = p + 1
    BY <1>0
  <2>2. /\ Front(turn) \in Seq(Nat \ {0}) /\ Len(Front(turn)) = p
        /\ \A k \in 1..p : Front(turn)[k] = turn[k]
    BY <1>0, <2>1 DEF Front
  <2>3. Front(turn) \in Seq(Nat \ {0}) /\ Len(Front(turn)) = q + 1
    BY <1>2, <2>2
  <2>4. /\ Advanced(Front(turn)) \in Seq(Nat \ {0}) /\ Len(Advanced(Front(turn))) = q + 1
        /\ DOMAIN Advanced(Front(turn)) = 1..(q + 1)
        /\ Advanced(Front(turn))[q + 1] = Front(turn)[q + 1] + 1
        /\ \A k \in 1..q : Advanced(Front(turn))[k] = Front(turn)[k]
    BY <2>3, AdvancedLast
  <2> QED  BY <1>1, <1>2, <2>2, <2>4
<1>5. x \in Names /\ mark[x] = "seen"
  <2>1. x \in Names
    BY <1>0, <1>2
  <2> QED  BY <1>0, <1>2, <2>1 DEF SearchInv, SeenOnPath
<1> HIDE DEF x
<1>6. /\ mark' \in [Names -> {"", "seen", "done"}] /\ mark'[x] = "done"
      /\ \A m \in Names : m # x => mark'[m] = mark[m]
  BY <1>1, <1>5 DEF OrderTypeOK
<1>7. \A k \in 1..p : Loop(k)' = Loop(k)
  <2> SUFFICES ASSUME NEW k \in 1..p
               PROVE  Loop(k)' = Loop(k)
    OBVIOUS
  <2>1. k # 1 => k - 1 \in 1..q
    BY <1>2
  <2>2. k # 1 => path'[k - 1] = path[k - 1]
    BY <1>3, <2>1
  <2>3. \A m : Graph(m)' = Graph(m)
    BY <1>1, SameGraph
  <2> QED  BY <1>1, <2>2, <2>3 DEF Loop
<1>8. OrderTypeOK'
  BY <1>1, <1>3, <1>4, <1>6 DEF OrderTypeOK
<1>9. ASSUME NEW k \in 1..(p + 1), NEW j \in 1..(turn[k] - 1)
      PROVE  /\ j \in DOMAIN Loop(k) /\ Loop(k)[j] \in Names
             /\ mark[Loop(k)[j]] = "done" /\ mark'[Loop(k)[j]] = "done"
  <2>1. j \in DOMAIN Loop(k) /\ mark[Loop(k)[j]] = "done"
    BY <1>0 DEF SearchInv, LoopsFollowed
  <2>2. Loop(k) \in Seq(Names)
    BY <1>0, LoopTypes
  <2>3. Loop(k)[j] \in Names
    BY <2>1, <2>2
  <2> QED  BY <1>6, <2>1, <2>3
<1>10. \A k \in DOMAIN path : turn[k] \in DOMAIN Loop(k) /\ Loop(k)[turn[k]] = path[k]
  BY DEF SearchInv, CallsFollowed
<1>11. LoopsFollowed'
  <2> SUFFICES ASSUME NEW k \in 1..p, NEW j \in 1..(turn'[k] - 1)
               PROVE  j \in DOMAIN Loop(k) /\ mark'[Loop(k)[j]] = "done"
    BY <1>2, <1>4, <1>7 DEF LoopsFollowed
  <2>1. turn[k] \in Nat \ {0} /\ k \in 1..(p + 1)
    BY <1>0, LoopTypes
  <2>2. CASE j \in 1..(turn[k] - 1)
    BY <1>9, <2>1, <2>2
  <2>3. CASE j \notin 1..(turn[k] - 1)
    <3>1. k = p /\ j = turn[p]
      BY <1>2, <1>4, <2>1, <2>3
    <3>2. j \in DOMAIN Loop(k) /\ Loop(k)[j] = x
      BY <1>0, <1>10, <3>1 DEF x
    <3> QED  BY <1>6, <3>2
  <2> QED  BY <2>2, <2>3
<1>12. CallsFollowed'
  <2> SUFFICES ASSUME NEW k \in 1..q
               PROVE  turn'[k] \in DOMAIN Loop(k) /\ Loop(k)[turn'[k]] = path'[k]
    BY <1>2, <1>3, <1>7 DEF CallsFollowed
  <2>1. k \in DOMAIN path /\ turn'[k] = turn[k] /\ path'[k] = path[k]
    BY <1>0, <1>2, <1>3, <1>4
  <2> QED  BY <1>10, <2>1
<1>13. SeenOnPath'
  <2>1. /\ \A m \in Names : mark[m] = "seen" <=> \E k \in DOMAIN path : path[k] = m
        /\ \A j, k \in DOMAIN path : path[j] = path[k] => j = k
    BY DEF SearchInv, SeenOnPath
  <2>2. /\ DOMAIN path' \subseteq DOMAIN path /\ p \in DOMAIN path /\ p \notin DOMAIN path'
        /\ \A k \in DOMAIN path : k # p => k \in DOMAIN path'
        /\ \A k \in DOMAIN path' : path'[k] = path[k]
    <3>1. /\ \A k \in 1..q : k \in 1..p
          /\ p \in 1..p /\ p \notin 1..q
          /\ \A k \in 1..p : k # p => k \in 1..q
      BY <1>2
    <3>2. DOMAIN path = 1..p /\ DOMAIN path' = 1..q
      BY <1>0, <1>3
    <3> QED  BY <1>3, <3>1, <3>2
  <2>3. \A j, k \in DOMAIN path' : path'[j] = path'[k] => j = k
    BY <2>1, <2>2
  <2>4. ASSUME NEW m \in Names
        PROVE  mark'[m] = "seen" <=> \E k \in DOMAIN path' : path'[k] = m
    <3>1. CASE m = x
      BY <1>6, <2>1, <2>2, <3>1 DEF x
    <3>2. CASE m # x
      <4>1. mark'[m] = mark[m]
        BY <1>6, <3>2
      <4>2. (\E k \in DOMAIN path' : path'[k] = m) <=> \E k \in DOMAIN path : path[k] = m
        BY <2>2, <3>2 DEF x
      <4> QED  BY <2>1, <4>1, <4>2
    <3> QED  BY <3>1, <3>2
  <2> QED  BY <2>3, <2>4 DEF SeenOnPath
<1>14. \A m, n : DependsOn(m, n)' <=> DependsOn(m, n)
  BY <1>1, SameGraph DEF DependsOn
<1>15. \A n : DependsOn(x, n) => mark[n] = "done"
  <2> SUFFICES ASSUME NEW n, DependsOn(x, n)
               PROVE  mark[n] = "done"
    OBVIOUS
  <2>1. Loop(p + 1) = Graph(x)
    BY <1>0, <1>2 DEF Loop, x
  <2>2. PICK j \in DOMAIN Loop(p + 1) : n = Loop(p + 1)[j]
    BY <2>1 DEF DependsOn, ToSet
  <2>3. Loop(p + 1) \in Seq(Names) /\ turn[p + 1] \in Nat
    BY <1>0, LoopTypes
  <2>4. j \in 1..(turn[p + 1] - 1)
    BY <1>1, <2>2, <2>3
  <2> QED  BY <1>0, <1>9, <2>2, <2>4
<1>16. DoneIsClosed'
  <2> SUFFICES ASSUME NEW m \in Names, NEW n \in Names, mark'[m] = "done", DependsOn(m, n)
               PROVE  mark'[n] = "done"
    BY <1>14 DEF DoneIsClosed
  <2>1. mark[n] = "done"
    BY <1>6, <1>15 DEF SearchInv, DoneIsClosed
  <2> QED  BY <1>6, <2>1
<1>17. DoneIsFree'
  <2> SUFFICES ASSUME NEW S \in SUBSET Names, S # {}, \A m \in S : mark'[m] = "done"
               PROVE  \E m \in S : \A n \in S : ~DependsOn(m, n)
    BY <1>14 DEF DoneIsFree
  <2> DEFINE T == S \ {x}
  <2>1. T \in SUBSET Names /\ \A m \in T : mark[m] = "done"
    BY <1>6
  <2>2. CASE T = {}
    <3>1. S = {x}
      BY <2>2
    <3>2. ~DependsOn(x, x)
      BY <1>5, <1>15
    <3> QED  BY <3>1, <3>2
  <2>3. CASE T # {}
    <3> HIDE DEF T
    <3>1. PICK m \in T : \A n \in T : ~DependsOn(m, n)
      BY <2>1, <2>3 DEF SearchInv, DoneIsFree
    <3>2. ~DependsOn(m, x)
      BY <1>5, <2>1 DEF SearchInv, DoneIsClosed
    <3> QED  BY <3>1, <3>2 DEF T
  <2> QED  BY <2>2, <2>3
<1> QED  BY <1>1, <1>8, <1>11, <1>12, <1>13, <1>16, <1>17 DEF SearchInv

LEMMA MeetStep ==
  ASSUME OrderTypeOK, SearchInv, NEW n \in Names, MeetCycle(n)
  PROVE  OrderTypeOK' /\ CyclesFound'
<1>0. PICK p \in Nat :
        /\ path \in Seq(Names) /\ turn \in Seq(Nat \ {0})
        /\ p = Len(path) /\ Len(turn) = p + 1
        /\ DOMAIN path = 1..p /\ DOMAIN turn = 1..(p + 1)
        /\ \A k \in 1..p : k \in 1..(p + 1) /\ k # p + 1
        /\ \A k \in 1..(p + 1) : k # p + 1 => k \in 1..p
        /\ \A k \in 1..(p + 1) : k # 1 => k - 1 \in 1..p
        /\ p + 1 \in 1..(p + 1) /\ p + 1 \notin 1..p
  BY PathTypes
<1>1. /\ UNCHANGED <<steps, mark, path, turn, ran, completed>>
      /\ cycle' = path /\ phase' = "run" /\ mark[n] = "seen"
      /\ turn[p + 1] \in DOMAIN Loop(p + 1) /\ n = Loop(p + 1)[turn[p + 1]]
  BY <1>0 DEF MeetCycle, Calling, Innermost, Last
<1>2. OrderTypeOK'
  BY <1>1 DEF OrderTypeOK
<1>3. PICK h \in 1..p : path[h] = n
  BY <1>0, <1>1 DEF SearchInv, SeenOnPath
<1>4. p \in 1..p /\ path # <<>>
  BY <1>0, <1>3
<1>5. \A i \in 1..(p - 1) : i \in 1..p /\ i + 1 \in 1..p /\ DependsOn(path[i], path[i + 1])
  <2> SUFFICES ASSUME NEW i \in 1..(p - 1)
               PROVE  i \in 1..p /\ i + 1 \in 1..p /\ DependsOn(path[i], path[i + 1])
    OBVIOUS
  <2>1. i \in 1..p /\ i + 1 \in 1..p /\ i + 1 # 1 /\ (i + 1) - 1 = i
    OBVIOUS
  <2>2. turn[i + 1] \in DOMAIN Loop(i + 1) /\ Loop(i + 1)[turn[i + 1]] = path[i + 1]
    BY <1>0, <2>1 DEF SearchInv, CallsFollowed
  <2>3. Loop(i + 1) = Graph(path[i])
    BY <2>1 DEF Loop
  <2> QED  BY <2>1, <2>2, <2>3 DEF DependsOn, ToSet
<1>6. DependsOn(path[p], n)
  <2>1. Loop(p + 1) = Graph(path[p])
    <3>1. p + 1 # 1 /\ (p + 1) - 1 = p
      BY <1>4
    <3> QED  BY <3>1 DEF Loop
  <2> QED  BY <1>1, <2>1 DEF DependsOn, ToSet
<1>7. Chain(path)
  <2>1. Last(path) = path[p] /\ n \in ToSet(path)
    BY <1>0, <1>3 DEF Last, ToSet
  <2> QED  BY <1>0, <1>5, <1>6, <2>1 DEF Chain
<1>8. Knot
  <2> DEFINE S == {m \in Names : \E i \in h..p : path[i] = m}
  <2>1. \A i \in h..p : i \in 1..p /\ path[i] \in S
    BY <1>0, <1>3
  <2>2. h \in h..p /\ n \in S
    BY <1>3, <2>1
  <2>3. KnotOf(S)
    <3> SUFFICES ASSUME NEW m \in S
                 PROVE  \E o \in S : DependsOn(m, o)
      BY DEF KnotOf
    <3>1. PICK i \in h..p : path[i] = m
      OBVIOUS
    <3>2. CASE i = p
      BY <1>6, <2>2, <3>1, <3>2
    <3>3. CASE i # p
      <4>1. i \in 1..(p - 1) /\ i + 1 \in h..p
        BY <1>3, <3>1, <3>3
      <4>2. DependsOn(m, path[i + 1])
        BY <1>5, <3>1, <4>1
      <4> HIDE DEF S
      <4> QED  BY <2>1, <4>1, <4>2
    <3> QED  BY <3>2, <3>3
  <2>4. S \in (SUBSET Names) \ {{}}
    BY <2>2
  <2> QED  BY <2>3, <2>4 DEF Knot
<1>9. \A m, o : DependsOn(m, o)' <=> DependsOn(m, o)
  BY <1>1, SameGraph DEF DependsOn
<1>10. Chain(path)' /\ Knot'
  BY <1>1, <1>7, <1>8, <1>9 DEF Chain, Knot, KnotOf
<1> QED  BY <1>1, <1>2, <1>4, <1>10 DEF CyclesFound

LEMMA NoCycleStep ==
  ASSUME OrderTypeOK, SearchInv, NoCycle
  PROVE  OrderTypeOK' /\ CyclesFound'
<1>1. /\ UNCHANGED <<steps, mark, path, turn, cycle, ran, completed>>
      /\ phase' = "run" /\ path = <<>> /\ turn[Len(turn)] > Len(Loop(Len(turn)))
      /\ cycle = <<>>
  BY DEF NoCycle, Innermost, Last, SearchInv
<1>2. OrderTypeOK'
  BY <1>1 DEF OrderTypeOK
<1>3. Len(turn) = 1 /\ 1 \in DOMAIN turn
  <2>1. PICK p \in Nat : p = Len(path) /\ Len(turn) = p + 1 /\ DOMAIN turn = 1..(p + 1)
    BY PathTypes
  <2>2. p = 0
    BY <1>1, <2>1
  <2> QED  BY <2>1, <2>2
<1>4. \A i \in DOMAIN steps : mark[steps[i].name] = "done"
  <2> SUFFICES ASSUME NEW i \in DOMAIN steps
               PROVE  mark[steps[i].name] = "done"
    OBVIOUS
  <2>1. Loop(1) = [j \in DOMAIN steps |-> steps[j].name]
    BY DEF Loop
  <2>2. Loop(1) \in Seq(Names) /\ turn[1] \in Nat \ {0}
    BY <1>3, LoopTypes
  <2>3. turn[1] > Len(Loop(1))
    BY <1>1, <1>3
  <2>4. i \in 1..(turn[1] - 1)
    <3>1. i \in DOMAIN Loop(1)
      BY <2>1
    <3> QED  BY <2>2, <2>3, <3>1
  <2>5. mark[Loop(1)[i]] = "done"
    BY <1>3, <2>4 DEF SearchInv, LoopsFollowed
  <2> QED  BY <2>1, <2>5
<1>5. ~Knot
  <2> SUFFICES ASSUME NEW S \in SUBSET Names, S # {}, KnotOf(S)
               PROVE  FALSE
    BY DEF Knot
  <2>1. \A m \in S : mark[m] = "done"
    <3> SUFFICES ASSUME NEW m \in S
                 PROVE  mark[m] = "done"
      OBVIOUS
    <3>1. PICK n \in S : DependsOn(m, n)
      BY DEF KnotOf
    <3>2. steps \in Seq(Step)
      BY DEF OrderTypeOK
    <3> QED  BY <1>4, <3>1, <3>2, OnlyNamedDepend
  <2> QED  BY <2>1 DEF SearchInv, DoneIsFree, KnotOf
<1>6. \A m, o : DependsOn(m, o)' <=> DependsOn(m, o)
  BY <1>1, SameGraph DEF DependsOn
<1>7. ~Knot'
  BY <1>5, <1>6 DEF Knot, KnotOf
<1> QED  BY <1>1, <1>2, <1>7 DEF CyclesFound

LEMMA SameCycles ==
  ASSUME CyclesFound, UNCHANGED <<steps, phase, cycle>>
  PROVE  CyclesFound'
<1>1. \A m, o : DependsOn(m, o)' <=> DependsOn(m, o)
  BY SameGraph DEF DependsOn
<1>2. /\ Knot' <=> Knot
      /\ Chain(cycle)' <=> Chain(cycle)
  BY <1>1 DEF Knot, KnotOf, Chain
<1> QED  BY <1>2 DEF CyclesFound

LEMMA SameRuns ==
  ASSUME RunInv, UNCHANGED <<steps, ran, completed>>, phase' = phase \/ phase' = "run"
  PROVE  RunInv'
BY DEF RunInv, ListedInOrder

LEMMA RunStep ==
  ASSUME OrderTypeOK, RunInv, RunNext
  PROVE  OrderTypeOK' /\ RunInv'
<1> DEFINE i == ran + 1
           deps == ToSet(steps[i].deps)
<1>1. /\ UNCHANGED <<steps, phase, mark, path, turn, cycle>> /\ phase = "run"
      /\ ran < Len(steps) /\ ran' = i
      /\ completed' = completed \cup {n \in Names : n = steps[i].name /\ deps \subseteq completed}
  BY DEF RunNext, DepsOK
<1>2. /\ steps \in Seq(Step) /\ Len(steps) \in Nat /\ DOMAIN steps = 1..Len(steps)
      /\ ran \in Nat
  <2>1. steps \in Seq(Step) /\ ran \in 0..Len(steps)
    BY DEF OrderTypeOK
  <2> QED  BY <2>1
<1>3. /\ i \in DOMAIN steps /\ i \in 0..Len(steps) /\ i \in 1..i
      /\ \A j \in 1..i : j # i => j \in 1..ran
      /\ \A j \in 1..ran : j \in 1..i
      /\ 1..(i - 1) = 1..ran
  BY <1>1, <1>2
<1>4. steps[i].name \in Names
  <2>1. steps[i] \in Step
    BY <1>2, <1>3
  <2> QED  BY <2>1 DEF Step
<1>5. OrderTypeOK'
  <2>1. completed' \subseteq Names
    BY <1>1 DEF OrderTypeOK
  <2> QED  BY <1>1, <1>3, <2>1 DEF OrderTypeOK
<1>6. ASSUME ListedInOrder, NEW j \in 1..i
      PROVE  steps[j].name \in completed'
  <2>1. CASE j # i
    BY <1>1, <1>3, <1>6, <2>1 DEF RunInv
  <2>2. CASE j = i
    <3>1. ASSUME NEW d \in deps
          PROVE  d \in completed
      <4>1. PICK k \in 1..(i - 1) : steps[k].name = d
        BY <1>3, <1>6 DEF ListedInOrder
      <4> QED  BY <1>3, <1>6, <4>1 DEF RunInv
    <3> QED  BY <1>1, <1>4, <2>2, <3>1
  <2> QED  BY <2>1, <2>2
<1>7. ASSUME NEW n \in completed'
      PROVE  \E j \in 1..i : /\ steps[j].name = n
                             /\ \A d \in ToSet(steps[j].deps) : \E k \in 1..(j - 1) : steps[k].name = d
  <2>1. CASE n \in completed
    BY <1>3, <2>1 DEF RunInv
  <2>2. CASE n \notin completed
    <3>1. n = steps[i].name /\ deps \subseteq completed
      BY <1>1, <2>2
    <3>2. \A d \in deps : \E k \in 1..(i - 1) : steps[k].name = d
      BY <1>3, <3>1 DEF RunInv
    <3> QED  BY <1>3, <3>1, <3>2
  <2> QED  BY <2>1, <2>2
<1>8. ListedInOrder' <=> ListedInOrder
  BY <1>1 DEF ListedInOrder
<1>9. RunInv'
  <2>1. steps' = steps /\ ran' = i /\ phase' = "run"
    BY <1>1
  <2>2. ListedInOrder' => \A j \in 1..ran' : steps'[j].name \in completed'
    BY <1>6, <1>8, <2>1
  <2>3. \A n \in completed' : \E j \in 1..ran' :
          steps'[j].name = n /\ \A d \in ToSet(steps'[j].deps) : \E k \in 1..(j - 1) : steps'[k].name = d
    BY <1>7, <2>1
  <2> QED  BY <2>1, <2>2, <2>3 DEF RunInv
<1> QED  BY <1>5, <1>9

LEMMA OrderInvStep == OrderInv /\ [OrderNext]_order => OrderInv'
<1> SUFFICES ASSUME OrderInv, [OrderNext]_order
             PROVE  OrderInv'
  OBVIOUS
<1>0. OrderTypeOK /\ (phase = "search" => SearchInv) /\ CyclesFound /\ RunInv
  BY DEF OrderInv
<1>1. ASSUME NEW n \in Names, SkipDone(n)
      PROVE  OrderInv'
  <2>1. phase = "search" /\ UNCHANGED <<steps, phase, cycle, ran, completed>>
    BY <1>1 DEF SkipDone, Calling
  <2> QED  BY <1>0, <1>1, <2>1, SkipStep, SameCycles, SameRuns DEF OrderInv
<1>2. ASSUME NEW n \in Names, MeetCycle(n)
      PROVE  OrderInv'
  <2>1. phase = "search" /\ phase' = "run" /\ UNCHANGED <<steps, ran, completed>>
    BY <1>2 DEF MeetCycle, Calling
  <2> QED  BY <1>0, <1>2, <2>1, MeetStep, SameRuns DEF OrderInv
<1>3. ASSUME NEW n \in Names, Enter(n)
      PROVE  OrderInv'
  <2>1. phase = "search" /\ UNCHANGED <<steps, phase, cycle, ran, completed>>
    BY <1>3 DEF Enter, Calling
  <2> QED  BY <1>0, <1>3, <2>1, EnterStep, SameCycles, SameRuns DEF OrderInv
<1>4. CASE Leave
  <2>1. phase = "search" /\ UNCHANGED <<steps, phase, cycle, ran, completed>>
    BY <1>4 DEF Leave
  <2> QED  BY <1>0, <1>4, <2>1, LeaveStep, SameCycles, SameRuns DEF OrderInv
<1>5. CASE NoCycle
  <2>1. phase = "search" /\ phase' = "run" /\ UNCHANGED <<steps, ran, completed>>
    BY <1>5 DEF NoCycle
  <2> QED  BY <1>0, <1>5, <2>1, NoCycleStep, SameRuns DEF OrderInv
<1>6. CASE RunNext
  <2>1. phase = "run" /\ UNCHANGED <<steps, phase, cycle>>
    BY <1>6 DEF RunNext
  <2> QED  BY <1>0, <1>6, <2>1, RunStep, SameCycles DEF OrderInv
<1>7. CASE UNCHANGED order
  <2>1. UNCHANGED <<steps, phase, mark, path, turn, cycle, ran, completed>>
    BY <1>7 DEF order
  <2>2. CyclesFound' /\ RunInv'
    BY <1>0, <2>1, SameCycles, SameRuns
  <2>3. OrderTypeOK'
    BY <1>0, <2>1 DEF OrderTypeOK
  <2>4. phase' = "search" => SearchInv'
    <3> SUFFICES ASSUME phase = "search"
                 PROVE  SearchInv'
      BY <2>1
    <3>1. (\A k : Loop(k)' = Loop(k)) /\ \A m, o : DependsOn(m, o)' <=> DependsOn(m, o)
      BY <2>1, SameGraph DEF Loop, DependsOn
    <3>2. SearchInv
      BY <1>0
    <3>3. LoopsFollowed' /\ CallsFollowed'
      BY <2>1, <3>1, <3>2 DEF SearchInv, LoopsFollowed, CallsFollowed
    <3>4. SeenOnPath'
      BY <2>1, <3>2 DEF SearchInv, SeenOnPath
    <3>5. DoneIsClosed' /\ DoneIsFree'
      BY <2>1, <3>2, DoneKept DEF SearchInv
    <3> QED  BY <2>1, <3>2, <3>3, <3>4, <3>5 DEF SearchInv
  <2> QED  BY <2>2, <2>3, <2>4 DEF OrderInv
<1> QED  BY <1>1, <1>2, <1>3, <1>4, <1>5, <1>6, <1>7 DEF OrderNext

LEMMA OrderInvInit == OrderOK /\ OrderInit => OrderInv
<1> SUFFICES ASSUME OrderOK, OrderInit
             PROVE  OrderInv
  OBVIOUS
<1>1. steps \in Seq(Step) /\ phase = "search" /\ cycle = <<>> /\ ran = 0 /\ completed = {}
  BY DEF OrderInit, OrderStart, OrderOK
<1>2. mark = [n \in Names |-> ""] /\ path = <<>> /\ turn = <<1>>
  BY DEF OrderInit, OrderStart
<1>3. OrderTypeOK
  <2>1. <<1>> \in Seq(Nat \ {0}) /\ Len(<<1>>) = Len(<<>>) + 1 /\ <<>> \in Seq(Names)
    OBVIOUS
  <2>2. ran \in 0..Len(steps)
    <3>1. Len(steps) \in Nat
      BY <1>1
    <3> QED  BY <1>1, <3>1
  <2>3. mark \in [Names -> {"", "seen", "done"}]
    BY <1>2
  <2> QED  BY <1>1, <1>2, <2>1, <2>2, <2>3 DEF OrderTypeOK
<1>4. LoopsFollowed /\ CallsFollowed /\ SeenOnPath
  <2>1. PICK p \in Nat : p = Len(path) /\ DOMAIN path = 1..p /\ DOMAIN turn = 1..(p + 1)
    BY <1>3, PathTypes
  <2>2. p = 0 /\ turn[1] = 1
    BY <1>2, <2>1
  <2>3. (\A k \in DOMAIN turn : turn[k] = 1) /\ DOMAIN path = {}
    BY <2>1, <2>2
  <2>4. LoopsFollowed
    BY <2>3 DEF LoopsFollowed
  <2>5. \A n \in Names : mark[n] # "seen"
    BY <1>2
  <2> QED  BY <2>3, <2>4, <2>5 DEF CallsFollowed, SeenOnPath
<1>5. DoneIsClosed /\ DoneIsFree
  <2>1. \A n \in Names : mark[n] # "done"
    BY <1>2
  <2> QED  BY <2>1 DEF DoneIsClosed, DoneIsFree
<1>6. CyclesFound
  BY <1>1 DEF CyclesFound
<1>7. RunInv
  <2>1. 1..ran = {}
    BY <1>1
  <2> QED  BY <1>1, <2>1 DEF RunInv
<1> QED  BY <1>1, <1>3, <1>4, <1>5, <1>6, <1>7 DEF OrderInv, SearchInv

LEMMA OrderInvHolds == OrderSpec => []OrderInv
BY OrderInvInit, OrderInvStep, OrderOK, PTL DEF OrderSpec

\* The invariant gives what is promised of the order of the steps.
LEMMA OrderTyped == OrderSpec => []OrderTypeOK
<1>1. OrderInv => OrderTypeOK
  BY DEF OrderInv
<1> QED  BY <1>1, OrderInvHolds, PTL

LEMMA StepsJudged == OrderSpec => []OrderJudged
<1>1. OrderInv => RunsListedInOrder
  <2> SUFFICES ASSUME OrderTypeOK, RunInv, ran = Len(steps), Accepted
               PROVE  AllCompleted <=> ListedInOrder
    BY DEF OrderInv, RunsListedInOrder
  <2>1. DOMAIN steps = 1..ran
    <3>1. steps \in Seq(Step)
      BY DEF OrderTypeOK
    <3> QED  BY <3>1
  <2>2. ListedInOrder => AllCompleted
    BY <2>1 DEF RunInv, AllCompleted
  <2>3. ASSUME AllCompleted
        PROVE  ListedInOrder
    <3> SUFFICES ASSUME NEW i \in DOMAIN steps
                 PROVE  \A d \in ToSet(steps[i].deps) : \E j \in 1..(i - 1) : steps[j].name = d
      BY DEF ListedInOrder
    <3>1. PICK k \in 1..ran :
            /\ steps[k].name = steps[i].name
            /\ \A d \in ToSet(steps[k].deps) : \E j \in 1..(k - 1) : steps[j].name = d
      <4>1. steps[i].name \in completed
        BY <2>3 DEF AllCompleted
      <4> QED  BY <4>1 DEF RunInv
    <3>2. k \in Named(steps[i].name) /\ Named(steps[i].name) = {i}
      BY <2>1, <3>1 DEF Accepted, Named
    <3>3. k = i
      BY <3>2
    <3> QED  BY <3>1, <3>3
  <2> QED  BY <2>2, <2>3
<1>2. OrderInv => OrderJudged
  BY <1>1 DEF OrderInv, OrderJudged
<1> QED  BY <1>2, OrderInvHolds, PTL

----------------------------------------------------------------------------
(* The matrix *)

\* The combination that the loops of cartesian come to at u and d.
At(u, d) ==
  [k \in DOMAIN rest[d] \cup {Key} |-> IF k = Key THEN Chosen[u] ELSE rest[d][k]]

\* Where the loops have been.
Passed(u, d) == u < value \/ (u = value /\ d < place)

Done == Keys \ left

\* rest lists the product of the keys that are done.
RestInv ==
  /\ ToSet(rest) = Product(Done)
  /\ Distinct => InOrder(Done, rest)

ResultInv ==
  left # {} =>
    /\ \A i \in DOMAIN result : \E u \in DOMAIN Chosen, d \in DOMAIN rest :
         Passed(u, d) /\ result[i] = At(u, d)
    /\ \A u \in DOMAIN Chosen, d \in DOMAIN rest :
         Passed(u, d) => \E i \in DOMAIN result : result[i] = At(u, d)
    /\ Distinct => InOrder(Done \cup {Key}, result)
    /\ value > Len(Chosen) => place = 1

FilterInv ==
  /\ \A i \in DOMAIN combos : \E d \in DOMAIN rest :
       d < place /\ ~MatchesAny(rest[d]) /\ combos[i] = rest[d]
  /\ \A d \in DOMAIN rest :
       d < place /\ ~MatchesAny(rest[d]) => \E i \in DOMAIN combos : combos[i] = rest[d]
  /\ Distinct => InOrder(Keys, combos)

\* The keys are taken from the last.
LastFirst == \A k \in left, l \in Done : k < l

ExpandInv ==
  /\ MatrixTypeOK /\ LastFirst
  /\ stage \in {"check", "product"} => RestInv /\ ResultInv /\ combos = <<>> /\ (left = {} => place = 1)
  /\ stage = "check" => value = 1 /\ place = 1 /\ left = Keys /\ result = <<>>
  /\ stage = "product" => ~Nothing
  /\ stage = "filter" => ~Nothing /\ left = {} /\ RestInv /\ FilterInv
  /\ CombinationsExact

LEMMA AskTypes ==
  ASSUME MatrixTypeOK
  PROVE  /\ Keys \subseteq Nat /\ left \subseteq Keys
         /\ \A k \in Keys : ask.dims[k] \in Seq(Values)
         /\ ask.include \in Seq(Pattern)
BY DEF MatrixTypeOK, IsMatrix, Keys

LEMMA KeyFacts ==
  ASSUME MatrixOK, MatrixTypeOK, LastFirst, left # {}
  PROVE  /\ Key \in left /\ Key \in Keys /\ Key \notin Done
         /\ \A l \in left : l # Key => l < Key
         /\ \A l \in Done : Key < l
         /\ Chosen \in Seq(Values)
         /\ Keys \ (left \ {Key}) = Done \cup {Key}
<1>1. left \in SUBSET (1..LastKey) /\ LastKey \in Nat
  BY DEF MatrixTypeOK, IsMatrix, Keys, MatrixOK
<1>2. \E k \in left : \A l \in left : l <= k
  BY <1>1, Greatest
<1>3. Key \in left /\ \A l \in left : l <= Key
  BY <1>2 DEF Key
<1>4. Key \in Keys /\ Key \notin Done /\ Keys \ (left \ {Key}) = Done \cup {Key}
  BY <1>3, AskTypes DEF Done
<1>5. \A l \in left : l # Key => l < Key
  BY <1>1, <1>3
<1>6. \A l \in Done : Key < l
  BY <1>3 DEF LastFirst
<1>7. Chosen \in Seq(Values)
  BY <1>4, AskTypes DEF Chosen
<1> QED  BY <1>3, <1>4, <1>5, <1>6, <1>7

LEMMA PlaceOf ==
  ASSUME Distinct, NEW k \in Keys, NEW i \in DOMAIN ask.dims[k]
  PROVE  Place(ask.dims[k], ask.dims[k][i]) = i
BY DEF Place, Distinct

LEMMA SameAsk ==
  ASSUME UNCHANGED ask
  PROVE  /\ Keys' = Keys /\ (Nothing' <=> Nothing) /\ (Distinct' <=> Distinct)
         /\ \A K, c, d : Before(K, c, d)' <=> Before(K, c, d)
         /\ \A K, list : InOrder(K, list)' <=> InOrder(K, list)
         /\ \A K : Product(K)' = Product(K)
         /\ \A c : (MatchesAny(c)' <=> MatchesAny(c)) /\ (Excluded(c)' <=> Excluded(c))
<1>1. Keys' = Keys
  BY DEF Keys
<1>2. \A K, c, d : Before(K, c, d)' <=> Before(K, c, d)
  BY DEF Before
<1>3. \A K, list : InOrder(K, list)' <=> InOrder(K, list)
  BY <1>2 DEF InOrder
<1>4. \A K : Product(K)' = Product(K)
  BY DEF Product
<1>5. \A c : (MatchesAny(c)' <=> MatchesAny(c)) /\ (Excluded(c)' <=> Excluded(c))
  BY DEF MatchesAny, Excluded
<1>6. (Nothing' <=> Nothing) /\ (Distinct' <=> Distinct)
  BY <1>1 DEF Nothing, Distinct
<1> QED  BY <1>1, <1>2, <1>3, <1>4, <1>5, <1>6

\* A list in order goes on in order.
LEMMA OrderGrows ==
  ASSUME NEW S, NEW list \in Seq(S), NEW c \in S, NEW K, InOrder(K, list),
         \A i \in DOMAIN list : Before(K, list[i], c)
  PROVE  InOrder(K, Append(list, c))
<1>1. PICK p \in Nat : p = Len(list) /\ DOMAIN list = 1..p
  BY LenProperties
<1>2. /\ DOMAIN Append(list, c) = 1..(p + 1) /\ Append(list, c)[p + 1] = c
      /\ \A i \in 1..p : Append(list, c)[i] = list[i]
  BY <1>1, AppendProperties, LenProperties
<1> DEFINE longer == Append(list, c)
<1> HIDE DEF longer
<1>3. \A i, j \in 1..(p + 1) : i < j => i \in 1..p /\ (j \in 1..p \/ j = p + 1)
  BY <1>1
<1>4. ASSUME NEW i \in 1..(p + 1), NEW j \in 1..(p + 1), i < j
      PROVE  Before(K, longer[i], longer[j])
  <2>1. i \in 1..p /\ longer[i] = list[i]
    BY <1>2, <1>3, <1>4 DEF longer
  <2>2. CASE j \in 1..p
    BY <1>1, <1>2, <1>4, <2>1, <2>2 DEF longer, InOrder
  <2>3. CASE j = p + 1
    BY <1>1, <1>2, <2>1, <2>3 DEF longer
  <2> QED  BY <1>3, <1>4, <2>2, <2>3
<1> QED  BY <1>2, <1>4 DEF InOrder, longer

\* What cartesian appends.
LEMMA AtFacts ==
  ASSUME MatrixOK, MatrixTypeOK, LastFirst, left # {}, ToSet(rest) = Product(Done),
         NEW u \in DOMAIN Chosen, NEW d \in DOMAIN rest
  PROVE  /\ At(u, d) \in Product(Done \cup {Key})
         /\ At(u, d) \in [Done \cup {Key} -> Values]
         /\ At(u, d)[Key] = Chosen[u]
         /\ \A k \in Done : At(u, d)[k] = rest[d][k]
         /\ rest[d] \in [Done -> Values]
<1>1. rest[d] \in Product(Done)
  BY DEF ToSet
<1>2. rest[d] \in [Done -> Values] /\ \A k \in Done : rest[d][k] \in ToSet(ask.dims[k])
  BY <1>1 DEF Product
<1>3. Key \notin Done /\ Chosen \in Seq(Values)
  BY KeyFacts
<1>4. Chosen[u] \in Values /\ Chosen[u] \in ToSet(Chosen)
  BY <1>3 DEF ToSet
<1>5. At(u, d) = [k \in Done \cup {Key} |-> IF k = Key THEN Chosen[u] ELSE rest[d][k]]
  BY <1>2 DEF At
<1>6. /\ At(u, d) \in [Done \cup {Key} -> Values] /\ At(u, d)[Key] = Chosen[u]
      /\ \A k \in Done : At(u, d)[k] = rest[d][k]
  BY <1>2, <1>3, <1>4, <1>5
<1>7. \A k \in Done \cup {Key} : At(u, d)[k] \in ToSet(ask.dims[k])
  BY <1>2, <1>4, <1>6 DEF Chosen
<1> QED  BY <1>2, <1>6, <1>7 DEF Product

LEMMA AtOrder ==
  ASSUME MatrixOK, MatrixTypeOK, LastFirst, left # {}, RestInv, Distinct,
         NEW u \in DOMAIN Chosen, NEW d \in DOMAIN rest,
         NEW e \in DOMAIN Chosen, NEW f \in DOMAIN rest, u < e \/ (u = e /\ d < f)
  PROVE  Before(Done \cup {Key}, At(u, d), At(e, f))
<1>1. /\ At(u, d)[Key] = Chosen[u] /\ \A k \in Done : At(u, d)[k] = rest[d][k]
      /\ At(e, f)[Key] = Chosen[e] /\ \A k \in Done : At(e, f)[k] = rest[f][k]
  BY AtFacts DEF RestInv
<1>2. /\ Key \in Keys /\ Key \notin Done /\ \A l \in Done : Key < l
      /\ Keys \subseteq Nat /\ Done \subseteq Keys
  BY KeyFacts, AskTypes DEF Done
<1>3. CASE u < e
  <2>1. Place(Chosen, Chosen[u]) = u /\ Place(Chosen, Chosen[e]) = e
    BY <1>2, PlaceOf DEF Chosen
  <2>2. \A l \in Done \cup {Key} : ~(l < Key)
    BY <1>2
  <2> QED  BY <1>1, <1>3, <2>1, <2>2 DEF Before, Chosen
<1>4. CASE u = e /\ d < f
  <2>1. Before(Done, rest[d], rest[f])
    BY <1>4 DEF RestInv, InOrder
  <2>2. PICK k \in Done : /\ Place(ask.dims[k], rest[d][k]) < Place(ask.dims[k], rest[f][k])
                          /\ \A l \in Done : l < k => rest[d][l] = rest[f][l]
    BY <2>1 DEF Before
  <2>3. \A l \in Done \cup {Key} : l < k => At(u, d)[l] = At(e, f)[l]
    BY <1>1, <1>4, <2>2
  <2> QED  BY <1>1, <2>2, <2>3 DEF Before
<1> QED  BY <1>3, <1>4

LEMMA AtAll ==
  ASSUME MatrixOK, MatrixTypeOK, LastFirst, left # {}, ToSet(rest) = Product(Done),
         NEW c \in Product(Done \cup {Key})
  PROVE  \E u \in DOMAIN Chosen, d \in DOMAIN rest : c = At(u, d)
<1>1. Key \notin Done
  BY KeyFacts
<1>2. c \in [Done \cup {Key} -> Values] /\ \A k \in Done \cup {Key} : c[k] \in ToSet(ask.dims[k])
  BY DEF Product
<1>3. PICK u \in DOMAIN Chosen : c[Key] = Chosen[u]
  BY <1>2 DEF ToSet, Chosen
<1> DEFINE g == [k \in Done |-> c[k]]
<1>4. g \in Product(Done)
  BY <1>2 DEF Product
<1>5. PICK d \in DOMAIN rest : g = rest[d]
  BY <1>4 DEF ToSet
<1>6. At(u, d) = [k \in Done \cup {Key} |-> IF k = Key THEN Chosen[u] ELSE rest[d][k]]
  <2>1. DOMAIN rest[d] = Done
    BY <1>5
  <2> QED  BY <2>1 DEF At
<1>7. At(u, d) = c
  <2>1. \A k \in Done \cup {Key} : At(u, d)[k] = c[k]
    BY <1>1, <1>3, <1>5, <1>6
  <2> QED  BY <1>2, <1>6, <2>1
<1> QED  BY <1>7

LEMMA ExpandFacts ==
  ASSUME ExpandInv
  PROVE  /\ MatrixTypeOK /\ LastFirst /\ CombinationsExact
         /\ stage = "product" => RestInv /\ ResultInv /\ combos = <<>> /\ (left = {} => place = 1)
         /\ stage = "product" => ~Nothing
         /\ stage = "filter" => ~Nothing /\ left = {} /\ RestInv /\ FilterInv
BY DEF ExpandInv

\* When the keys and the list of the rest stay, so does what is said of them.
LEMMA SameRest ==
  ASSUME UNCHANGED <<ask, left, rest>>
  PROVE  /\ Done' = Done /\ Keys' = Keys /\ Key' = Key /\ Chosen' = Chosen
         /\ RestInv' <=> RestInv
         /\ LastFirst' <=> LastFirst
         /\ \A u, d : At(u, d)' = At(u, d)
<1>1. Keys' = Keys /\ Done' = Done /\ Key' = Key
  BY DEF Keys, Done, Key
<1>2. Chosen' = Chosen
  BY <1>1 DEF Chosen
<1>3. RestInv' <=> RestInv
  BY <1>1, SameAsk DEF RestInv
<1>4. LastFirst' <=> LastFirst
  BY <1>1 DEF LastFirst
<1>5. \A u, d : At(u, d)' = At(u, d)
  BY <1>1, <1>2 DEF At
<1> QED  BY <1>1, <1>2, <1>3, <1>4, <1>5

LEMMA CartesianTypes ==
  ASSUME MatrixTypeOK, left # {}
  PROVE  /\ DOMAIN rest = 1..Len(rest) /\ Len(rest) \in Nat
         /\ result \in Seq([Done \cup {Key} -> Values]) /\ rest \in Seq([Done -> Values])
         /\ value \in Nat \ {0} /\ place \in Nat \ {0}
<1>1. rest \in Seq([Done -> Values]) /\ result \in Seq([Done \cup {Key} -> Values])
  BY DEF MatrixTypeOK, Done
<1>2. value \in Nat \ {0} /\ place \in Nat \ {0}
  BY DEF MatrixTypeOK
<1>3. DOMAIN rest = 1..Len(rest) /\ Len(rest) \in Nat
  BY <1>1, LenProperties
<1> QED  BY <1>1, <1>2, <1>3

LEMMA AppendStep ==
  ASSUME MatrixOK, ExpandInv, AppendCombo
  PROVE  ExpandInv'
<1>1. /\ UNCHANGED <<ask, stage, left, rest, value, combos>> /\ stage = "product" /\ left # {}
      /\ value <= Len(Chosen) /\ place <= Len(rest)
      /\ place' = place + 1 /\ result' = Append(result, With(rest[place]))
  BY DEF AppendCombo
<1>2. /\ MatrixTypeOK /\ LastFirst /\ RestInv /\ ResultInv /\ combos = <<>> /\ ~Nothing
  BY <1>1, ExpandFacts
<1>3. /\ DOMAIN rest = 1..Len(rest) /\ Len(rest) \in Nat
      /\ result \in Seq([Done \cup {Key} -> Values]) /\ rest \in Seq([Done -> Values])
      /\ value \in Nat \ {0} /\ place \in Nat \ {0}
  BY <1>1, <1>2, CartesianTypes
<1>4. place \in DOMAIN rest /\ With(rest[place]) = At(value, place)
  BY <1>1, <1>3 DEF With, At
<1>5. value \in DOMAIN Chosen /\ DOMAIN Chosen \subseteq Nat
  <2>1. Chosen \in Seq(Values)
    BY <1>1, <1>2, KeyFacts
  <2>2. DOMAIN Chosen = 1..Len(Chosen) /\ Len(Chosen) \in Nat
    BY <2>1, LenProperties
  <2> QED  BY <1>1, <1>3, <2>2
<1> DEFINE new == At(value, place)
<1>6. new \in [Done \cup {Key} -> Values]
  BY <1>1, <1>2, <1>4, <1>5, AtFacts DEF RestInv
<1> DEFINE p == Len(result)
<1>7. p \in Nat /\ DOMAIN result = 1..p
  BY <1>3, LenProperties
<1>8. /\ result' = Append(result, new) /\ result' \in Seq([Done \cup {Key} -> Values])
      /\ DOMAIN result' = 1..(p + 1) /\ result'[p + 1] = new
      /\ \A i \in 1..p : result'[i] = result[i]
  <2>1. result' = Append(result, new)
    BY <1>1, <1>4
  <2> HIDE DEF new
  <2>2. /\ Append(result, new) \in Seq([Done \cup {Key} -> Values])
        /\ Len(Append(result, new)) = Len(result) + 1
        /\ \A i \in 1..Len(result) : Append(result, new)[i] = result[i]
        /\ Append(result, new)[Len(result) + 1] = new
    BY <1>3, <1>6, AppendProperties
  <2>3. DOMAIN Append(result, new) = 1..(p + 1)
    BY <2>2, LenProperties
  <2> QED  BY <2>1, <2>2, <2>3
<1> HIDE DEF p
<1>9. /\ Done' = Done /\ Keys' = Keys /\ Key' = Key /\ Chosen' = Chosen
      /\ RestInv' /\ LastFirst' /\ \A u, d : At(u, d)' = At(u, d)
  BY <1>1, <1>2, SameRest
<1>10. MatrixTypeOK'
  <2>1. IsMatrix(ask)' /\ left' \subseteq Keys' /\ rest' \in Seq([Keys' \ left' -> Values])
    BY <1>1, <1>2, <1>9 DEF MatrixTypeOK
  <2>2. value' \in Nat \ {0} /\ place' \in Nat \ {0}
    BY <1>1, <1>3
  <2>3. result' \in Seq([(Keys' \ left') \cup {Key'} -> Values])
    BY <1>1, <1>8, <1>9 DEF Done
  <2>4. stage' # "over" => combos' \in Seq([Keys' -> Values])
    BY <1>1, <1>2, <1>9 DEF MatrixTypeOK
  <2> QED  BY <1>1, <2>1, <2>2, <2>3, <2>4 DEF MatrixTypeOK
<1>11. \A u \in DOMAIN Chosen, d \in DOMAIN rest :
         Passed(u, d)' <=> Passed(u, d) \/ (u = value /\ d = place)
  BY <1>1, <1>3, <1>5 DEF Passed
<1>12. /\ \A i \in DOMAIN result : \E u \in DOMAIN Chosen, d \in DOMAIN rest :
            Passed(u, d) /\ result[i] = At(u, d)
       /\ \A u \in DOMAIN Chosen, d \in DOMAIN rest :
            Passed(u, d) => \E i \in DOMAIN result : result[i] = At(u, d)
       /\ Distinct => InOrder(Done \cup {Key}, result)
  BY <1>1, <1>2 DEF ResultInv
<1>13. ASSUME NEW i \in DOMAIN result'
       PROVE  \E u \in DOMAIN Chosen, d \in DOMAIN rest : Passed(u, d)' /\ result'[i] = At(u, d)
  <2>1. CASE i \in 1..p
    BY <1>7, <1>8, <1>11, <1>12, <2>1
  <2>2. CASE i = p + 1
    BY <1>4, <1>5, <1>8, <1>11, <2>2
  <2>3. i \in 1..p \/ i = p + 1
    BY <1>7, <1>8
  <2> QED  BY <2>1, <2>2, <2>3
<1>14. ASSUME NEW u \in DOMAIN Chosen, NEW d \in DOMAIN rest, Passed(u, d)'
       PROVE  \E i \in DOMAIN result' : result'[i] = At(u, d)
  <2>0. p + 1 \in DOMAIN result' /\ \A i \in DOMAIN result : i \in DOMAIN result' /\ result'[i] = result[i]
    BY <1>7, <1>8
  <2>1. CASE Passed(u, d)
    BY <1>12, <2>0, <2>1
  <2>2. CASE u = value /\ d = place
    BY <1>8, <2>0, <2>2
  <2> QED  BY <1>11, <1>14, <2>1, <2>2
<1>15. Distinct => InOrder(Done \cup {Key}, result')
  <2> SUFFICES ASSUME Distinct
               PROVE  InOrder(Done \cup {Key}, result')
    OBVIOUS
  <2>1. ASSUME NEW i \in DOMAIN result
        PROVE  Before(Done \cup {Key}, result[i], new)
    <3>1. PICK u \in DOMAIN Chosen, d \in DOMAIN rest : Passed(u, d) /\ result[i] = At(u, d)
      BY <1>12
    <3>2. u < value \/ (u = value /\ d < place)
      BY <3>1 DEF Passed
    <3>3. Before(Done \cup {Key}, At(u, d), At(value, place))
      BY <1>1, <1>2, <1>4, <1>5, <3>2, AtOrder
    <3> QED  BY <3>1, <3>3
  <2>2. InOrder(Done \cup {Key}, result)
    BY <1>12
  <2> HIDE DEF new
  <2> QED  BY <1>3, <1>6, <1>8, <2>1, <2>2, OrderGrows
<1>16. ResultInv'
  <2>1. value' <= Len(Chosen')
    BY <1>1, <1>9
  <2>2. ~(value' > Len(Chosen'))
    <3>1. Chosen \in Seq(Values)
      BY <1>1, <1>2, KeyFacts
    <3>2. Len(Chosen) \in Nat
      BY <3>1, LenProperties
    <3> QED  BY <1>1, <1>3, <1>9, <2>1, <3>2
  <2>3. Distinct' => InOrder(Done \cup {Key}, result)'
    BY <1>1, <1>9, <1>15, SameAsk
  <2>4. \A i \in DOMAIN result' : \E u \in DOMAIN Chosen', d \in DOMAIN rest' :
          Passed(u, d)' /\ result'[i] = At(u, d)'
    BY <1>1, <1>9, <1>13
  <2>5. \A u \in DOMAIN Chosen', d \in DOMAIN rest' :
          Passed(u, d)' => \E i \in DOMAIN result' : result'[i] = At(u, d)'
    BY <1>1, <1>9, <1>14
  <2> QED  BY <1>9, <2>2, <2>3, <2>4, <2>5 DEF ResultInv
<1>17. ~Nothing'
  BY <1>1, <1>2, SameAsk
<1> QED  BY <1>1, <1>2, <1>9, <1>10, <1>16, <1>17 DEF ExpandInv, CombinationsExact

LEMMA CheckStep ==
  ASSUME MatrixOK, ExpandInv, Check
  PROVE  ExpandInv'
<1>1. /\ UNCHANGED <<ask, left, rest, value, place, result, combos>> /\ stage = "check"
      /\ stage' = IF Nothing THEN "over" ELSE "product"
  BY DEF Check
<1>2. /\ MatrixTypeOK /\ LastFirst /\ RestInv /\ ResultInv /\ combos = <<>>
      /\ (left = {} => place = 1)
  BY <1>1 DEF ExpandInv
<1>3. /\ Done' = Done /\ Keys' = Keys /\ Key' = Key /\ Chosen' = Chosen
      /\ RestInv' /\ LastFirst' /\ \A u, d : At(u, d)' = At(u, d)
  BY <1>1, <1>2, SameRest
<1>4. (Nothing' <=> Nothing) /\ (stage' = "over" => Nothing)
  BY <1>1, SameAsk
<1>5. MatrixTypeOK'
  <2>1. /\ IsMatrix(ask)' /\ left' \subseteq Keys' /\ rest' \in Seq([Keys' \ left' -> Values])
        /\ value' \in Nat \ {0} /\ place' \in Nat \ {0}
    BY <1>1, <1>2, <1>3 DEF MatrixTypeOK
  <2>2. /\ left' # {} => result' \in Seq([(Keys' \ left') \cup {Key'} -> Values])
        /\ left' = {} => result' = <<>>
    BY <1>1, <1>2, <1>3 DEF MatrixTypeOK
  <2>3. combos' \in Seq([Keys' -> Values])
    BY <1>1, <1>2, <1>3 DEF MatrixTypeOK
  <2> QED  BY <1>1, <2>1, <2>2, <2>3 DEF MatrixTypeOK
<1>6. ResultInv'
  <2>1. \A u, d : Passed(u, d)' <=> Passed(u, d)
    BY <1>1 DEF Passed
  <2>2. \A K, list : InOrder(K, list)' <=> InOrder(K, list)
    BY <1>1, SameAsk
  <2>3. Distinct' <=> Distinct
    BY <1>1, SameAsk
  <2> QED  BY <1>1, <1>2, <1>3, <2>1, <2>2, <2>3 DEF ResultInv
<1>7. CombinationsExact'
  BY <1>1, <1>2, <1>4 DEF CombinationsExact
<1> QED  BY <1>1, <1>2, <1>3, <1>4, <1>5, <1>6, <1>7 DEF ExpandInv

LEMMA NextValueStep ==
  ASSUME MatrixOK, ExpandInv, NextValue
  PROVE  ExpandInv'
<1>1. /\ UNCHANGED <<ask, stage, left, rest, result, combos>> /\ stage = "product" /\ left # {}
      /\ value <= Len(Chosen) /\ place > Len(rest)
      /\ value' = value + 1 /\ place' = 1
  BY DEF NextValue
<1>2. /\ MatrixTypeOK /\ LastFirst /\ RestInv /\ ResultInv /\ combos = <<>> /\ ~Nothing
  BY <1>1, ExpandFacts
<1>3. /\ DOMAIN rest = 1..Len(rest) /\ Len(rest) \in Nat
      /\ value \in Nat \ {0} /\ place \in Nat \ {0}
  BY <1>1, <1>2, CartesianTypes
<1>4. DOMAIN Chosen \subseteq Nat
  <2>1. Chosen \in Seq(Values)
    BY <1>1, <1>2, KeyFacts
  <2>2. DOMAIN Chosen = 1..Len(Chosen) /\ Len(Chosen) \in Nat
    BY <2>1, LenProperties
  <2> QED  BY <2>2
<1>5. /\ Done' = Done /\ Keys' = Keys /\ Key' = Key /\ Chosen' = Chosen
      /\ RestInv' /\ LastFirst' /\ \A u, d : At(u, d)' = At(u, d)
  BY <1>1, <1>2, SameRest
<1>6. MatrixTypeOK'
  <2>1. /\ IsMatrix(ask)' /\ left' \subseteq Keys' /\ rest' \in Seq([Keys' \ left' -> Values])
    BY <1>1, <1>2, <1>5 DEF MatrixTypeOK
  <2>2. value' \in Nat \ {0} /\ place' \in Nat \ {0}
    BY <1>1, <1>3
  <2>3. /\ left' # {} => result' \in Seq([(Keys' \ left') \cup {Key'} -> Values])
        /\ left' = {} => result' = <<>>
    BY <1>1, <1>2, <1>5 DEF MatrixTypeOK
  <2>4. combos' \in Seq([Keys' -> Values])
    BY <1>1, <1>2, <1>5 DEF MatrixTypeOK
  <2> QED  BY <1>1, <1>2, <2>1, <2>2, <2>3, <2>4 DEF MatrixTypeOK
<1>7. \A u \in DOMAIN Chosen, d \in DOMAIN rest : Passed(u, d)' <=> Passed(u, d)
  <2>1. ASSUME NEW u \in DOMAIN Chosen, NEW d \in DOMAIN rest
        PROVE  Passed(u, d)' <=> Passed(u, d)
    <3>1. u \in Nat /\ d \in 1..Len(rest)
      BY <1>3, <1>4
    <3>2. d < place /\ ~(d < 1)
      BY <1>1, <1>3, <3>1
    <3>3. u < value + 1 <=> u < value \/ u = value
      BY <1>3, <3>1
    <3> QED  BY <1>1, <3>2, <3>3 DEF Passed
  <2> QED  BY <2>1
<1>8. ResultInv'
  <2>1. \A K, list : InOrder(K, list)' <=> InOrder(K, list)
    BY <1>1, SameAsk
  <2>2. Distinct' <=> Distinct
    BY <1>1, SameAsk
  <2>3. /\ \A i \in DOMAIN result : \E u \in DOMAIN Chosen, d \in DOMAIN rest :
            Passed(u, d)' /\ result[i] = At(u, d)
        /\ \A u \in DOMAIN Chosen, d \in DOMAIN rest :
             Passed(u, d)' => \E i \in DOMAIN result : result[i] = At(u, d)
        /\ Distinct => InOrder(Done \cup {Key}, result)
    BY <1>1, <1>2, <1>7 DEF ResultInv
  <2> QED  BY <1>1, <1>5, <2>1, <2>2, <2>3 DEF ResultInv
<1>9. ~Nothing'
  BY <1>1, <1>2, SameAsk
<1> QED  BY <1>1, <1>2, <1>5, <1>6, <1>8, <1>9 DEF ExpandInv, CombinationsExact

\* What cartesian returns for a key and those after it.
LEMMA KeyProduct ==
  ASSUME MatrixOK, MatrixTypeOK, LastFirst, RestInv, ResultInv, left # {}, value > Len(Chosen)
  PROVE  /\ ToSet(result) = Product(Done \cup {Key})
         /\ Distinct => InOrder(Done \cup {Key}, result)
<1>1. Chosen \in Seq(Values)
  BY KeyFacts
<1>2. value \in Nat \ {0}
  BY CartesianTypes
<1>3. \A u \in DOMAIN Chosen, d \in DOMAIN rest : Passed(u, d)
  <2>1. DOMAIN Chosen = 1..Len(Chosen) /\ Len(Chosen) \in Nat
    BY <1>1, LenProperties
  <2>2. \A u \in DOMAIN Chosen : u < value
    BY <1>2, <2>1
  <2> QED  BY <2>2 DEF Passed
<1>4. /\ \A i \in DOMAIN result : \E u \in DOMAIN Chosen, d \in DOMAIN rest : result[i] = At(u, d)
      /\ \A u \in DOMAIN Chosen, d \in DOMAIN rest : \E i \in DOMAIN result : result[i] = At(u, d)
      /\ Distinct => InOrder(Done \cup {Key}, result)
  BY <1>3 DEF ResultInv
<1>5. \A u \in DOMAIN Chosen, d \in DOMAIN rest : At(u, d) \in Product(Done \cup {Key})
  BY AtFacts DEF RestInv
<1>6. \A c \in Product(Done \cup {Key}) : \E u \in DOMAIN Chosen, d \in DOMAIN rest : c = At(u, d)
  BY AtAll DEF RestInv
<1>7. \A c : c \in ToSet(result) <=> \E i \in DOMAIN result : result[i] = c
  BY DEF ToSet
<1>8. \A c : c \in ToSet(result) => c \in Product(Done \cup {Key})
  <2> SUFFICES ASSUME NEW i \in DOMAIN result
               PROVE  result[i] \in Product(Done \cup {Key})
    BY <1>7
  <2> QED  BY <1>4, <1>5
<1>9. \A c : c \in Product(Done \cup {Key}) => c \in ToSet(result)
  BY <1>4, <1>6, <1>7
<1> QED  BY <1>4, <1>8, <1>9

LEMMA KeyDoneStep ==
  ASSUME MatrixOK, ExpandInv, KeyDone
  PROVE  ExpandInv'
<1>1. /\ UNCHANGED <<ask, stage, place, combos>> /\ stage = "product" /\ left # {}
      /\ value > Len(Chosen) /\ left' = left \ {Key}
      /\ rest' = result /\ result' = <<>> /\ value' = 1
  BY DEF KeyDone
<1>2. /\ MatrixTypeOK /\ LastFirst /\ RestInv /\ ResultInv /\ combos = <<>> /\ ~Nothing
  BY <1>1, ExpandFacts
<1>3. place = 1
  BY <1>1, <1>2 DEF ResultInv
<1>4. /\ Key \in left /\ Key \in Keys /\ Key \notin Done
      /\ \A l \in left : l # Key => l < Key
      /\ \A l \in Done : Key < l
      /\ Keys \ (left \ {Key}) = Done \cup {Key}
  BY <1>1, <1>2, KeyFacts
<1>5. Keys' = Keys /\ (Distinct' <=> Distinct) /\ (Nothing' <=> Nothing)
  BY <1>1, SameAsk
<1>6. Done' = Done \cup {Key} /\ left' \subseteq Keys
  <2>1. left \subseteq Keys
    BY <1>2, AskTypes
  <2> QED  BY <1>1, <1>4, <1>5, <2>1 DEF Done
<1>7. MatrixTypeOK'
  <2>1. IsMatrix(ask)' /\ left' \subseteq Keys'
    BY <1>1, <1>2, <1>5, <1>6 DEF MatrixTypeOK
  <2>2. result \in Seq([Done \cup {Key} -> Values])
    BY <1>1, <1>2, CartesianTypes
  <2>3. Keys' \ left' = Done \cup {Key}
    BY <1>6 DEF Done
  <2>4. rest' \in Seq([Keys' \ left' -> Values])
    BY <1>1, <2>2, <2>3
  <2>5. result' \in Seq([(Keys' \ left') \cup {Key'} -> Values])
    BY <1>1
  <2>6. combos' \in Seq([Keys' -> Values])
    BY <1>1, <1>2, <1>5 DEF MatrixTypeOK
  <2> QED  BY <1>1, <1>3, <2>1, <2>4, <2>5, <2>6 DEF MatrixTypeOK
<1>8. LastFirst'
  <2>1. \A k \in left', l \in Done \cup {Key} : k < l
    BY <1>1, <1>2, <1>4 DEF LastFirst
  <2> QED  BY <1>6, <2>1 DEF LastFirst
<1>9. RestInv'
  <2>1. ToSet(rest') = Product(Done \cup {Key}) /\ (Distinct => InOrder(Done \cup {Key}, rest'))
    BY <1>1, <1>2, KeyProduct
  <2>2. ToSet(rest)' = ToSet(rest')
    BY DEF ToSet
  <2>3. \A K : Product(K)' = Product(K)
    BY <1>1, SameAsk
  <2>4. \A K, list : InOrder(K, list)' <=> InOrder(K, list)
    BY <1>1, SameAsk
  <2>5. Product(Done)' = Product(Done \cup {Key})
    BY <1>6, <2>3
  <2>6. Distinct' => InOrder(Done, rest)'
    BY <1>5, <1>6, <2>1, <2>4
  <2> QED  BY <2>1, <2>2, <2>5, <2>6 DEF RestInv
<1>10. ResultInv'
  <2>0. SUFFICES ASSUME left' # {}
                 PROVE  ResultInv'
    BY DEF ResultInv
  <2>1. Chosen' \in Seq(Values)
    <3>1. left \in SUBSET (1..LastKey) /\ LastKey \in Nat
      BY <1>2 DEF MatrixTypeOK, IsMatrix, Keys, MatrixOK
    <3>2. left' \in SUBSET (1..LastKey)
      BY <1>1, <3>1
    <3>3. \E k \in left' : \A l \in left' : l <= k
      BY <2>0, <3>1, <3>2, Greatest
    <3>4. Key' \in left'
      BY <3>3 DEF Key
    <3>5. Key' \in Keys /\ Chosen' = ask.dims[Key']
      BY <1>1, <1>6, <3>4 DEF Chosen
    <3> QED  BY <1>2, <3>5, AskTypes
  <2>2. DOMAIN Chosen' \subseteq Nat \ {0} /\ DOMAIN rest' \subseteq Nat \ {0}
    <3>1. rest' \in Seq([Keys' \ left' -> Values])
      BY <1>7 DEF MatrixTypeOK
    <3>2. DOMAIN Chosen' = 1..Len(Chosen') /\ DOMAIN rest' = 1..Len(rest')
      BY <2>1, <3>1, LenProperties
    <3> QED  BY <3>2
  <2>3. \A u \in DOMAIN Chosen', d \in DOMAIN rest' : ~Passed(u, d)'
    BY <1>1, <1>3, <2>2 DEF Passed
  <2>4. DOMAIN result' = {}
    BY <1>1
  <2>5. InOrder(Done \cup {Key}, result)'
    BY <2>4 DEF InOrder
  <2> QED  BY <1>1, <1>3, <2>3, <2>4, <2>5 DEF ResultInv
<1> QED  BY <1>1, <1>2, <1>3, <1>5, <1>7, <1>8, <1>9, <1>10 DEF ExpandInv, CombinationsExact

LEMMA ProductDoneStep ==
  ASSUME MatrixOK, ExpandInv, ProductDone
  PROVE  ExpandInv'
<1>1. /\ UNCHANGED <<ask, left, rest, value, place, result, combos>>
      /\ stage = "product" /\ left = {} /\ stage' = "filter"
  BY DEF ProductDone
<1>2. /\ MatrixTypeOK /\ LastFirst /\ RestInv /\ combos = <<>> /\ ~Nothing /\ place = 1
  BY <1>1, ExpandFacts
<1>3. Done' = Done /\ Keys' = Keys /\ RestInv' /\ LastFirst'
  BY <1>1, <1>2, SameRest
<1>4. MatrixTypeOK'
  <2>1. /\ IsMatrix(ask)' /\ left' \subseteq Keys' /\ rest' \in Seq([Keys' \ left' -> Values])
        /\ value' \in Nat \ {0} /\ place' \in Nat \ {0}
    BY <1>1, <1>2, <1>3 DEF MatrixTypeOK
  <2>2. left' = {} /\ result' = <<>>
    BY <1>1, <1>2 DEF MatrixTypeOK
  <2>3. combos' \in Seq([Keys' -> Values])
    BY <1>1, <1>2, <1>3 DEF MatrixTypeOK
  <2> QED  BY <1>1, <2>1, <2>2, <2>3 DEF MatrixTypeOK
<1>5. FilterInv'
  <2>1. rest \in Seq([Keys \ left -> Values])
    BY <1>2 DEF MatrixTypeOK
  <2>2. DOMAIN rest = 1..Len(rest)
    BY <2>1, LenProperties
  <2>3. \A d \in DOMAIN rest' : ~(d < place')
    BY <1>1, <1>2, <2>2
  <2>4. DOMAIN combos' = {}
    BY <1>1, <1>2
  <2>5. InOrder(Keys, combos)'
    BY <2>4 DEF InOrder
  <2> QED  BY <2>3, <2>4, <2>5 DEF FilterInv
<1>6. ~Nothing'
  BY <1>1, <1>2, SameAsk
<1> QED  BY <1>1, <1>3, <1>4, <1>5, <1>6 DEF ExpandInv, CombinationsExact

LEMMA FilterStep ==
  ASSUME MatrixOK, ExpandInv, Filter
  PROVE  ExpandInv'
<1>1. /\ UNCHANGED <<ask, stage, left, rest, value, result>> /\ stage = "filter"
      /\ place <= Len(rest) /\ place' = place + 1
      /\ combos' = IF MatchesAny(rest[place]) THEN combos ELSE Append(combos, rest[place])
  BY DEF Filter
<1>2. /\ MatrixTypeOK /\ LastFirst /\ RestInv /\ FilterInv /\ left = {} /\ ~Nothing
  BY <1>1, ExpandFacts
<1>3. /\ Done' = Done /\ Keys' = Keys /\ Done = Keys /\ RestInv' /\ LastFirst'
  <2>1. Done = Keys
    BY <1>2 DEF Done
  <2> QED  BY <1>1, <1>2, <2>1, SameRest
<1>4. /\ rest \in Seq([Keys -> Values]) /\ combos \in Seq([Keys -> Values])
      /\ place \in Nat \ {0} /\ IsMatrix(ask) /\ value \in Nat \ {0} /\ result = <<>>
  BY <1>1, <1>2, <1>3 DEF MatrixTypeOK, Done
<1>5. DOMAIN rest = 1..Len(rest) /\ Len(rest) \in Nat
  BY <1>4, LenProperties
<1>6. place \in DOMAIN rest
  BY <1>1, <1>4, <1>5
<1> DEFINE new == rest[place]
<1>7. new \in [Keys -> Values]
  BY <1>4, <1>6
<1>8. \A d \in DOMAIN rest : d < place' <=> d < place \/ d = place
  BY <1>1, <1>4, <1>5
<1>9. /\ \A i \in DOMAIN combos : \E d \in DOMAIN rest :
            d < place /\ ~MatchesAny(rest[d]) /\ combos[i] = rest[d]
      /\ \A d \in DOMAIN rest :
           d < place /\ ~MatchesAny(rest[d]) => \E i \in DOMAIN combos : combos[i] = rest[d]
      /\ Distinct => InOrder(Keys, combos)
  BY <1>2 DEF FilterInv
<1>10. ASSUME MatchesAny(new)
       PROVE  FilterInv' /\ combos' \in Seq([Keys -> Values])
  <2>1. combos' = combos
    BY <1>1, <1>10
  <2>2. \A i \in DOMAIN combos : \E d \in DOMAIN rest :
          d < place' /\ ~MatchesAny(rest[d]) /\ combos[i] = rest[d]
    BY <1>8, <1>9
  <2>3. \A d \in DOMAIN rest :
          d < place' /\ ~MatchesAny(rest[d]) => \E i \in DOMAIN combos : combos[i] = rest[d]
    BY <1>8, <1>9, <1>10
  <2>4. (\A c : MatchesAny(c)' <=> MatchesAny(c)) /\ (Distinct' <=> Distinct)
    BY <1>1, SameAsk
  <2>5. \A K, list : InOrder(K, list)' <=> InOrder(K, list)
    BY <1>1, SameAsk
  <2>6. Distinct' => InOrder(Keys, combos)'
    BY <1>3, <1>9, <2>1, <2>4, <2>5
  <2>7. FilterInv'
    BY <1>1, <2>1, <2>2, <2>3, <2>4, <2>6 DEF FilterInv
  <2>8. combos' \in Seq([Keys -> Values])
    BY <1>4, <2>1
  <2> QED  BY <2>7, <2>8
<1>11. ASSUME ~MatchesAny(new)
       PROVE  FilterInv' /\ combos' \in Seq([Keys -> Values])
  <2> DEFINE p == Len(combos)
  <2>1. p \in Nat /\ DOMAIN combos = 1..p
    BY <1>4, LenProperties
  <2>2. /\ combos' = Append(combos, new) /\ combos' \in Seq([Keys -> Values])
        /\ DOMAIN combos' = 1..(p + 1) /\ combos'[p + 1] = new
        /\ \A i \in 1..p : combos'[i] = combos[i]
    <3>1. combos' = Append(combos, new)
      BY <1>1, <1>11
    <3> HIDE DEF new
    <3>2. /\ Append(combos, new) \in Seq([Keys -> Values])
          /\ Len(Append(combos, new)) = Len(combos) + 1
          /\ \A i \in 1..Len(combos) : Append(combos, new)[i] = combos[i]
          /\ Append(combos, new)[Len(combos) + 1] = new
      BY <1>4, <1>7, AppendProperties
    <3>3. DOMAIN Append(combos, new) = 1..(p + 1)
      BY <3>2, LenProperties
    <3> QED  BY <3>1, <3>2, <3>3
  <2> HIDE DEF p
  <2>3. ASSUME NEW i \in DOMAIN combos'
        PROVE  \E d \in DOMAIN rest : d < place' /\ ~MatchesAny(rest[d]) /\ combos'[i] = rest[d]
    <3>1. CASE i \in 1..p
      BY <1>8, <1>9, <2>1, <2>2, <3>1
    <3>2. CASE i = p + 1
      BY <1>6, <1>8, <1>11, <2>2, <3>2
    <3>3. i \in 1..p \/ i = p + 1
      BY <2>1, <2>2
    <3> QED  BY <3>1, <3>2, <3>3
  <2>4. ASSUME NEW d \in DOMAIN rest, d < place', ~MatchesAny(rest[d])
        PROVE  \E i \in DOMAIN combos' : combos'[i] = rest[d]
    <3>1. p + 1 \in DOMAIN combos' /\ \A i \in DOMAIN combos : i \in DOMAIN combos' /\ combos'[i] = combos[i]
      BY <2>1, <2>2
    <3>2. CASE d < place
      BY <1>9, <2>4, <3>1, <3>2
    <3>3. CASE d = place
      BY <2>2, <3>1, <3>3
    <3> QED  BY <1>8, <2>4, <3>2, <3>3
  <2>5. Distinct => InOrder(Keys, combos')
    <3> SUFFICES ASSUME Distinct
                 PROVE  InOrder(Keys, combos')
      OBVIOUS
    <3>1. ASSUME NEW i \in DOMAIN combos
          PROVE  Before(Keys, combos[i], new)
      <4>1. PICK d \in DOMAIN rest : d < place /\ combos[i] = rest[d]
        BY <1>9
      <4>2. InOrder(Keys, rest)
        BY <1>2, <1>3 DEF RestInv
      <4> QED  BY <1>6, <4>1, <4>2 DEF InOrder
    <3>2. InOrder(Keys, combos)
      BY <1>9
    <3> HIDE DEF new
    <3> QED  BY <1>4, <1>7, <2>2, <3>1, <3>2, OrderGrows
  <2>6. (\A c : MatchesAny(c)' <=> MatchesAny(c)) /\ (Distinct' <=> Distinct)
    BY <1>1, SameAsk
  <2>7. Distinct' => InOrder(Keys, combos)'
    <3>1. \A K, list : InOrder(K, list)' <=> InOrder(K, list)
      BY <1>1, SameAsk
    <3> QED  BY <1>3, <2>5, <2>6, <3>1
  <2>8. FilterInv'
    <3>1. rest' = rest
      BY <1>1
    <3>2. \A i \in DOMAIN combos' : \E d \in DOMAIN rest' :
            d < place' /\ ~MatchesAny(rest[d])' /\ combos'[i] = rest'[d]
      BY <2>3, <2>6, <3>1
    <3>3. \A d \in DOMAIN rest' :
            d < place' /\ ~MatchesAny(rest[d])' => \E i \in DOMAIN combos' : combos'[i] = rest'[d]
      BY <2>4, <2>6, <3>1
    <3> QED  BY <2>7, <3>2, <3>3 DEF FilterInv
  <2> QED  BY <2>2, <2>8
<1>12. FilterInv' /\ combos' \in Seq([Keys -> Values])
  BY <1>10, <1>11
<1>13. MatrixTypeOK'
  <2>1. IsMatrix(ask)' /\ left' \subseteq Keys' /\ rest' \in Seq([Keys' \ left' -> Values])
    BY <1>1, <1>2, <1>3 DEF MatrixTypeOK
  <2>2. value' \in Nat \ {0} /\ place' \in Nat \ {0} /\ left' = {} /\ result' = <<>>
    BY <1>1, <1>2, <1>4
  <2>3. combos' \in Seq([Keys' -> Values])
    BY <1>3, <1>12
  <2> QED  BY <1>1, <2>1, <2>2, <2>3 DEF MatrixTypeOK
<1>14. ~Nothing'
  BY <1>1, <1>2, SameAsk
<1> QED  BY <1>1, <1>2, <1>3, <1>12, <1>13, <1>14 DEF ExpandInv, CombinationsExact

LEMMA MatchesExcluded ==
  ASSUME NEW c
  PROVE  MatchesAny(c) <=> Excluded(c)
<1>1. ASSUME NEW x
      PROVE  MatchesAll(c, x)
               <=> \A k \in DOMAIN x : <<k, x[k]>> \in {<<l, c[l]>> : l \in DOMAIN c}
  BY DEF MatchesAll
<1> QED  BY <1>1 DEF MatchesAny, Excluded

\* A list with another appended to it.
LEMMA Parted ==
  ASSUME NEW S, NEW s \in Seq(S), NEW t \in Seq(S)
  PROVE  /\ Len(s) \in 0..Len(s \o t)
         /\ SubSeq(s \o t, 1, Len(s)) = s
         /\ SubSeq(s \o t, Len(s) + 1, Len(s \o t)) = t
<1> DEFINE all == s \o t
<1>1. /\ all \in Seq(S) /\ Len(all) = Len(s) + Len(t)
      /\ \A i \in 1..Len(s) + Len(t) :
           all[i] = IF i <= Len(s) THEN s[i] ELSE t[i - Len(s)]
  BY ConcatProperties
<1>2. PICK p \in Nat, q \in Nat : p = Len(s) /\ q = Len(t)
  BY LenProperties
<1> HIDE DEF all
<1>3. Len(all) = p + q
  BY <1>1, <1>2
<1>4. /\ SubSeq(all, 1, p) \in Seq(S) /\ Len(SubSeq(all, 1, p)) = p
      /\ \A i \in 1..p : SubSeq(all, 1, p)[i] = all[i]
  <2>1. \A i \in 1..p : all[i] \in S
    <3>1. \A i \in 1..p : i \in 1..Len(all)
      BY <1>2, <1>3
    <3> QED  BY <1>1, <3>1
  <2>2. PICK a \in Int, b \in Int : a = 1 /\ b = p
    BY <1>2
  <2>3. /\ SubSeq(all, a, b) \in Seq(S)
        /\ Len(SubSeq(all, a, b)) = IF a <= b THEN b - a + 1 ELSE 0
        /\ \A i \in 1..b - a + 1 : SubSeq(all, a, b)[i] = all[a + i - 1]
    <3>1. \A i \in a..b : all[i] \in S
      BY <2>1, <2>2
    <3> QED  BY <3>1, SubSeqProperties
  <2> QED  BY <1>2, <2>2, <2>3
<1>5. SubSeq(all, 1, p) = s
  <2>1. \A i \in 1..p : all[i] = s[i]
    BY <1>1, <1>2
  <2>2. \A i \in 1..p : SubSeq(all, 1, p)[i] = s[i]
    BY <1>4, <2>1
  <2> QED  BY <1>2, <1>4, <2>2, SeqEqual
<1>6. /\ SubSeq(all, p + 1, p + q) \in Seq(S) /\ Len(SubSeq(all, p + 1, p + q)) = q
      /\ \A i \in 1..q : SubSeq(all, p + 1, p + q)[i] = all[p + i]
  <2>1. \A i \in p + 1..p + q : all[i] \in S
    <3>1. \A i \in p + 1..p + q : i \in 1..Len(all)
      BY <1>2, <1>3
    <3> QED  BY <1>1, <3>1
  <2>2. PICK a \in Int, b \in Int : a = p + 1 /\ b = p + q
    BY <1>2
  <2>3. /\ SubSeq(all, a, b) \in Seq(S)
        /\ Len(SubSeq(all, a, b)) = IF a <= b THEN b - a + 1 ELSE 0
        /\ \A i \in 1..b - a + 1 : SubSeq(all, a, b)[i] = all[a + i - 1]
    <3>1. \A i \in a..b : all[i] \in S
      BY <2>1, <2>2
    <3> QED  BY <3>1, SubSeqProperties
  <2>4. b - a + 1 = q /\ (a <= b \/ q = 0) /\ \A i \in 1..q : a + i - 1 = p + i
    BY <1>2, <2>2
  <2> QED  BY <1>2, <2>2, <2>3, <2>4
<1>7. SubSeq(all, p + 1, p + q) = t
  <2>1. \A i \in 1..q : all[p + i] = t[i]
    BY <1>1, <1>2
  <2>2. \A i \in 1..q : SubSeq(all, p + 1, p + q)[i] = t[i]
    BY <1>6, <2>1
  <2> QED  BY <1>2, <1>6, <2>2, SeqEqual
<1>8. p \in 0..(p + q)
  BY <1>2
<1> QED  BY <1>2, <1>3, <1>5, <1>7, <1>8 DEF all

\* What is left after the patterns of exclude.
LEMMA Filtered ==
  ASSUME MatrixTypeOK, left = {}, RestInv, FilterInv, place > Len(rest)
  PROVE  /\ ToSet(combos) = {c \in Product(Keys) : ~Excluded(c)}
         /\ Distinct => InOrder(Keys, combos)
<1>1. Done = Keys
  BY DEF Done
<1>2. \A d \in DOMAIN rest : d < place
  <2>1. rest \in Seq([Keys \ left -> Values]) /\ place \in Nat \ {0}
    BY DEF MatrixTypeOK
  <2>2. DOMAIN rest = 1..Len(rest) /\ Len(rest) \in Nat
    BY <2>1, LenProperties
  <2> QED  BY <2>1, <2>2
<1>3. /\ \A i \in DOMAIN combos : \E d \in DOMAIN rest : ~Excluded(rest[d]) /\ combos[i] = rest[d]
      /\ \A d \in DOMAIN rest : ~Excluded(rest[d]) => \E i \in DOMAIN combos : combos[i] = rest[d]
  BY <1>2, MatchesExcluded DEF FilterInv
<1>4. \A c : c \in Product(Keys) <=> \E d \in DOMAIN rest : rest[d] = c
  BY <1>1 DEF RestInv, ToSet
<1>5. \A c : c \in ToSet(combos) <=> \E i \in DOMAIN combos : combos[i] = c
  BY DEF ToSet
<1>6. ASSUME NEW c \in ToSet(combos)
      PROVE  c \in Product(Keys) /\ ~Excluded(c)
  BY <1>3, <1>4, <1>5
<1>7. ASSUME NEW c \in Product(Keys), ~Excluded(c)
      PROVE  c \in ToSet(combos)
  BY <1>3, <1>4, <1>5, <1>7
<1> QED  BY <1>6, <1>7 DEF FilterInv

LEMMA IncludeStep ==
  ASSUME MatrixOK, ExpandInv, Include
  PROVE  ExpandInv'
<1>1. /\ UNCHANGED <<ask, left, rest, value, place, result>> /\ stage = "filter"
      /\ place > Len(rest) /\ combos' = combos \o ask.include /\ stage' = "over"
  BY DEF Include
<1>2. /\ MatrixTypeOK /\ LastFirst /\ RestInv /\ FilterInv /\ left = {} /\ ~Nothing
  BY <1>1, ExpandFacts
<1>3. Keys' = Keys /\ LastFirst'
  BY <1>1, <1>2, SameRest
<1>4. MatrixTypeOK'
  <2>1. /\ IsMatrix(ask)' /\ left' \subseteq Keys' /\ rest' \in Seq([Keys' \ left' -> Values])
        /\ value' \in Nat \ {0} /\ place' \in Nat \ {0}
    BY <1>1, <1>2, <1>3 DEF MatrixTypeOK
  <2>2. left' = {} /\ result' = <<>>
    BY <1>1, <1>2 DEF MatrixTypeOK
  <2> QED  BY <1>1, <2>1, <2>2 DEF MatrixTypeOK
<1>5. /\ ToSet(combos) = {c \in Product(Keys) : ~Excluded(c)}
      /\ Distinct => InOrder(Keys, combos)
  BY <1>1, <1>2, Filtered
<1>6. PICK n \in 0..Len(combos') :
        /\ SubSeq(combos', 1, n) = combos
        /\ SubSeq(combos', n + 1, Len(combos')) = ask.include
  <2>1. combos \in Seq([Keys -> Values]) /\ ask.include \in Seq(Pattern)
    BY <1>1, <1>2, AskTypes DEF MatrixTypeOK
  <2>2. combos \in Seq([Keys -> Values] \cup Pattern) /\ ask.include \in Seq([Keys -> Values] \cup Pattern)
    BY <2>1
  <2> DEFINE other == ask.include
  <2>3. /\ Len(combos) \in 0..Len(combos \o other)
        /\ SubSeq(combos \o other, 1, Len(combos)) = combos
        /\ SubSeq(combos \o other, Len(combos) + 1, Len(combos \o other)) = other
    <3> HIDE DEF other
    <3> QED  BY <2>2, Parted DEF other
  <2>4. combos' = combos \o other
    BY <1>1
  <2> QED  BY <2>3, <2>4
<1>7. /\ ToSet(SubSeq(combos', 1, n)) = {c \in Product(Keys) : ~Excluded(c)}
      /\ Distinct => InOrder(Keys, SubSeq(combos', 1, n))
  BY <1>5, <1>6
<1>8. /\ (Nothing' <=> Nothing) /\ (Distinct' <=> Distinct)
      /\ \A K : Product(K)' = Product(K)
      /\ \A c : Excluded(c)' <=> Excluded(c)
      /\ \A K, list : InOrder(K, list)' <=> InOrder(K, list)
  BY <1>1, SameAsk
<1>9. CombinationsExact'
  <2>1. {c \in Product(Keys) : ~Excluded(c)}' = {c \in Product(Keys) : ~Excluded(c)}
    BY <1>3, <1>8
  <2>2. ToSet(SubSeq(combos, 1, n))' = {c \in Product(Keys) : ~Excluded(c)}'
    BY <1>7, <2>1 DEF ToSet
  <2>3. Distinct' => InOrder(Keys, SubSeq(combos, 1, n))'
    <3>1. InOrder(Keys, SubSeq(combos', 1, n)) <=> InOrder(Keys, SubSeq(combos, 1, n))'
      BY <1>1, <1>3 DEF InOrder, Before
    <3> QED  BY <1>7, <1>8, <3>1
  <2>4. SubSeq(combos, n + 1, Len(combos))' = (ask.include)'
    BY <1>1, <1>6
  <2> QED  BY <1>2, <1>6, <1>8, <2>2, <2>3, <2>4 DEF CombinationsExact
<1> QED  BY <1>1, <1>3, <1>4, <1>9 DEF ExpandInv

LEMMA ExpandInvInit ==
  ASSUME MatrixOK, MatrixInit
  PROVE  ExpandInv
<1> DEFINE none == [k \in {} |-> 0]
<1>1. /\ ask \in MatrixCases /\ stage = "check" /\ left = Keys /\ rest = <<none>>
      /\ value = 1 /\ place = 1 /\ result = <<>> /\ combos = <<>>
  BY DEF MatrixInit, MatrixStart
<1>2. Done = {} /\ IsMatrix(ask)
  BY <1>1 DEF Done, MatrixOK
<1>3. none \in [{} -> Values] /\ \A f \in [{} -> Values] : f = none
  OBVIOUS
<1> HIDE DEF none
<1>4. rest \in Seq([{} -> Values]) /\ DOMAIN rest = {1} /\ rest[1] = none
  BY <1>1, <1>3
<1>5. MatrixTypeOK
  BY <1>1, <1>2, <1>4 DEF MatrixTypeOK, Done
<1>6. RestInv
  <2>1. ToSet(rest) = {none}
    BY <1>4 DEF ToSet
  <2>2. Product({}) = {none}
    BY <1>3 DEF Product
  <2>3. InOrder({}, rest)
    BY <1>4 DEF InOrder
  <2> QED  BY <1>2, <2>1, <2>2, <2>3 DEF RestInv
<1>7. ResultInv
  <2>1. SUFFICES ASSUME left # {}
                 PROVE  ResultInv
    BY DEF ResultInv
  <2>2. LastFirst
    BY <1>2 DEF LastFirst
  <2>3. Chosen \in Seq(Values)
    BY <1>5, <2>1, <2>2, KeyFacts
  <2>4. DOMAIN Chosen = 1..Len(Chosen)
    BY <2>3, LenProperties
  <2>5. \A u \in DOMAIN Chosen, d \in DOMAIN rest : ~Passed(u, d)
    BY <1>1, <1>4, <2>4 DEF Passed
  <2>6. InOrder(Done \cup {Key}, result)
    BY <1>1 DEF InOrder
  <2> QED  BY <1>1, <2>5, <2>6 DEF ResultInv
<1>8. LastFirst
  BY <1>2 DEF LastFirst
<1> QED  BY <1>1, <1>5, <1>6, <1>7, <1>8 DEF ExpandInv, CombinationsExact

LEMMA ExpandInvStays ==
  ASSUME MatrixOK, ExpandInv, UNCHANGED matrix
  PROVE  ExpandInv'
<1>1. UNCHANGED <<ask, stage, left, rest, value, place, result, combos>>
  BY DEF matrix
<1>2. /\ Done' = Done /\ Keys' = Keys /\ Key' = Key /\ Chosen' = Chosen
      /\ (RestInv' <=> RestInv) /\ (LastFirst' <=> LastFirst) /\ \A u, d : At(u, d)' = At(u, d)
  BY <1>1, SameRest
<1>3. /\ (Nothing' <=> Nothing) /\ (Distinct' <=> Distinct)
      /\ \A K : Product(K)' = Product(K)
      /\ \A c : (MatchesAny(c)' <=> MatchesAny(c)) /\ (Excluded(c)' <=> Excluded(c))
      /\ \A K, list : InOrder(K, list)' <=> InOrder(K, list)
  BY <1>1, SameAsk
<1>4. MatrixTypeOK' <=> MatrixTypeOK
  BY <1>1, <1>2 DEF MatrixTypeOK
<1>5. ResultInv' <=> ResultInv
  <2>1. \A u, d : Passed(u, d)' <=> Passed(u, d)
    BY <1>1 DEF Passed
  <2> QED  BY <1>1, <1>2, <1>3, <2>1 DEF ResultInv
<1>6. FilterInv' <=> FilterInv
  BY <1>1, <1>2, <1>3 DEF FilterInv
<1>7. CombinationsExact' <=> CombinationsExact
  <2>1. {c \in Product(Keys) : ~Excluded(c)}' = {c \in Product(Keys) : ~Excluded(c)}
    BY <1>2, <1>3
  <2> QED  BY <1>1, <1>2, <1>3, <2>1 DEF CombinationsExact
<1> QED  BY <1>1, <1>2, <1>3, <1>4, <1>5, <1>6, <1>7 DEF ExpandInv

\* The invariant of the expansion: rest is the product of the keys that are done,
\* and result what the loops have made of it so far.
LEMMA ExpandInvHolds == MatrixSpec => []ExpandInv
<1>1. MatrixInit => ExpandInv
  BY MatrixOK, ExpandInvInit
<1>2. ExpandInv /\ [MatrixNext]_matrix => ExpandInv'
  <2> SUFFICES ASSUME ExpandInv, [MatrixNext]_matrix
               PROVE  ExpandInv'
    OBVIOUS
  <2>1. CASE Check
    BY MatrixOK, <2>1, CheckStep
  <2>2. CASE AppendCombo
    BY MatrixOK, <2>2, AppendStep
  <2>3. CASE NextValue
    BY MatrixOK, <2>3, NextValueStep
  <2>4. CASE KeyDone
    BY MatrixOK, <2>4, KeyDoneStep
  <2>5. CASE ProductDone
    BY MatrixOK, <2>5, ProductDoneStep
  <2>6. CASE Filter
    BY MatrixOK, <2>6, FilterStep
  <2>7. CASE Include
    BY MatrixOK, <2>7, IncludeStep
  <2>8. CASE UNCHANGED matrix
    BY MatrixOK, <2>8, ExpandInvStays
  <2> QED  BY <2>1, <2>2, <2>3, <2>4, <2>5, <2>6, <2>7, <2>8 DEF MatrixNext
<1> QED  BY <1>1, <1>2, PTL DEF MatrixSpec

----------------------------------------------------------------------------
(* The rules together *)

\* Each part behaves as it does alone.
LEMMA RulesApart == Spec => OrderSpec /\ TriggerSpec /\ MatrixSpec
<1>1. Init => OrderInit /\ TriggerInit /\ MatrixInit
  <2>1. SomeSteps \in Pipelines
    BY RulesOK DEF SomeSteps
  <2>2. SomeTrigger \in TriggerCases
    BY RulesOK DEF SomeTrigger
  <2>3. SomeMatrix \in MatrixCases
    BY RulesOK DEF SomeMatrix
  <2> QED  BY <2>1, <2>2, <2>3 DEF Init, OrderInit, TriggerInit, MatrixInit
<1>2. [Next]_<<order, selection, matrix, rule>>
        => [OrderNext]_order /\ [Judge]_selection /\ [MatrixNext]_matrix
  BY DEF Next, JudgeOrder, JudgeTriggers, JudgeMatrix
<1> QED  BY <1>1, <1>2, PTL DEF Spec, OrderSpec, TriggerSpec, MatrixSpec

\* For lists of steps of any length and matrices of any size: each call of visit
\* that is under way has its loop, and the combinations of a call of cartesian
\* have values for the keys of the calls below and for no others.
THEOREM RulesTyped == Spec => []TypeOK
<1>1. ExpandInv => MatrixTypeOK
  BY DEF ExpandInv
<1> QED  BY <1>1, RulesApart, OrderTyped, ExpandInvHolds, PTL DEF TypeOK

\* For all lists of steps: detectCycle reports a cycle exactly when steps wait
\* for each other, what it reports is a chain of them, and an accepted pipeline
\* whose steps pass runs them all exactly if each is listed after those it
\* depends on.
THEOREM OrderIsJudged == Spec => []OrderJudged
BY RulesApart, StepsJudged, PTL

\* For every file and every delivery: a pipeline that is started although the
\* event lacks its target branch, action, labels, files or fields would be
\* started if it had them, and the run of one of several selected pipelines
\* selects that one.
THEOREM TriggersDoFailClosed == Spec => []TriggersFailClosed
BY RulesApart, TriggersJudged, PTL

\* For every matrix: the combinations are those of the product that are not
\* excluded, in the order of the sorted keys, and then the included ones.
THEOREM CombinationsAreExact == Spec => []CombinationsExact
<1>1. ExpandInv => CombinationsExact
  BY DEF ExpandInv
<1> QED  BY <1>1, RulesApart, ExpandInvHolds, PTL
=============================================================================
