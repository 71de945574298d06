------------------------------ MODULE MCRules ------------------------------
(* Pipelines, files with deliveries, and matrices for TLC. *)
EXTENDS Rules

Unnamed == 0

\* Three steps, dependencies in the order of the names; 4 names no step.
ThreeSteps ==
  LET List(S) == SetToSortSeq(S, <)
      lists == {List(S) : S \in SUBSET (1..4)}
      step == [name : 0..3, deps : lists]
  IN {list \in [1..3 -> step] : \A i \in 1..3 : list[i].name \in 0..i}

----------------------------------------------------------------------------
Ref(tag, name) == [tag |-> tag, name |-> name]

Event(kind) == [kind |-> kind, ref |-> Ref(FALSE, "dev"), base |-> "", action |-> "",
                labels |-> {}, files |-> {}, fields |-> {}]

Never == [push |-> {}, pull_request |-> {}, release |-> {}, issues |-> {},
          schedule |-> FALSE, webhook |-> {}]

File(dir, ext) == [dir |-> dir, ext |-> ext]
Files == {File(<<"src">>, "go"), File(<<"src", "doc">>, "md"), File(<<>>, "md")}
PathPatterns == {[kind |-> "tree", dir |-> <<"src">>], [kind |-> "in", dir |-> <<"src">>],
                 [kind |-> "ext", ext |-> "md"]}
Globs == {{"main"}, {"main", "dev"}}

Cases(file, deliveries) == {[file |-> file, delivery |-> e] : e \in deliveries}

\* A pipeline with the triggers asked about beside one that has none and one
\* that takes every pull request and tag.
FileOf(on) ==
  [p |-> {on}, q |-> {},
   r |-> {[Never EXCEPT !.pull_request = {[branches |-> {}, labels |-> {}, paths |-> {}]},
                        !.push = {[branches |-> {}, tags |-> {{"v1"}}, paths |-> {}]}]}]

PushCases ==
  UNION {Cases(FileOf([Never EXCEPT !.push = {f}]),
               {[Event("push") EXCEPT !.ref = r, !.files = c] :
                  r \in {Ref(FALSE, "main"), Ref(FALSE, "dev"), Ref(TRUE, "v1")},
                  c \in SUBSET Files}) :
           f \in [branches : SUBSET Globs, tags : SUBSET {{"v1"}}, paths : SUBSET PathPatterns]}

PullRequestCases ==
  UNION {Cases(FileOf([Never EXCEPT !.pull_request = {f}]),
               {[Event("pull_request") EXCEPT !.ref = Ref(FALSE, h), !.base = b, !.labels = l, !.action = a] :
                  h \in {"main", "dev"}, b \in {"", "main", "dev"},
                  l \in SUBSET {"x", "y"}, a \in {"", "opened", "edited"}}) :
           f \in [branches : {{}, {{"main"}}}, labels : SUBSET {"x", "y"}, paths : SUBSET PathPatterns]}

Payloads == {v \in SUBSET ({"k", "l"} \X {1, 2}) : \A x, y \in v : x[1] = y[1] => x = y}

OtherCases ==
  UNION {Cases(FileOf([Never EXCEPT ![s] = {types}]),
               {[Event(s) EXCEPT !.action = a] : a \in {"", "published", "created"}}) :
           s \in {"release", "issues"}, types \in SUBSET {"published", "created"}}
  \cup UNION {Cases(FileOf([Never EXCEPT !.webhook = {m}]),
                    {[Event("webhook") EXCEPT !.fields = v] : v \in Payloads}
                    \cup {Event("manual"), Event("schedule")}) :
                m \in SUBSET ({"k", "l"} \X {1})}
  \cup Cases(FileOf([Never EXCEPT !.schedule = TRUE]), {Event("schedule"), Event("pipeline"), Event("")})

EveryTrigger == PushCases \cup PullRequestCases \cup OtherCases

----------------------------------------------------------------------------
Patterns == UNION {[S -> 1..2] : S \in SUBSET (1..2)} \cup {[k \in {3} |-> 1]}

\* Up to two keys, values in any order, one pair of them twice.
SmallMatrices ==
  [dims : UNION {[S -> {<<>>, <<1>>, <<1, 2>>, <<2, 1>>, <<2, 2>>}] : S \in SUBSET (1..2)},
   exclude : {{x, y} : x, y \in Patterns} \cup {{}},
   include : {<<>>} \cup {<<x>> : x \in Patterns}]

\* Three keys, of which two have two values.
LargerMatrices ==
  [dims : {[k \in 1..3 |-> IF k = s THEN <<1>> ELSE <<2, 1>>] : s \in 1..3},
   exclude : {{}} \cup {{x} : x \in Patterns},
   include : {<<>>}]

EveryMatrix == SmallMatrices \cup LargerMatrices
=============================================================================
