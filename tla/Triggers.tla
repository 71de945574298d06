------------------------------ MODULE Triggers ------------------------------
(***************************************************************************)
(* Which pipelines of a repository an event starts: ShouldRunForEvent      *)
(* (internal/config/pipeline.go) under loadSelectedPipeline                *)
(* (internal/activities/activities.go).  A glob is the set of names it     *)
(* matches; an optional section of the file is a set of at most one value; *)
(* a field that the payload lacks is "".                                   *)
(*                                                                         *)
(* A behaviour is one delivery for one file: nothing is kept between them. *)
(***************************************************************************)
EXTENDS Naturals, Sequences

\* What a delivery tells; a field of its body is a name with a value.  An input
\* of no kind names no event.
Delivery ==
  [kind : {"push", "tag", "pull_request", "release", "issues", "schedule", "webhook",
           "manual", "pipeline", ""},
   ref : [tag : BOOLEAN, name : STRING], base : STRING, action : STRING,
   labels : SUBSET STRING, files : SUBSET [dir : Seq(STRING), ext : STRING],
   fields : SUBSET (STRING \X Nat)]

\* Pipelines have names, and so do the types of releases and issues in a file.
NamesGiven(file) ==
  /\ "" \notin DOMAIN file
  /\ \A p \in DOMAIN file : \A on \in file[p] :
       \A types \in on.release \cup on.issues : "" \notin types

CONSTANT TriggerCases  \* [file, delivery]

ASSUME TriggersOK ==
  \A c \in TriggerCases : c.delivery \in Delivery /\ NamesGiven(c.file)

VARIABLES
  asked,   \* the case
  verdict  \* the event it is parsed to, with what that starts; at most one

selection == <<asked, verdict>>

\* parseEvent of a delivery; the schedule, the custom webhook and the manual
\* trigger make their events themselves.  A pushed tag is an event of its own,
\* and the parser of pull requests finds no files.
ParseEvent(delivery) ==
  CASE delivery.kind = "push" /\ delivery.ref.tag -> {[delivery EXCEPT !.kind = "tag"]}
    [] delivery.kind = "pull_request" ->
         IF delivery.action \in {"opened", "synchronize", "labeled", "closed"}
         THEN {[delivery EXCEPT !.files = {}]} ELSE {}
    [] OTHER -> {delivery}

\* A changed file: its directory and its extension.  A path pattern is a kind
\* with a directory or an extension.
Under(dir, d) == Len(dir) <= Len(d) /\ SubSeq(d, 1, Len(dir)) = dir

MatchPath(pattern, f) ==
  \/ pattern.kind = "file" /\ f = pattern.file
  \/ pattern.kind = "tree" /\ Under(pattern.dir, f.dir)    \* "src/" and "src/**"
  \/ pattern.kind = "in" /\ f.dir = pattern.dir            \* "src/*"
  \/ pattern.kind = "ext" /\ f.ext = pattern.ext           \* "*.go"

MatchesChangedPaths(paths, files) ==
  paths # {} => \E f \in files, p \in paths : MatchPath(p, f)

MatchBranch(branches, name) == branches = {} \/ \E b \in branches : name \in b

MatchTag(tags, name) == \E t \in tags : name \in t

\* A filter on tags alone does not admit branches.
PushMatches(f, ref) ==
  IF ref.tag THEN MatchTag(f.tags, ref.name)
  ELSE (f.branches # {} \/ f.tags = {}) /\ MatchBranch(f.branches, ref.name)

TriggerMatches(on, e) ==
  \/ e.kind = "push" /\ \E f \in on.push : PushMatches(f, e.ref)
  \/ e.kind = "tag" /\ \E f \in on.push : MatchTag(f.tags, e.ref.name)
  \/ e.kind = "pull_request" /\ \E f \in on.pull_request : MatchBranch(f.branches, e.ref.name)
  \/ e.kind = "release" /\ on.release # {}
  \/ e.kind = "issues" /\ on.issues # {}
  \/ e.kind = "schedule" /\ on.schedule
  \/ e.kind \in {"webhook", "manual"} /\ on.webhook # {}

ShouldRunWithPaths(on, e) ==
  /\ TriggerMatches(on, e)
  /\ e.kind = "push" => \A f \in on.push : MatchesChangedPaths(f.paths, e.files)
  /\ e.kind = "pull_request" => \A f \in on.pull_request : MatchesChangedPaths(f.paths, e.files)

MatchEventType(types, action) == types # {} => action \in types

\* Mutant: without the target branch the branch filter sees the head.
TargetOrHead(on, e) ==
  IF e.kind = "pull_request" /\ e.base # "" THEN {[e EXCEPT !.ref.name = e.base]} ELSE {e}

\* The branch filters of a pull request are about its target, which the payload
\* has to tell.
Target(on, e) ==
  IF e.kind # "pull_request" THEN {e}
  ELSE IF e.base # "" THEN {[e EXCEPT !.ref.name = e.base]}
  ELSE IF \E f \in on.pull_request : f.branches # {} THEN {} ELSE {e}

ShouldRunForEvent(triggers, e) ==
  \A on \in triggers :
    /\ \E t \in Target(on, e) : ShouldRunWithPaths(on, t)
    /\ e.kind = "pull_request" => \A f \in on.pull_request : f.labels \subseteq e.labels
    /\ e.kind = "release" => \A types \in on.release : MatchEventType(types, e.action)
    /\ e.kind = "issues" => \A types \in on.issues : MatchEventType(types, e.action)
    /\ e.kind \in {"webhook", "manual"} => \A match \in on.webhook : match \subseteq e.fields

\* loadSelectedPipeline: file is the triggers of each pipeline; a name that it
\* does not have is an error, and starts none.
Selected(file, name, e) ==
  {p \in DOMAIN file :
     /\ name \in {"", p}
     /\ \/ e.kind = ""
        \/ name # "" /\ e.kind \in {"manual", "pipeline"}
        \/ ShouldRunForEvent(file[p], e)}

TriggerInit == asked \in TriggerCases /\ verdict = {}

Judge ==
  /\ verdict = {}
  /\ \E e \in ParseEvent(asked.delivery) :
       verdict' = {[event |-> e, selected |-> Selected(asked.file, "", e)]}
  /\ UNCHANGED asked

TriggerSpec == TriggerInit /\ [][Judge]_selection

----------------------------------------------------------------------------
\* The event with some of its metadata missing.
Poorer(e) ==
  [kind : {e.kind}, ref : {e.ref}, base : {"", e.base}, action : {"", e.action},
   labels : SUBSET e.labels, files : SUBSET e.files, fields : SUBSET e.fields]

\* Missing event metadata fails closed: an event starts nothing that it would
\* not start if it told more.
FailsClosed(file, e, selected) ==
  \A d \in Poorer(e) : Selected(file, "", d) \subseteq selected

\* The run of one of several selected pipelines, which clones and selects again
\* under its name, selects that pipeline and no other.
DispatchSelectsItself(file, e, selected) ==
  \A p \in selected : Selected(file, p, e) = {p}

\* What a pipeline was started for it is started for when the event tells more,
\* and the runs of several selected pipelines select themselves.
TriggersFailClosed ==
  \A v \in verdict :
    /\ FailsClosed(asked.file, v.event, v.selected)
    /\ DispatchSelectsItself(asked.file, v.event, v.selected)
=============================================================================
