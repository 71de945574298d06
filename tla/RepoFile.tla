------------------------------ MODULE RepoFile ------------------------------
(***************************************************************************)
(* The registrations of the webhook server (internal/store/repo.go) and    *)
(* the file they are saved to, in place, after every change; the start of  *)
(* the server (cmd/webhook/main.go), which turns to a file under /tmp when *)
(* it cannot parse its own, and which takes a file that it cannot read for *)
(* none.  A registration is one value.                                     *)
(***************************************************************************)
EXTENDS ServerClock

CONSTANTS
  Repos,
  Regs   \* registrations of a repository

Paths == {"data", "tmp"}   \* REPO_STORE_PATH and /tmp/repos.json

NoRepos == [r \in Repos |-> Absent]

VARIABLES
  server,    \* "up", "down", or "broken": it runs without a store
  path,      \* s.path
  memory,    \* s.data
  unread,    \* history: repositories whose registration the map never had
  disk,      \* the files: missing, torn or whole
  change,    \* the operation that holds s.mu
  possible   \* history: what the data file may rightly hold of a repository

repoVars == <<server, path, memory, unread, disk, change, possible>>

File(is, repos, without) == [is |-> is, repos |-> repos, unread |-> without]

NoFile == File("missing", NoRepos, {})

Idle == [at |-> "idle", repo |-> Absent]

Start(p, repos, without) ==
  server' = "up" /\ path' = p /\ memory' = repos /\ unread' = without

RepoInit ==
  /\ server = "up" /\ path = "data" /\ memory = NoRepos /\ unread = {}
  /\ disk = [p \in Paths |-> NoFile]
  /\ change = Idle
  /\ possible = [r \in Repos |-> {Absent}]

----------------------------------------------------------------------------
\* Register, or Delete when v is Absent: the map first, then the file.
Change(r, v) ==
  /\ server = "up" /\ change = Idle
  /\ memory' = [memory EXCEPT ![r] = v] /\ unread' = unread \ {r}
  /\ change' = [at |-> "changed", repo |-> r]
  /\ possible' = IF path = "data" THEN [possible EXCEPT ![r] = @ \cup {v}] ELSE possible
  /\ UNCHANGED <<server, path, disk>>

\* os.WriteFile empties the file ...
Truncate ==
  /\ change.at = "changed"
  /\ disk' = [disk EXCEPT ![path] = File("torn", NoRepos, {})]
  /\ change' = [change EXCEPT !.at = "truncated"]
  /\ UNCHANGED <<server, path, memory, unread, possible>>

\* ... and writes it; the answer to the operator follows.
Write ==
  /\ change.at = "truncated"
  /\ disk' = [disk EXCEPT ![path] = File("whole", memory, unread)]
  /\ possible' = IF path = "data" THEN [possible EXCEPT ![change.repo] = {memory[change.repo]}]
                 ELSE possible
  /\ change' = Idle
  /\ UNCHANGED <<server, path, memory, unread>>

\* The file cannot be opened or written: the operator gets an error, the map
\* keeps the change.
SaveFails ==
  /\ change # Idle /\ change' = Idle
  /\ UNCHANGED <<server, path, memory, unread, disk, possible>>

\* The process ends, with a save under way or not; the container's own files
\* go with it.  A volume, when REPO_STORE_PATH is on one, stays.
Stop ==
  /\ server # "down" /\ server' = "down" /\ change' = Idle
  /\ \E lost \in SUBSET Paths :
       /\ disk' = [p \in Paths |-> IF p \in lost THEN NoFile ELSE disk[p]]
       /\ possible' = IF "data" \in lost THEN [r \in Repos |-> {Absent}] ELSE possible
  /\ UNCHANGED <<path, memory, unread>>

----------------------------------------------------------------------------
(* NewRepoStore, and main's second attempt *)

\* Mutant: a file that cannot be parsed counts as none.
ParsedOrEmpty(p) == TRUE

Parsed(p) == disk[p].is # "torn"

\* os.ReadFile: any error, not only that there is no file, means no
\* registrations.
Opens(p) ==
  \/ Parsed(p) /\ Start(p, disk[p].repos, disk[p].unread)
  \/ disk[p].is # "missing" /\ Start(p, NoRepos, Repos)

\* A file of its own that cannot be parsed, or a directory that cannot be made,
\* sends the server to /tmp.
Restart ==
  /\ server = "down" /\ UNCHANGED <<disk, change, possible>>
  /\ \/ Opens("data")
     \/ Opens("tmp")
     \/ ~Parsed("tmp") /\ server' = "broken" /\ UNCHANGED <<path, memory, unread>>

RepoNext ==
  \/ \E r \in Repos, v \in Regs \cup {Absent} : Change(r, v)
  \/ Truncate \/ Write \/ SaveFails \/ Stop \/ Restart

----------------------------------------------------------------------------
RepoTypeOK ==
  /\ server \in {"up", "down", "broken"} /\ path \in Paths
  /\ memory \in [Repos -> Regs \cup {Absent}]
  /\ unread \subseteq Repos
  /\ \A p \in Paths :
       disk[p].repos \in [Repos -> Regs \cup {Absent}] /\ disk[p].unread \subseteq Repos
  /\ possible \in [Repos -> SUBSET (Regs \cup {Absent})]

\* A server that works on its own file has, of every repository, the last
\* registration it answered for, or one that came after it: a crash, a failed
\* save or a restart in between takes none of them back.  Only what was in a
\* file that could not be read is lost, until it is registered again.
AcknowledgedSurvives ==
  server = "up" /\ path = "data" => \A r \in Repos \ unread : memory[r] \in possible[r]

----------------------------------------------------------------------------
(* Statements of the documents and comments that the code does not meet; *)
(* the README says how to see it.                                        *)

\* NewRepoStore "creates or loads a repo store from disk".
OwnFileLoaded ==
  server = "up" /\ path = "data" => \A r \in Repos : memory[r] \in possible[r]

\* The same of a server on any file ("RepoStore persists repo registrations").
AcknowledgedPersists ==
  server = "up" => \A r \in Repos \ unread : memory[r] \in possible[r]

\* A running server has a store.
HasStore == server # "broken"
=============================================================================
