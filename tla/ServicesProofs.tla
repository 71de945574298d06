--------------------------- MODULE ServicesProofs ---------------------------
(***************************************************************************)
(* Proofs about the parts of Services, for any numbers of clients, keys,   *)
(* browsers, repositories and workflow IDs, and any rates and times.       *)
(***************************************************************************)
EXTENDS Services, FiniteSetTheorems, TLAPS

----------------------------------------------------------------------------
(* The rate limiter *)

\* The calls let through with the tokens that are gone came an interval, or
\* more, after all the calls before them.
Spent(k) == Rate - buckets[k].tokens

BatchApart(k) ==
  LET n == Len(admitted[k]) IN
  \A i \in 1..(n - Spent(k)), j \in (n - Spent(k) + 1)..n :
    admitted[k][i] + Interval <= admitted[k][j]

RateKept(k) ==
  \A i \in DOMAIN admitted[k] :
    i + Rate \in DOMAIN admitted[k] => admitted[k][i] + Interval <= admitted[k][i + Rate]

KeyInv(k) ==
  IF buckets[k] = Absent THEN admitted[k] = <<>>
  ELSE /\ Spent(k) \in 1..Len(admitted[k])
       /\ \A i \in DOMAIN admitted[k] : admitted[k][i] <= buckets[k].last
       /\ BatchApart(k) /\ RateKept(k)

LimiterInv == LimiterTypeOK /\ now \in Nat /\ \A k \in Keys : KeyInv(k)

\* A whole interval without a call fills the bucket; less than one adds nothing.
LEMMA RefillAllOrNothing ==
  ASSUME LimiterOK, NEW k \in Keys, buckets[k] \in Bucket, now \in Nat, buckets[k].last <= now
  PROVE  Refilled(k) = IF buckets[k].last + Interval <= now THEN Rate ELSE buckets[k].tokens
<1> DEFINE d == now - buckets[k].last
           q == d \div Interval
           t == buckets[k].tokens
<1>1. d \in Nat /\ Interval \in Nat \ {0} /\ Rate \in Nat \ {0} /\ t \in 0..Rate
  BY DEF LimiterOK, Bucket
<1>2. buckets[k].last + Interval <= now <=> Interval <= d
  BY <1>1 DEF Bucket
<1> HIDE DEF d
<1>3. q \in Nat /\ (d < Interval => q = 0) /\ (Interval <= d => q >= 1)
  BY <1>1
<1> HIDE DEF q, t
<1>4. Refilled(k) = IF t + q * Rate > Rate THEN Rate ELSE t + q * Rate
  BY DEF Refilled, q, d, t
<1>5. CASE Interval <= d
  <2>1. q * Rate >= Rate
    BY <1>1, <1>3, <1>5
  <2>2. t + q * Rate >= Rate
    BY <1>1, <1>3, <2>1
  <2> QED  BY <1>1, <1>2, <1>3, <1>4, <1>5, <2>2
<1>6. CASE d < Interval
  <2>1. q * Rate = 0
    BY <1>1, <1>3, <1>6
  <2> QED  BY <1>1, <1>2, <1>4, <1>6, <2>1 DEF t
<1> QED  BY <1>1, <1>5, <1>6

\* A call of one key does not touch the others.
LEMMA OtherKeys ==
  ASSUME NEW j \in Keys, KeyInv(j), buckets'[j] = buckets[j], admitted'[j] = admitted[j]
  PROVE  KeyInv(j)'
BY DEF KeyInv, Spent, BatchApart, RateKept

LEMMA FirstCallKeeps ==
  ASSUME LimiterOK, LimiterInv, NEW k \in Keys, FirstCall(k), UNCHANGED now
  PROVE  KeyInv(k)'
<1>1. /\ admitted[k] = <<>> /\ buckets'[k] = [tokens |-> Rate - 1, last |-> now]
      /\ admitted'[k] = Append(<<>>, now) /\ now \in Nat
      /\ Rate \in Nat \ {0} /\ Interval \in Nat \ {0}
  BY DEF LimiterInv, KeyInv, LimiterTypeOK, FirstCall, Keep, LetThrough, LimiterOK
<1>2. /\ Len(admitted'[k]) = 1 /\ admitted'[k][1] = now /\ DOMAIN admitted'[k] = 1..1
      /\ buckets'[k].tokens = Rate - 1 /\ buckets'[k].last = now /\ buckets'[k] \in Bucket
  BY <1>1 DEF Bucket
<1>3. buckets'[k] # Absent
  BY <1>2 DEF LimiterOK
<1>4. Spent(k)' = 1
  BY <1>1, <1>2 DEF Spent
<1>5. BatchApart(k)' /\ RateKept(k)'
  BY <1>1, <1>2, <1>4 DEF BatchApart, RateKept
<1> QED  BY <1>1, <1>2, <1>3, <1>4, <1>5 DEF KeyInv

\* With a full bucket a call begins a batch; otherwise it joins the last one.
LEMMA AdmitKeeps ==
  ASSUME LimiterOK, LimiterInv, NEW k \in Keys, Admit(k), UNCHANGED now
  PROVE  KeyInv(k)'
<1> DEFINE a == admitted[k]
           n == Len(a)
           b == buckets[k]
<1>1. /\ b \in Bucket /\ b # Absent /\ b.last <= now /\ now \in Nat /\ a \in Seq(0..now)
      /\ Rate \in Nat \ {0} /\ Interval \in Nat \ {0} /\ KeyInv(k)
      /\ Refilled(k) = IF b.last + Interval <= now THEN Rate ELSE b.tokens
  BY RefillAllOrNothing DEF LimiterInv, LimiterTypeOK, Admit, LimiterOK
<1>2. /\ admitted'[k] = Append(a, now) /\ Refilled(k) > 0
      /\ buckets'[k] = [tokens |-> Refilled(k) - 1, last |-> now]
  BY <1>1 DEF Admit, Keep, LetThrough, LimiterInv, LimiterTypeOK
<1>3. n \in Nat /\ b.tokens \in 0..Rate /\ b.last \in Nat
  BY <1>1 DEF Bucket
<1>4. /\ Len(admitted'[k]) = n + 1 /\ admitted'[k][n + 1] = now
      /\ DOMAIN admitted'[k] = 1..(n + 1) /\ DOMAIN a = 1..n
      /\ \A i \in 1..n : admitted'[k][i] = a[i] /\ a[i] \in Nat
  BY <1>1, <1>2
<1>5. /\ Rate - b.tokens \in 1..n /\ \A i \in 1..n : a[i] <= b.last
      /\ \A i \in 1..(n - (Rate - b.tokens)), j \in (n - (Rate - b.tokens) + 1)..n :
           a[i] + Interval <= a[j]
      /\ \A i \in 1..n : i + Rate \in 1..n => a[i] + Interval <= a[i + Rate]
  BY <1>1, <1>4 DEF KeyInv, Spent, BatchApart, RateKept
<1>6. buckets'[k] \in Bucket /\ buckets'[k] # Absent /\ buckets'[k].last = now
      /\ Spent(k)' = Rate - (Refilled(k) - 1)
  BY <1>1, <1>2, <1>3 DEF Bucket, LimiterOK, Spent
<1> HIDE DEF a, n, b
<1>7. \A i \in 1..n : a[i] <= now
  BY <1>1, <1>3, <1>4, <1>5
<1>8. \A i \in 1..(n + 1) : i \in 1..n \/ i = n + 1
  BY <1>3
<1>9. CASE b.last + Interval <= now
  <2>1. Spent(k)' = 1
    BY <1>1, <1>6, <1>9
  <2>2. \A i \in 1..n : a[i] + Interval <= now
    BY <1>1, <1>3, <1>4, <1>5, <1>9
  <2>3. BatchApart(k)'
    BY <1>3, <1>4, <2>1, <2>2 DEF BatchApart
  <2>4. RateKept(k)'
    <3> SUFFICES ASSUME NEW i \in 1..(n + 1), i + Rate \in 1..(n + 1)
                 PROVE  admitted'[k][i] + Interval <= admitted'[k][i + Rate]
      BY <1>4 DEF RateKept
    <3>1. i \in 1..n
      BY <1>1, <1>3
    <3>2. CASE i + Rate = n + 1
      BY <1>4, <2>2, <3>1, <3>2
    <3>3. CASE i + Rate \in 1..n
      BY <1>4, <1>5, <3>1, <3>3
    <3> QED  BY <1>8, <3>2, <3>3
  <2>5. Spent(k)' \in 1..(n + 1)
    BY <1>3, <2>1
  <2> QED  BY <1>1, <1>4, <1>6, <1>7, <1>8, <2>3, <2>4, <2>5 DEF KeyInv
<1>10. CASE ~(b.last + Interval <= now)
  <2> DEFINE m == Rate - b.tokens
  <2>1. Spent(k)' = m + 1 /\ m \in 1..n /\ m < Rate
    BY <1>1, <1>2, <1>3, <1>5, <1>6, <1>10
  <2>2. \A i \in 1..(n - m) : a[i] + Interval <= now
    <3> SUFFICES ASSUME NEW i \in 1..(n - m)
                 PROVE  a[i] + Interval <= now
      OBVIOUS
    <3>1. n \in 1..n /\ n \in (n - m + 1)..n /\ i \in 1..n
      BY <1>3, <2>1
    <3>2. a[i] + Interval <= a[n]
      BY <1>5, <3>1
    <3> QED  BY <1>1, <1>4, <1>7, <3>1, <3>2
  <2>3. /\ \A i \in 1..(n - m), j \in (n - m + 1)..n : a[i] + Interval <= a[j]
        /\ 1..(n - m) \subseteq 1..n /\ (n - m + 1)..n \subseteq 1..n
    BY <1>3, <1>5, <2>1
  <2>4. \A i \in 1..n : i + Rate = n + 1 => i \in 1..(n - m)
    BY <1>1, <1>3, <2>1
  <2> HIDE DEF m
  <2>5. (n + 1) - (m + 1) = n - m /\ \A j \in (n - m + 1)..(n + 1) : j \in (n - m + 1)..n \/ j = n + 1
    BY <1>3, <2>1
  <2>6. BatchApart(k)'
    <3> SUFFICES ASSUME NEW i \in 1..(n - m), NEW j \in (n - m + 1)..(n + 1)
                 PROVE  admitted'[k][i] + Interval <= admitted'[k][j]
      BY <1>4, <2>1, <2>5 DEF BatchApart
    <3>1. CASE j = n + 1
      BY <1>4, <2>2, <2>3, <3>1
    <3>2. CASE j \in (n - m + 1)..n
      BY <1>4, <2>3, <3>2
    <3> QED  BY <2>5, <3>1, <3>2
  <2>7. RateKept(k)'
    <3> SUFFICES ASSUME NEW i \in 1..(n + 1), i + Rate \in 1..(n + 1)
                 PROVE  admitted'[k][i] + Interval <= admitted'[k][i + Rate]
      BY <1>4 DEF RateKept
    <3>1. i \in 1..n
      BY <1>1, <1>3
    <3>2. CASE i + Rate = n + 1
      BY <1>4, <2>2, <2>4, <3>1, <3>2
    <3>3. CASE i + Rate \in 1..n
      BY <1>4, <1>5, <3>1, <3>3
    <3> QED  BY <1>8, <3>2, <3>3
  <2>8. Spent(k)' \in 1..(n + 1)
    BY <1>3, <2>1
  <2> QED  BY <1>1, <1>4, <1>6, <1>7, <1>8, <2>6, <2>7, <2>8 DEF KeyInv
<1> QED  BY <1>9, <1>10

\* A refused call finds no token and moves only the time of the last call.
LEMMA RefuseKeeps ==
  ASSUME LimiterOK, LimiterInv, NEW k \in Keys, Refuse(k), UNCHANGED now
  PROVE  KeyInv(k)'
<1>1. /\ buckets[k] \in Bucket /\ buckets[k] # Absent /\ buckets[k].last <= now /\ now \in Nat
      /\ Rate \in Nat \ {0} /\ admitted[k] \in Seq(0..now) /\ KeyInv(k) /\ UNCHANGED admitted
      /\ Refilled(k) = IF buckets[k].last + Interval <= now THEN Rate ELSE buckets[k].tokens
      /\ Refilled(k) = 0 /\ buckets'[k] = [tokens |-> 0, last |-> now]
  BY RefillAllOrNothing DEF LimiterInv, LimiterTypeOK, Refuse, Keep, LimiterOK
<1>2. buckets[k].tokens = 0
  BY <1>1
<1>3. /\ buckets'[k].tokens = buckets[k].tokens /\ buckets'[k].last = now
      /\ buckets'[k] \in Bucket /\ buckets'[k] # Absent
  BY <1>1, <1>2 DEF Bucket, LimiterOK
<1>4. \A i \in DOMAIN admitted[k] : admitted[k][i] <= now
  BY <1>1
<1> QED  BY <1>1, <1>3, <1>4 DEF KeyInv, Spent, BatchApart, RateKept

LEMMA LimiterTypes ==
  ASSUME LimiterOK, LimiterInv, NEW k \in Keys, UNCHANGED now,
         FirstCall(k) \/ Admit(k) \/ Refuse(k)
  PROVE  LimiterTypeOK'
<1> USE DEF LimiterInv, LimiterTypeOK
<1>1. /\ now \in Nat /\ Rate \in Nat \ {0} /\ Absent \notin Bucket
      /\ \A i \in Keys : buckets[i] # Absent => buckets[i] \in Bucket
  BY DEF LimiterOK
<1>2. \E t \in 0..Rate : Keep(k, t)
  <2>1. FirstCall(k) => Keep(k, Rate - 1) /\ Rate - 1 \in 0..Rate
    BY <1>1 DEF FirstCall
  <2>2. Refuse(k) => Keep(k, 0) /\ 0 \in 0..Rate
    BY <1>1 DEF Refuse
  <2>3. Admit(k) => Keep(k, Refilled(k) - 1) /\ Refilled(k) - 1 \in 0..Rate
    <3>1. Admit(k) => Refilled(k) \in 1..Rate
      BY <1>1, RefillAllOrNothing DEF Admit, Bucket
    <3> QED  BY <1>1, <3>1 DEF Admit
  <2> QED  BY <2>1, <2>2, <2>3
<1>3. PICK t \in 0..Rate : buckets' = [buckets EXCEPT ![k] = [tokens |-> t, last |-> now]]
  BY <1>2 DEF Keep
<1>4. [tokens |-> t, last |-> now] \in Bucket /\ [tokens |-> t, last |-> now].last = now
  BY <1>1, <1>3 DEF Bucket
<1>5. buckets' \in [Keys -> Bucket \cup {Absent}]
  BY <1>3, <1>4
<1>6. \A i \in Keys : buckets'[i] # Absent => buckets'[i].last <= now
  BY <1>1, <1>3, <1>4
<1>7. admitted' \in [Keys -> Seq(0..now)]
  <2>1. admitted' = admitted \/ admitted' = [admitted EXCEPT ![k] = Append(@, now)]
    BY DEF FirstCall, Admit, Refuse, LetThrough
  <2>2. now \in 0..now /\ admitted[k] \in Seq(0..now)
    BY <1>1
  <2>3. Append(admitted[k], now) \in Seq(0..now)
    BY <2>2
  <2> QED  BY <2>1, <2>3
<1> QED  BY <1>5, <1>6, <1>7

\* The clock goes on: what was let through stays let through.
LEMMA LimiterWaits ==
  ASSUME LimiterInv, UNCHANGED limiterVars, now' = now + 1
  PROVE  LimiterInv'
<1>1. now \in Nat /\ now' = now + 1 /\ 0..now \subseteq 0..now'
  BY DEF LimiterInv
<1>2. admitted' \in [Keys -> Seq(0..now')]
  <2> SUFFICES ASSUME NEW k \in Keys
               PROVE  admitted[k] \in Seq(0..now')
    BY DEF LimiterInv, LimiterTypeOK, limiterVars
  <2>1. admitted[k] \in Seq(0..now)
    BY DEF LimiterInv, LimiterTypeOK
  <2> QED  BY <1>1, <2>1
<1>3. \A k \in Keys : buckets[k] # Absent => buckets[k].last <= now'
  <2> SUFFICES ASSUME NEW k \in Keys, buckets[k] # Absent
               PROVE  buckets[k].last <= now'
    OBVIOUS
  <2>1. buckets[k] \in Bucket /\ buckets[k].last <= now
    BY DEF LimiterInv, LimiterTypeOK
  <2> QED  BY <1>1, <2>1 DEF Bucket
<1>4. LimiterTypeOK'
  BY <1>2, <1>3 DEF LimiterInv, LimiterTypeOK, limiterVars
<1>5. \A k \in Keys : KeyInv(k)'
  BY OtherKeys DEF LimiterInv, limiterVars
<1> QED  BY <1>1, <1>4, <1>5 DEF LimiterInv

LEMMA LimiterKeeps ==
  ASSUME LimiterOK, LimiterInv, LimiterNext
  PROVE  LimiterInv'
<1>1. ASSUME NEW k \in Keys, UNCHANGED now, FirstCall(k) \/ Admit(k) \/ Refuse(k)
      PROVE  LimiterInv'
  <2>1. KeyInv(k)'
    BY <1>1, FirstCallKeeps, AdmitKeeps, RefuseKeeps
  <2>2. \A j \in Keys : j # k => buckets'[j] = buckets[j] /\ admitted'[j] = admitted[j]
    BY <1>1 DEF FirstCall, Admit, Refuse, Keep, LetThrough, LimiterInv, LimiterTypeOK
  <2>3. \A j \in Keys : KeyInv(j)'
    BY <2>1, <2>2, OtherKeys DEF LimiterInv
  <2> QED  BY <1>1, <2>3, LimiterTypes DEF LimiterInv
<1>2. CASE Call
  BY <1>1, <1>2 DEF Call, Key, Keys
<1>3. CASE Tick /\ UNCHANGED limiterVars
  BY <1>3, LimiterWaits DEF Tick
<1> QED  BY <1>2, <1>3 DEF LimiterNext

----------------------------------------------------------------------------
(* The registrations *)

\* The data file, when it can be parsed, holds of every repository what it may
\* rightly hold, and so does the map of a server that works on it; only a
\* running server changes anything.
RepoInv ==
  /\ RepoTypeOK
  /\ disk \in [Paths -> [is : {"missing", "torn", "whole"}, repos : [Repos -> Regs \cup {Absent}],
                         unread : SUBSET Repos]]
  /\ change = Idle \/ (server = "up" /\ change.repo \in Repos)
  /\ AcknowledgedSurvives
  /\ disk["data"].is # "torn" =>
       \A r \in Repos \ disk["data"].unread : disk["data"].repos[r] \in possible[r]

LEMMA RepoStart == RepoInit => RepoInv
BY DEF RepoInit, RepoInv, RepoTypeOK, AcknowledgedSurvives, NoFile, File, Paths, NoRepos, Idle

LEMMA RepoKeeps ==
  ASSUME RepoInv, [RepoNext]_repoVars
  PROVE  RepoInv'
<1> USE DEF RepoInv, RepoTypeOK, AcknowledgedSurvives, Paths
<1> DEFINE Contents == [Repos -> Regs \cup {Absent}]
           Files == [is : {"missing", "torn", "whole"}, repos : Contents, unread : SUBSET Repos]
<1>0. /\ "data" \in Paths /\ "tmp" \in Paths /\ path \in Paths
      /\ NoRepos \in Contents /\ \A r \in Repos : NoRepos[r] = Absent
      /\ \A is \in {"missing", "torn", "whole"}, m \in Contents, w \in SUBSET Repos :
           /\ File(is, m, w) \in Files /\ File(is, m, w).is = is
           /\ File(is, m, w).repos = m /\ File(is, m, w).unread = w
      /\ NoFile \in Files /\ NoFile.is = "missing" /\ NoFile.repos = NoRepos
  BY DEF NoRepos, NoFile, File
<1>1. ASSUME NEW r \in Repos, NEW v \in Regs \cup {Absent}, Change(r, v)
      PROVE  RepoInv'
  <2>1. /\ memory' \in Contents /\ UNCHANGED <<server, path, disk>> /\ server = "up"
        /\ change' = [at |-> "changed", repo |-> r]
        /\ memory'[r] = v /\ \A q \in Repos : q # r => memory'[q] = memory[q]
        /\ unread' = unread \ {r}
    BY <1>1 DEF Change
  <2>2. /\ possible' \in [Repos -> SUBSET (Regs \cup {Absent})]
        /\ \A q \in Repos : possible[q] \subseteq possible'[q]
        /\ path = "data" => v \in possible'[r]
    BY <1>1 DEF Change
  <2> QED  BY <2>1, <2>2
<1>2. CASE Truncate
  <2>1. /\ UNCHANGED <<server, path, memory, unread, possible>>
        /\ disk' = [disk EXCEPT ![path] = File("torn", NoRepos, {})]
        /\ change'.repo = change.repo /\ change # Idle
    BY <1>2 DEF Truncate, Idle
  <2>2. /\ disk' \in [Paths -> Files]
        /\ path = "data" => disk'["data"].is = "torn"
        /\ path # "data" => disk'["data"] = disk["data"]
    BY <1>0, <2>1
  <2> QED  BY <2>1, <2>2
<1>3. CASE Write
  <2>1. /\ UNCHANGED <<server, path, memory, unread>> /\ change' = Idle /\ change # Idle
        /\ disk' = [disk EXCEPT ![path] = File("whole", memory, unread)]
        /\ server = "up" /\ change.repo \in Repos
    BY <1>3 DEF Write, Idle
  <2>2. /\ disk' \in [Paths -> Files]
        /\ path = "data" => disk'["data"].repos = memory /\ disk'["data"].unread = unread
        /\ path # "data" => disk'["data"] = disk["data"]
    BY <1>0, <2>1
  <2>3. CASE path = "data"
    <3>1. possible' = [possible EXCEPT ![change.repo] = {memory[change.repo]}]
      BY <1>3, <2>3 DEF Write
    <3>2. /\ possible' \in [Repos -> SUBSET (Regs \cup {Absent})]
          /\ \A r \in Repos \ unread : memory[r] \in possible'[r]
      BY <2>1, <2>3, <3>1
    <3> QED  BY <2>1, <2>2, <2>3, <3>2
  <2>4. CASE path # "data"
    BY <1>3, <2>1, <2>2, <2>4 DEF Write
  <2> QED  BY <2>3, <2>4
<1>4. CASE SaveFails
  BY <1>4 DEF SaveFails
<1>5. CASE Stop
  <2>1. PICK lost \in SUBSET Paths :
          /\ disk' = [p \in Paths |-> IF p \in lost THEN NoFile ELSE disk[p]]
          /\ possible' = IF "data" \in lost THEN [r \in Repos |-> {Absent}] ELSE possible
    BY <1>5 DEF Stop
  <2>2. disk' \in [Paths -> Files]
    BY <1>0, <2>1
  <2>3. possible' \in [Repos -> SUBSET (Regs \cup {Absent})]
    BY <2>1
  <2>4. disk'["data"].is # "torn" =>
          \A r \in Repos \ disk'["data"].unread : disk'["data"].repos[r] \in possible'[r]
    BY <1>0, <2>1
  <2> QED  BY <1>5, <2>2, <2>3, <2>4 DEF Stop
<1>6. CASE Restart
  <2>1. /\ UNCHANGED <<disk, change, possible>> /\ server = "down"
        /\ \/ Opens("data") \/ Opens("tmp")
           \/ server' = "broken" /\ UNCHANGED <<path, memory, unread>>
    BY <1>6 DEF Restart
  <2>2. CASE Parsed("data") /\ Start("data", disk["data"].repos, disk["data"].unread)
    BY <1>0, <2>1, <2>2 DEF Parsed, Start
  <2>3. ASSUME NEW p \in Paths, Start(p, NoRepos, Repos)
        PROVE  RepoInv'
    BY <1>0, <2>1, <2>3 DEF Start
  <2>4. CASE Start("tmp", disk["tmp"].repos, disk["tmp"].unread)
    BY <1>0, <2>1, <2>4 DEF Start
  <2>5. CASE server' = "broken" /\ UNCHANGED <<path, memory, unread>>
    BY <2>1, <2>5
  <2> QED  BY <1>0, <2>1, <2>2, <2>3, <2>4, <2>5 DEF Opens
<1>7. CASE UNCHANGED repoVars
  BY <1>7 DEF repoVars
<1> QED  BY <1>1, <1>2, <1>3, <1>4, <1>5, <1>6, <1>7 DEF RepoNext

----------------------------------------------------------------------------
(* The approval gate *)

GateInv ==
  /\ GateTypeOK /\ FirstAnswerDecides
  /\ noted \in BOOLEAN /\ (~noted => attempts < NoteAttempts)

LEMMA GateStart == GateOK /\ GateInit => GateInv
<1> SUFFICES ASSUME GateOK, GateInit
             PROVE  GateInv
  OBVIOUS
<1>1. gate # "done" /\ outcome = {} /\ noted = FALSE
  BY DEF GateInit
<1>2. attempts \in 0..NoteAttempts /\ attempts < NoteAttempts
  BY DEF GateInit, GateOK
<1>3. received \in Seq(Answers) /\ heard \in 0..Len(received)
  BY DEF GateInit
<1> QED  BY <1>1, <1>2, <1>3 DEF GateInit, GateInv, GateTypeOK, FirstAnswerDecides

LEMMA GateKeeps ==
  ASSUME GateOK, GateInv, [GateNext]_gateVars
  PROVE  GateInv'
<1> USE DEF GateInv, GateTypeOK, GateOK
<1>1. CASE NoteFails
  <2>1. /\ UNCHANGED <<gate, received, halted, heard, outcome>> /\ gate # "done" /\ ~noted
        /\ attempts' = attempts + 1 /\ noted' = (attempts' = NoteAttempts)
    BY <1>1 DEF NoteFails
  <2>2. noted' \in BOOLEAN /\ (~noted' => attempts' # NoteAttempts)
    BY <2>1, Zenon
  <2>3. attempts < NoteAttempts /\ NoteAttempts \in Nat /\ attempts \in Nat
    BY <2>1
  <2>4. attempts' \in 0..NoteAttempts /\ (attempts' # NoteAttempts => attempts' < NoteAttempts)
    BY <2>1, <2>3
  <2> QED  BY <2>1, <2>2, <2>4 DEF FirstAnswerDecides
<1>2. CASE NoteSent
  BY <1>2 DEF NoteSent, FirstAnswerDecides
<1>3. ASSUME NEW a \in Answers, Signal(a)
      PROVE  GateInv'
  <2>1. /\ gate # "done" /\ received' = Append(received, a)
        /\ heard' = heard \/ heard' = heard + 1
        /\ UNCHANGED <<gate, attempts, noted, halted, outcome>>
    BY <1>3 DEF Signal
  <2>2. received' \in Seq(Answers) /\ heard' \in 0..Len(received')
    BY <2>1
  <2> QED  BY <2>1, <2>2 DEF FirstAnswerDecides
<1>4. CASE Fire \/ Cancel
  BY <1>4 DEF Fire, Cancel, FirstAnswerDecides
<1>5. ASSUME NEW result, Return(result), received # <<>> => result = Head(received),
             received = <<>> => heard = 0 /\ result = TimedOut
      PROVE  GateInv'
  BY <1>5 DEF Return, FirstAnswerDecides
<1>6. received = <<>> => heard = 0
  OBVIOUS
<1>7. CASE Select
  <2>1. CASE received # <<>>
    BY <1>5, <1>7, <2>1 DEF Select
  <2>2. CASE received = <<>> /\ halted
    BY <1>5, <1>6, <1>7, <2>2 DEF Select
  <2>3. CASE received = <<>> /\ ~halted
    BY <1>7, <2>3 DEF Select, FirstAnswerDecides
  <2> QED  BY <2>1, <2>2, <2>3
<1>8. CASE Wake
  <2>1. CASE heard > 0 /\ Return(Head(received))
    <3>1. received # <<>>
      BY <2>1
    <3> QED  BY <1>5, <2>1, <3>1
  <2>2. CASE heard = 0 /\ Return(TimedOut)
    BY <2>2 DEF Return, FirstAnswerDecides
  <2> QED  BY <1>8, <2>1, <2>2 DEF Wake
<1>9. CASE UNCHANGED gateVars
  BY <1>9 DEF gateVars, FirstAnswerDecides
<1> QED  BY <1>1, <1>2, <1>3, <1>4, <1>7, <1>8, <1>9 DEF GateNext

----------------------------------------------------------------------------
(* The dashboard *)

Statuses == {"running", "completed", "failed", "cancelled", "timed_out"}

RowType == [status : Statuses, shown : Statuses \cup {"", "passed", "skipped"}, latest : Nat]

\* A row was listed with the status of its run, or as running before it ended.
DashInv ==
  /\ runs \in [Ids -> Seq(Closed \cup {Running})]
  /\ rows \in [DOMAIN rows -> RowType]
  /\ \A p \in DOMAIN rows :
       /\ p[1] \in Ids /\ p[2] \in 1..Len(runs[p[1]])
       /\ rows[p].status # "running" => runs[p[1]][p[2]].status = rows[p].status
  /\ ShownIsEarned

\* What ShownIsEarned says of one row.
Earned(run, row, n) ==
  row.shown # "" =>
    /\ run.status # "completed" => row.shown \in {"running", run.status}
    /\ row.latest = n => row.shown \in {"running", run.status, Own(run)}

LEMMA RunKinds ==
  ASSUME NEW r \in Closed \cup {Running}
  PROVE  /\ r.status \in Statuses /\ r.result \in {"none"} \cup Results
         /\ r.result # "none" => r.status = "completed"
         /\ r = Running <=> r.status = "running"
BY DEF Closed, Results, Running, Statuses

LEMMA DashStart == DashInit => DashInv
BY DEF DashInit, DashInv, ShownIsEarned

\* Runs are added and the open ones end; one that has ended never changes.
LEMMA RunsGoOn ==
  ASSUME DashInv, NEW i \in Ids, StartRun(i) \/ EndRun(i)
  PROVE  /\ runs' \in [Ids -> Seq(Closed \cup {Running})]
         /\ \A j \in Ids : \A n \in 1..Len(runs[j]) :
              n \in 1..Len(runs'[j]) /\ (runs[j][n] # Running => runs'[j][n] = runs[j][n])
<1> DEFINE All == Closed \cup {Running}
<1>1. runs \in [Ids -> Seq(All)] /\ Running \in All
  BY DEF DashInv
<1> HIDE DEF All
<1>2. CASE StartRun(i)
  <2>1. runs' = [runs EXCEPT ![i] = Append(runs[i], Running)]
    BY <1>2 DEF StartRun
  <2>2. /\ Append(runs[i], Running) \in Seq(All)
        /\ \A n \in 1..Len(runs[i]) : /\ n \in 1..Len(Append(runs[i], Running))
                                      /\ Append(runs[i], Running)[n] = runs[i][n]
    BY <1>1
  <2>3. \A j \in Ids : runs'[j] = IF j = i THEN Append(runs[i], Running) ELSE runs[j]
    BY <1>1, <2>1
  <2>4. runs' \in [Ids -> Seq(All)]
    BY <1>1, <2>1, <2>2
  <2> QED  BY <2>2, <2>3, <2>4 DEF All
<1>3. CASE EndRun(i)
  <2>1. PICK c \in Closed : runs' = [runs EXCEPT ![i][Len(runs[i])] = c]
    BY <1>3 DEF EndRun
  <2>2. runs[i] # <<>> /\ runs[i][Len(runs[i])] = Running
    BY <1>3 DEF EndRun, Open, Last
  <2> DEFINE new == [runs[i] EXCEPT ![Len(runs[i])] = c]
  <2>3. /\ runs' = [runs EXCEPT ![i] = new] /\ c \in All
    BY <2>1 DEF All
  <2>4. /\ new \in Seq(All) /\ Len(new) = Len(runs[i])
        /\ \A n \in 1..Len(runs[i]) : runs[i][n] # Running => new[n] = runs[i][n]
    BY <1>1, <2>2, <2>3
  <2> HIDE DEF new
  <2>5. \A j \in Ids : runs'[j] = IF j = i THEN new ELSE runs[j]
    BY <1>1, <2>3
  <2>6. runs' \in [Ids -> Seq(All)]
    BY <1>1, <2>3, <2>4
  <2> QED  BY <2>4, <2>5, <2>6 DEF All
<1> QED  BY <1>2, <1>3

\* What a request lists are runs with their status, or as still running.
LEMMA RespondKeeps ==
  ASSUME DashInv, NEW listed, Respond(listed),
         listed = [p \in DOMAIN listed |-> listed[p]],
         \A p \in DOMAIN listed :
           /\ p[1] \in Ids /\ p[2] \in 1..Len(runs[p[1]])
           /\ \/ listed[p] = Row("running")
              \/ listed[p] = Row(runs[p[1]][p[2]].status)
  PROVE  DashInv'
<1>1. rows' = listed /\ UNCHANGED runs
  BY DEF Respond
<1>2. ASSUME NEW p \in DOMAIN listed
      PROVE  /\ listed[p] \in RowType /\ listed[p].shown = ""
             /\ listed[p].status # "running" => runs[p[1]][p[2]].status = listed[p].status
  <2>1. runs[p[1]][p[2]].status \in Statuses
    BY RunKinds DEF DashInv
  <2>2. \A st \in Statuses : Row(st) \in RowType /\ Row(st).shown = "" /\ Row(st).status = st
    BY DEF Row, RowType
  <2>3. "running" \in Statuses
    BY DEF Statuses
  <2> QED  BY <2>1, <2>2, <2>3
<1>3. rows' \in [DOMAIN rows' -> RowType]
  BY <1>1, <1>2
<1>4. ShownIsEarned'
  BY <1>1, <1>2 DEF ShownIsEarned
<1> QED  BY <1>1, <1>2, <1>3, <1>4 DEF DashInv

LEMMA ReadKeeps ==
  ASSUME DashInv, NEW p \in DOMAIN rows, Read(p)
  PROVE  DashInv'
<1> DEFINE i == p[1]
           n == p[2]
           run == runs[i][n]
           last == Last(runs[i])
<1>1. /\ i \in Ids /\ runs[i] \in Seq(Closed \cup {Running}) /\ n \in 1..Len(runs[i])
      /\ rows[p] \in RowType /\ UNCHANGED runs
      /\ rows[p].status # "running" => run.status = rows[p].status
  BY DEF DashInv, Read
<1>2. last = runs[i][Len(runs[i])] /\ Len(runs[i]) \in Nat /\ Len(runs[i]) \in 1..Len(runs[i])
  BY <1>1 DEF Last
<1>3. run \in Closed \cup {Running} /\ last \in Closed \cup {Running}
  BY <1>1, <1>2
<1>4. PICK result \in {last.result, "none"} :
        rows' = [rows EXCEPT ![p].shown = Shown(rows[p].status, result),
                             ![p].latest = Len(runs[i])]
  BY DEF Read
<1>5. PICK sh : sh = Shown(rows[p].status, result)
  OBVIOUS
<1>6. rows' = [rows EXCEPT ![p] = [rows[p] EXCEPT !.shown = sh, !.latest = Len(runs[i])]]
  BY <1>4, <1>5 DEF DashInv
<1>7. /\ rows'[p].status = rows[p].status /\ rows'[p].shown = sh
      /\ rows'[p].latest = Len(runs[i])
      /\ \A q \in DOMAIN rows : q # p => rows'[q] = rows[q]
      /\ DOMAIN rows' = DOMAIN rows
  BY <1>1, <1>6 DEF RowType, DashInv
<1>8. Len(runs[i]) = n => run = last
  BY <1>2
<1> HIDE DEF last, run, i, n
<1>9. sh = IF rows[p].status = "completed" /\ result # "none" THEN result ELSE rows[p].status
  BY <1>5 DEF Shown
<1>10. /\ last.result \in {"none"} \cup Results /\ run.result \in {"none"} \cup Results
       /\ rows[p].status \in Statuses
  BY <1>1, <1>3, RunKinds DEF RowType
<1>11. sh \in Statuses \cup {"", "passed", "skipped"}
  BY <1>4, <1>9, <1>10 DEF Statuses, Results
<1>12. rows' \in [DOMAIN rows' -> RowType]
  <2>1. rows'[p] \in RowType
    BY <1>1, <1>2, <1>6, <1>11 DEF RowType, DashInv
  <2> QED  BY <2>1, <1>6, <1>7 DEF DashInv
<1>13. /\ run.status # "completed" => sh \in {"running", run.status}
       /\ Len(runs[i]) = n => sh \in {"running", run.status, Own(run)}
  <2>1. CASE rows[p].status = "completed" /\ result # "none"
    <3>1. run.status = "completed" /\ sh = last.result /\ last.result # "none"
      BY <1>1, <1>4, <1>9, <2>1
    <3> QED  BY <3>1, <1>8 DEF Own
  <2>2. CASE ~(rows[p].status = "completed" /\ result # "none")
    <3>1. sh = rows[p].status
      BY <1>9, <2>2
    <3> QED  BY <3>1, <1>1
  <2> QED  BY <2>1, <2>2
<1>14. Earned(runs[p[1]][p[2]], rows'[p], p[2])
  BY <1>7, <1>13 DEF Earned, run, i, n
<1>15. \A q \in DOMAIN rows : Earned(runs[q[1]][q[2]], rows'[q], q[2])
  <2>1. \A q \in DOMAIN rows : Earned(runs[q[1]][q[2]], rows[q], q[2])
    BY DEF DashInv, ShownIsEarned, Earned
  <2> QED  BY <2>1, <1>7, <1>14
<1>16. ShownIsEarned'
  BY <1>1, <1>7, <1>15 DEF ShownIsEarned, Earned
<1> QED  BY <1>1, <1>7, <1>12, <1>16 DEF DashInv

LEMMA DashKeeps ==
  ASSUME DashOK, DashInv, [DashNext]_dashVars
  PROVE  DashInv'
<1>0. \A i \in Ids : runs[i] \in Seq(Closed \cup {Running}) /\ Len(runs[i]) \in Nat
  BY DEF DashInv
<1>1. ASSUME NEW i \in Ids, StartRun(i) \/ EndRun(i)
      PROVE  DashInv'
  <2>1. UNCHANGED rows
    BY <1>1 DEF StartRun, EndRun
  <2>2. \A p \in DOMAIN rows :
          /\ p[2] \in 1..Len(runs'[p[1]])
          /\ runs[p[1]][p[2]] # Running => runs'[p[1]][p[2]] = runs[p[1]][p[2]]
    BY <1>1, RunsGoOn DEF DashInv
  <2>3. \A p \in DOMAIN rows : rows[p].status # "running" => runs[p[1]][p[2]] # Running
    BY DEF DashInv, Running
  <2>4. ShownIsEarned'
    <3>1. ASSUME NEW p \in DOMAIN rows
          PROVE  Earned(runs'[p[1]][p[2]], rows[p], p[2])
      <4>1. Earned(runs[p[1]][p[2]], rows[p], p[2])
        BY DEF DashInv, ShownIsEarned, Earned
      <4>2. CASE runs[p[1]][p[2]] # Running
        BY <2>2, <4>1, <4>2
      <4>3. CASE runs[p[1]][p[2]] = Running
        <5>1. rows[p].shown # "" => rows[p].shown = "running"
          <6>1. Running.status = "running"
            BY DEF Running
          <6>2. Earned(Running, rows[p], p[2])
            BY <4>1, <4>3
          <6> QED  BY <6>1, <6>2 DEF Earned
        <5> QED  BY <5>1 DEF Earned
      <4> QED  BY <4>2, <4>3
    <3> QED  BY <2>1, <3>1 DEF ShownIsEarned, Earned
  <2> QED  BY <1>1, <2>1, <2>2, <2>3, <2>4, RunsGoOn DEF DashInv
<1>2. ASSUME NEW asked, Builds(asked)
      PROVE  DashInv'
  <2>1. PICK ids \in Queries, missing \in SUBSET Ids, stale \in SUBSET (Ids \X (1..MaxRuns)) :
          Respond(Listed(ids, missing, stale, Filter(asked)))
    BY <1>2 DEF Builds
  <2> DEFINE listed == Listed(ids, missing, stale, Filter(asked))
  <2>2. /\ listed = [p \in DOMAIN listed |-> listed[p]]
        /\ \A p \in DOMAIN listed :
             /\ p \in ids \X (1..MaxRuns)
             /\ p[2] <= Len(runs[p[1]]) - (IF p[1] \in missing THEN 1 ELSE 0)
             /\ listed[p] = Row("running") \/ listed[p] = Row(runs[p[1]][p[2]].status)
    BY DEF Listed
  <2>3. ids \subseteq Ids /\ MaxRuns \in Nat
    BY DEF DashOK
  <2> HIDE DEF listed
  <2>4. ASSUME NEW p \in DOMAIN listed
        PROVE  p[1] \in Ids /\ p[2] \in 1..Len(runs[p[1]])
    <3>1. p[1] \in Ids /\ p[2] \in 1..MaxRuns
      BY <2>2, <2>3, <2>4
    <3>2. p[2] <= Len(runs[p[1]]) - (IF p[1] \in missing THEN 1 ELSE 0)
      BY <2>2, <2>4
    <3>3. p[2] \in Nat \ {0}
      BY <2>3, <3>1
    <3>4. Len(runs[p[1]]) \in Nat
      BY <1>0, <3>1
    <3> DEFINE m == p[2]
               len == Len(runs[p[1]])
    <3>5. m <= len
      <4>1. m <= len - 1 \/ m <= len - 0
        BY <3>2
      <4>2. m \in Nat /\ len \in Nat
        BY <3>3, <3>4
      <4> HIDE DEF m, len
      <4> QED  BY <4>1, <4>2
    <3> QED  BY <3>1, <3>3, <3>4, <3>5
  <2>5. Respond(listed)
    BY <2>1 DEF listed
  <2> QED  BY <2>2, <2>4, <2>5, RespondKeeps
<1>3. CASE Badge
  <2>1. PICK i \in Ids, n \in 1..MaxRuns, stale \in BOOLEAN :
          /\ n \in {Len(runs[i]), Len(runs[i]) - 1}
          /\ Respond([p \in {<<i, n>>} |-> Row(IF stale THEN "running" ELSE runs[i][n].status)])
    BY <1>3 DEF Badge
  <2> DEFINE listed == [p \in {<<i, n>>} |-> Row(IF stale THEN "running" ELSE runs[i][n].status)]
  <2>2. n \in 1..Len(runs[i])
    BY <1>0, <2>1 DEF DashOK
  <2>3. /\ listed = [p \in DOMAIN listed |-> listed[p]]
        /\ \A p \in DOMAIN listed :
             /\ p = <<i, n>>
             /\ listed[p] = Row("running") \/ listed[p] = Row(runs[i][n].status)
    OBVIOUS
  <2> HIDE DEF listed
  <2>4. Respond(listed)
    BY <2>1 DEF listed
  <2> QED  BY <2>2, <2>3, <2>4, RespondKeeps
<1>4. ASSUME NEW i \in Ids, Detail(i)
      PROVE  DashInv'
  <2> DEFINE n == Len(runs[i])
             listed == [p \in {<<i, n>>} |-> Row(Last(runs[i]).status)]
  <2>1. runs[i] # <<>> /\ Respond(listed)
    BY <1>4 DEF Detail
  <2>2. n \in 1..Len(runs[i]) /\ Last(runs[i]) = runs[i][n]
    BY <1>0, <2>1 DEF Last
  <2>3. /\ listed = [p \in DOMAIN listed |-> listed[p]]
        /\ \A p \in DOMAIN listed : p = <<i, n>> /\ listed[p] = Row(runs[i][n].status)
    BY <2>2
  <2> HIDE DEF listed, n
  <2> QED  BY <2>1, <2>2, <2>3, RespondKeeps
<1>5. ASSUME NEW p \in DOMAIN rows, Read(p)
      PROVE  DashInv'
  BY <1>5, ReadKeeps
<1>6. CASE Answer
  <2>1. UNCHANGED runs /\ rows' = <<>>
    BY <1>6 DEF Answer
  <2>2. DOMAIN rows' = {} /\ rows' = [p \in {} |-> rows'[p]]
    BY <2>1
  <2> QED  BY <2>2, <2>1 DEF DashInv, ShownIsEarned
<1>7. CASE UNCHANGED dashVars
  BY <1>7 DEF dashVars, DashInv, ShownIsEarned
<1> QED  BY <1>1, <1>2, <1>3, <1>4, <1>5, <1>6, <1>7 DEF DashNext, Overview

----------------------------------------------------------------------------
(* The logins *)

CallPhases == {"none", "sent", "taken", "refused", "opened", "failed"}

CallType == [phase : CallPhases, nonce : Nonces \cup {Absent}, by : Browsers \cup {Absent}]

Taken(c) == calls[c].phase \in {"taken", "opened"}

\* The first callback of a login was taken or refused.
FirstAnswered(n) ==
  \E d \in Callbacks : calls[d].nonce = n /\ calls[d].phase \notin {"none", "sent"}

LoginsShape ==
  /\ now \in 0..Horizon
  /\ oauthStates \in [Nonces -> (0..(Horizon + StateLife)) \cup {Absent}]
  /\ jar \in [Browsers -> Nonces \cup {Absent}]
  /\ reading \in [Browsers -> 0..now \cup {Absent}]
  /\ calls \in [Callbacks -> CallType]
  /\ begun \in [Nonces -> Begun \cup {Absent}]
  /\ \A n \in Nonces : begun[n] # Absent => begun[n].at <= now

\* What cookies and callbacks name are logins that began.
NamesBegun ==
  /\ \A b \in Browsers : jar[b] # Absent => begun[jar[b]] # Absent
  /\ \A c \in Callbacks : calls[c].phase # "none" =>
       calls[c].nonce \in Nonces /\ calls[c].by \in Browsers /\ begun[calls[c].nonce] # Absent

\* A login of this process is in the map until it is old or answered.
StatesKept ==
  \A n \in Nonces :
    /\ oauthStates[n] # Absent =>
         begun[n] # Absent /\ ~begun[n].lost /\ oauthStates[n] = begun[n].at + StateLife
    /\ begun[n] # Absent /\ ~begun[n].lost /\ oauthStates[n] = Absent =>
         now > begun[n].at + StateLife \/ FirstAnswered(n)

\* A callback that was taken took the nonce with it.
TakenOnce ==
  /\ \A c \in Callbacks : Taken(c) => oauthStates[calls[c].nonce] = Absent
  /\ \A c, d \in Callbacks : Taken(c) /\ Taken(d) /\ calls[c].nonce = calls[d].nonce => c = d
  /\ \A c \in sessions : c \in Callbacks /\ calls[c].phase = "opened"

LoginsInv == LoginsShape /\ NamesBegun /\ StatesKept /\ TakenOnce

\* A callback that goes on changes its phase only.
LEMMA EndedFacts ==
  ASSUME LoginsShape, NEW c \in Callbacks, NEW ph \in CallPhases, Ended(c, ph)
  PROVE  /\ calls' \in [Callbacks -> CallType]
         /\ calls'[c].phase = ph /\ calls'[c].nonce = calls[c].nonce /\ calls'[c].by = calls[c].by
         /\ \A d \in Callbacks : d # c => calls'[d] = calls[d]
         /\ \A d \in Callbacks : calls'[d].nonce = calls[d].nonce /\ calls'[d].by = calls[d].by
<1>1. calls[c] \in CallType
  BY DEF LoginsShape
<1>2. calls' = [calls EXCEPT ![c] = [calls[c] EXCEPT !.phase = ph]]
  BY DEF Ended, LoginsShape
<1>3. [calls[c] EXCEPT !.phase = ph] \in CallType
  BY <1>1 DEF CallType
<1>4. /\ [calls[c] EXCEPT !.phase = ph].phase = ph
      /\ [calls[c] EXCEPT !.phase = ph].nonce = calls[c].nonce
      /\ [calls[c] EXCEPT !.phase = ph].by = calls[c].by
  BY <1>1 DEF CallType
<1>5. calls \in [Callbacks -> CallType]
  BY DEF LoginsShape
<1> HIDE <1>1
<1> QED  BY <1>2, <1>3, <1>4, <1>5

LEMMA ClearedType ==
  ASSUME LoginsShape, NEW c \in Callbacks
  PROVE  /\ Cleared(c) \in [Browsers -> Nonces \cup {Absent}]
         /\ \A b \in Browsers : Cleared(c)[b] # Absent => Cleared(c)[b] = jar[b]
BY DEF Cleared, LoginsShape

LEMMA LoginsStart == ClockOK /\ now = 0 /\ LoginsInit => LoginsInv
<1> SUFFICES ASSUME ClockOK, now = 0, LoginsInit
             PROVE  LoginsInv
  OBVIOUS
<1>1. now \in 0..Horizon
  BY DEF ClockOK
<1>2. \A c \in Callbacks : calls[c].phase = "none"
  BY DEF LoginsInit
<1>3. calls \in [Callbacks -> CallType]
  BY DEF LoginsInit, CallType, CallPhases
<1>4. LoginsShape
  BY <1>1, <1>3 DEF LoginsInit, LoginsShape
<1>5. NamesBegun /\ StatesKept
  BY <1>2 DEF LoginsInit, NamesBegun, StatesKept
<1>6. TakenOnce
  BY <1>2 DEF LoginsInit, TakenOnce, Taken
<1> QED  BY <1>4, <1>5, <1>6 DEF LoginsInv

LEMMA ReadClockKeeps ==
  ASSUME ClockOK, LoginsInv, NEW b \in Browsers, ReadClock(b), UNCHANGED now
  PROVE  LoginsInv'
<1>1. now \in 0..now
  BY DEF LoginsInv, LoginsShape, ClockOK
<1>2. /\ reading' = [reading EXCEPT ![b] = now]
      /\ UNCHANGED <<now, oauthStates, sessions, jar, calls, begun>>
  BY DEF ReadClock
<1>3. reading' \in [Browsers -> 0..now \cup {Absent}]
  BY <1>1, <1>2 DEF LoginsInv, LoginsShape
<1> QED
  BY <1>2, <1>3 DEF LoginsInv, LoginsShape, NamesBegun, StatesKept, FirstAnswered, TakenOnce, Taken

\* What a purge removes is old; the rest stays.
LEMMA PurgedFacts ==
  ASSUME ClockOK, LoginsOK, LoginsInv, NEW t \in 0..now
  PROVE  /\ Purged(t) \in [Nonces -> (0..(Horizon + StateLife)) \cup {Absent}]
         /\ \A n \in Nonces :
              /\ Purged(t)[n] # Absent => Purged(t)[n] = oauthStates[n] /\ t <= oauthStates[n]
              /\ Purged(t)[n] = Absent /\ oauthStates[n] # Absent => now > begun[n].at + StateLife
<1>1. Purged(t) \in [Nonces -> (0..(Horizon + StateLife)) \cup {Absent}]
  BY DEF Purged, LoginsInv, LoginsShape
<1>2. ASSUME NEW n \in Nonces, oauthStates[n] # Absent
      PROVE  /\ oauthStates[n] \in Nat /\ now \in Nat /\ t \in Nat /\ t <= now
             /\ oauthStates[n] = begun[n].at + StateLife
  BY <1>2 DEF LoginsInv, LoginsShape, StatesKept, ClockOK, LoginsOK
<1>3. ASSUME NEW n \in Nonces, Purged(t)[n] # Absent
      PROVE  Purged(t)[n] = oauthStates[n] /\ t <= oauthStates[n]
  <2>1. oauthStates[n] # Absent /\ ~(t > oauthStates[n]) /\ Purged(t)[n] = oauthStates[n]
    BY <1>3 DEF Purged
  <2> QED  BY <1>2, <2>1
<1>4. ASSUME NEW n \in Nonces, Purged(t)[n] = Absent, oauthStates[n] # Absent
      PROVE  now > begun[n].at + StateLife
  <2>1. t > oauthStates[n]
    BY <1>4 DEF Purged
  <2> QED  BY <1>2, <1>4, <2>1
<1> QED  BY <1>1, <1>3, <1>4

LEMMA LoginKeeps ==
  ASSUME ClockOK, LoginsOK, LoginsInv, NEW b \in Browsers, Login(b), UNCHANGED now
  PROVE  LoginsInv'
<1> DEFINE t == reading[b]
<1>1. t \in 0..now /\ now \in 0..Horizon /\ Horizon \in Nat
  BY DEF Login, LoginsInv, LoginsShape, ClockOK
<1>2. PICK n \in Nonces :
        /\ begun[n] = Absent
        /\ oauthStates' = [Purged(t) EXCEPT ![n] = t + StateLife]
        /\ jar' = [jar EXCEPT ![b] = n]
        /\ begun' = [begun EXCEPT ![n] = [at |-> t, lost |-> FALSE]]
  BY DEF Login
<1>3. /\ reading' = [reading EXCEPT ![b] = Absent] /\ UNCHANGED <<now, sessions, calls>>
  BY DEF Login
<1> HIDE DEF t
<1> DEFINE new == [at |-> t, lost |-> FALSE]
<1>4. /\ new \in Begun /\ new # Absent /\ new.at = t /\ ~new.lost
      /\ t <= now /\ t + StateLife \in 0..(Horizon + StateLife) /\ t + StateLife # Absent
  <2>1. t \in Nat /\ StateLife \in Nat /\ t <= now /\ t <= Horizon
    BY <1>1 DEF LoginsOK
  <2>2. t + StateLife \in Nat /\ t + StateLife \in 0..(Horizon + StateLife)
    BY <1>1, <2>1
  <2>3. t + StateLife # Absent
    BY <2>2 DEF ClockOK
  <2>4. new \in Begun /\ new.at = t /\ new.lost = FALSE
    BY <2>1 DEF Begun
  <2>5. new # Absent
    BY <2>4 DEF LoginsOK
  <2> HIDE DEF new
  <2> QED  BY <2>1, <2>2, <2>3, <2>4, <2>5
<1>5. /\ begun'[n] = new /\ oauthStates'[n] = t + StateLife
      /\ \A m \in Nonces : m # n => begun'[m] = begun[m] /\ oauthStates'[m] = Purged(t)[m]
  BY <1>1, <1>2, PurgedFacts DEF LoginsInv, LoginsShape
<1> HIDE DEF new
<1>6. LoginsShape'
  <2>1. oauthStates' \in [Nonces -> (0..(Horizon + StateLife)) \cup {Absent}]
    BY <1>1, <1>2, <1>4, PurgedFacts
  <2>2. begun' \in [Nonces -> Begun \cup {Absent}]
    BY <1>2, <1>4 DEF LoginsInv, LoginsShape, new
  <2>3. jar' \in [Browsers -> Nonces \cup {Absent}] /\ reading' \in [Browsers -> 0..now \cup {Absent}]
    BY <1>2, <1>3 DEF LoginsInv, LoginsShape
  <2>4. \A m \in Nonces : begun'[m] # Absent => begun'[m].at <= now
    BY <1>4, <1>5 DEF LoginsInv, LoginsShape
  <2> QED  BY <1>3, <2>1, <2>2, <2>3, <2>4 DEF LoginsInv, LoginsShape
<1>7. \A m \in Nonces : begun[m] # Absent => begun'[m] = begun[m] /\ m # n
  BY <1>2, <1>5
<1>8. NamesBegun'
  <2>1. \A a \in Browsers : jar'[a] # Absent => jar'[a] \in Nonces /\ begun'[jar'[a]] # Absent
    <3> SUFFICES ASSUME NEW a \in Browsers, jar'[a] # Absent
                 PROVE  jar'[a] \in Nonces /\ begun'[jar'[a]] # Absent
      OBVIOUS
    <3>1. CASE jar'[a] = jar[a]
      BY <3>1, <1>7 DEF LoginsInv, LoginsShape, NamesBegun
    <3>2. CASE jar'[a] # jar[a]
      BY <3>2, <1>2, <1>4, <1>5 DEF LoginsInv, LoginsShape
    <3> QED  BY <3>1, <3>2
  <2>2. \A c \in Callbacks : calls[c].phase # "none" =>
          calls[c].nonce \in Nonces /\ calls[c].by \in Browsers /\ begun'[calls[c].nonce] # Absent
    BY <1>7 DEF LoginsInv, NamesBegun
  <2> QED  BY <1>3, <2>1, <2>2 DEF NamesBegun
<1>9. StatesKept'
  <2> SUFFICES ASSUME NEW m \in Nonces
               PROVE  /\ oauthStates'[m] # Absent =>
                           /\ begun'[m] # Absent /\ ~begun'[m].lost
                           /\ oauthStates'[m] = begun'[m].at + StateLife
                      /\ begun'[m] # Absent /\ ~begun'[m].lost /\ oauthStates'[m] = Absent =>
                           now > begun'[m].at + StateLife \/ FirstAnswered(m)
    BY <1>3 DEF StatesKept, FirstAnswered
  <2>1. CASE m = n
    BY <1>4, <1>5, <2>1
  <2>2. CASE m # n
    BY <1>1, <1>5, <2>2, PurgedFacts DEF LoginsInv, StatesKept
  <2> QED  BY <2>1, <2>2
<1>10. TakenOnce'
  <2>1. \A c \in Callbacks : Taken(c) => calls[c].nonce \in Nonces /\ calls[c].nonce # n
    BY <1>7 DEF LoginsInv, NamesBegun, Taken
  <2>2. \A c \in Callbacks : Taken(c) => oauthStates'[calls[c].nonce] = Absent
    BY <1>1, <1>5, <2>1, PurgedFacts DEF LoginsInv, TakenOnce
  <2> QED  BY <1>3, <2>2 DEF LoginsInv, TakenOnce, Taken
<1> QED  BY <1>6, <1>8, <1>9, <1>10 DEF LoginsInv

LEMMA RefuseLoginKeeps ==
  ASSUME ClockOK, LoginsOK, LoginsInv, NEW b \in Browsers, RefuseLogin(b), UNCHANGED now
  PROVE  LoginsInv'
<1>1. reading[b] \in 0..now
  BY DEF RefuseLogin, LoginsInv, LoginsShape
<1>2. /\ oauthStates' = Purged(reading[b]) /\ reading' = [reading EXCEPT ![b] = Absent]
      /\ UNCHANGED <<now, sessions, jar, calls, begun>>
  BY DEF RefuseLogin
<1>3. /\ oauthStates' \in [Nonces -> (0..(Horizon + StateLife)) \cup {Absent}]
      /\ \A n \in Nonces :
           /\ oauthStates'[n] # Absent => oauthStates'[n] = oauthStates[n]
           /\ oauthStates'[n] = Absent /\ oauthStates[n] # Absent => now > begun[n].at + StateLife
  BY <1>1, <1>2, PurgedFacts
<1>4. LoginsShape'
  BY <1>2, <1>3 DEF LoginsInv, LoginsShape
<1>5. NamesBegun'
  BY <1>2 DEF LoginsInv, NamesBegun
<1>6. StatesKept'
  BY <1>2, <1>3 DEF LoginsInv, StatesKept, FirstAnswered
<1>7. TakenOnce'
  <2>1. \A c \in Callbacks : Taken(c) => calls[c].nonce \in Nonces
    BY DEF LoginsInv, NamesBegun, Taken
  <2> QED  BY <1>2, <1>3, <2>1 DEF LoginsInv, TakenOnce, Taken
<1> QED  BY <1>4, <1>5, <1>6, <1>7 DEF LoginsInv

LEMMA SendCallbackKeeps ==
  ASSUME LoginsInv, NEW c \in Callbacks, NEW b \in Browsers, SendCallback(c, b), UNCHANGED now
  PROVE  LoginsInv'
<1> DEFINE new == [phase |-> "sent", nonce |-> jar[b], by |-> b]
<1>1. /\ calls[c].phase = "none" /\ jar[b] \in Nonces /\ begun[jar[b]] # Absent
      /\ calls' = [calls EXCEPT ![c] = new]
      /\ UNCHANGED <<now, oauthStates, sessions, jar, reading, begun>>
  BY DEF SendCallback, LoginsInv, LoginsShape, NamesBegun
<1>2. new \in CallType /\ new.phase = "sent" /\ new.nonce = jar[b] /\ new.by = b
  BY <1>1 DEF CallType, CallPhases
<1> HIDE DEF new
<1>3. /\ calls' \in [Callbacks -> CallType] /\ calls'[c] = new
      /\ \A d \in Callbacks : d # c => calls'[d] = calls[d]
  BY <1>1, <1>2 DEF LoginsInv, LoginsShape
<1>4. LoginsShape'
  BY <1>1, <1>3 DEF LoginsInv, LoginsShape
<1>5. NamesBegun'
  BY <1>1, <1>2, <1>3 DEF LoginsInv, NamesBegun
<1>6. \A n \in Nonces : FirstAnswered(n) => FirstAnswered(n)'
  BY <1>1, <1>3 DEF FirstAnswered
<1>7. StatesKept'
  BY <1>1, <1>6 DEF LoginsInv, StatesKept
<1>8. TakenOnce'
  BY <1>1, <1>2, <1>3 DEF LoginsInv, TakenOnce, Taken
<1> QED  BY <1>4, <1>5, <1>7, <1>8 DEF LoginsInv

LEMMA TakeStateKeeps ==
  ASSUME LoginsOK, LoginsInv, NEW c \in Callbacks, TakeState(c), UNCHANGED now
  PROVE  LoginsInv'
<1> DEFINE n == calls[c].nonce
<1>1. /\ calls[c].phase = "sent" /\ n \in Nonces
      /\ oauthStates' = [oauthStates EXCEPT ![n] = Absent]
      /\ UNCHANGED <<now, sessions, reading, begun>>
      /\ jar' = jar \/ jar' = Cleared(c)
  BY DEF TakeState, LoginsInv, NamesBegun
<1>2. PICK ph \in {"taken", "refused"} :
        Ended(c, ph) /\ (ph = "taken" => oauthStates[n] # Absent)
  BY DEF TakeState
<1> HIDE DEF n
<1>3. ph \in CallPhases
  BY DEF CallPhases
<1>4. /\ calls' \in [Callbacks -> CallType]
      /\ calls'[c].phase = ph
      /\ \A d \in Callbacks : d # c => calls'[d] = calls[d]
      /\ \A d \in Callbacks : calls'[d].nonce = calls[d].nonce /\ calls'[d].by = calls[d].by
  BY <1>2, <1>3, EndedFacts DEF LoginsInv
<1>5. /\ oauthStates'[n] = Absent
      /\ \A m \in Nonces : m # n => oauthStates'[m] = oauthStates[m]
      /\ oauthStates' \in [Nonces -> (0..(Horizon + StateLife)) \cup {Absent}]
  BY <1>1 DEF LoginsInv, LoginsShape
<1>6. /\ jar' \in [Browsers -> Nonces \cup {Absent}]
      /\ \A b \in Browsers : jar'[b] # Absent => jar'[b] = jar[b]
  BY <1>1, ClearedType DEF LoginsInv, LoginsShape
<1>7. LoginsShape'
  BY <1>1, <1>4, <1>5, <1>6 DEF LoginsInv, LoginsShape
<1>8. NamesBegun'
  BY <1>1, <1>4, <1>6 DEF LoginsInv, NamesBegun
<1>9. StatesKept'
  <2>1. \A m \in Nonces : m = n => FirstAnswered(m)'
    BY <1>1, <1>2, <1>4 DEF FirstAnswered, n
  <2>2. \A m \in Nonces : FirstAnswered(m) => FirstAnswered(m)'
    BY <1>1, <1>4 DEF FirstAnswered
  <2> QED  BY <1>1, <1>5, <2>1, <2>2 DEF LoginsInv, StatesKept
<1>10. TakenOnce'
  <2>1. \A d \in Callbacks : Taken(d) => calls[d].nonce \in Nonces
    BY DEF LoginsInv, NamesBegun, Taken
  <2>2. \A d \in Callbacks : Taken(d)' => IF d = c THEN ph = "taken" ELSE Taken(d)
    BY <1>4 DEF Taken
  <2>3. \A d \in Callbacks : Taken(d)' => oauthStates'[calls'[d].nonce] = Absent
    BY <1>4, <1>5, <2>1, <2>2 DEF LoginsInv, TakenOnce, n
  <2>4. \A d \in Callbacks : d # c /\ Taken(d) /\ ph = "taken" => calls[d].nonce # n
    BY <1>2 DEF LoginsInv, TakenOnce
  <2>5. \A d, e \in Callbacks : Taken(d)' /\ Taken(e)' /\ calls'[d].nonce = calls'[e].nonce => d = e
    BY <1>4, <2>2, <2>4 DEF LoginsInv, TakenOnce, n
  <2>6. \A d \in sessions' : d \in Callbacks /\ calls'[d].phase = "opened"
    BY <1>1, <1>4 DEF LoginsInv, TakenOnce
  <2> QED  BY <2>3, <2>5, <2>6 DEF TakenOnce
<1> QED  BY <1>7, <1>8, <1>9, <1>10 DEF LoginsInv

\* The callback ends: a session is opened, or one of GitHub's answers was bad.
LEMMA EndKeeps ==
  ASSUME LoginsInv, NEW c \in Callbacks, OpenSession(c) \/ FailCallback(c), UNCHANGED now
  PROVE  LoginsInv'
<1>1. /\ calls[c].phase = "taken"
      /\ UNCHANGED <<now, oauthStates, reading, begun>> /\ jar' = Cleared(c)
  BY DEF OpenSession, FailCallback
<1>2. PICK ph \in {"opened", "failed"} :
        Ended(c, ph) /\ sessions' \subseteq sessions \cup (IF ph = "opened" THEN {c} ELSE {})
  BY DEF OpenSession, FailCallback
<1>3. ph \in CallPhases
  BY DEF CallPhases
<1>4. /\ calls' \in [Callbacks -> CallType]
      /\ calls'[c].phase = ph
      /\ \A d \in Callbacks : d # c => calls'[d] = calls[d]
      /\ \A d \in Callbacks : calls'[d].nonce = calls[d].nonce /\ calls'[d].by = calls[d].by
  BY <1>2, <1>3, EndedFacts DEF LoginsInv
<1>5. /\ jar' \in [Browsers -> Nonces \cup {Absent}]
      /\ \A b \in Browsers : jar'[b] # Absent => jar'[b] = jar[b]
  BY <1>1, ClearedType DEF LoginsInv
<1>6. LoginsShape'
  BY <1>1, <1>4, <1>5 DEF LoginsInv, LoginsShape
<1>7. NamesBegun'
  BY <1>1, <1>4, <1>5 DEF LoginsInv, NamesBegun
<1>8. \A n \in Nonces : FirstAnswered(n) => FirstAnswered(n)'
  BY <1>2, <1>4 DEF FirstAnswered
<1>9. StatesKept'
  BY <1>1, <1>8 DEF LoginsInv, StatesKept
<1>10. TakenOnce'
  <2>1. \A d \in Callbacks : Taken(d)' => Taken(d)
    BY <1>1, <1>4 DEF Taken
  <2>2. \A d \in sessions' : d \in Callbacks /\ calls'[d].phase = "opened"
    BY <1>1, <1>2, <1>4 DEF LoginsInv, TakenOnce
  <2> QED  BY <1>1, <1>4, <2>1, <2>2 DEF LoginsInv, TakenOnce
<1> QED  BY <1>6, <1>7, <1>9, <1>10 DEF LoginsInv

\* A restart forgets the logins and fails the callbacks under way.
LEMMA LoginsLostKeeps ==
  ASSUME LoginsOK, LoginsInv, LoginsLost, UNCHANGED now
  PROVE  LoginsInv'
<1>1. /\ oauthStates' = [n \in Nonces |-> Absent] /\ sessions' = {}
      /\ reading' = [b \in Browsers |-> Absent] /\ UNCHANGED <<now, jar>>
      /\ calls' = [c \in Callbacks |-> IF calls[c].phase \in {"sent", "taken"}
                                       THEN [calls[c] EXCEPT !.phase = "failed"] ELSE calls[c]]
      /\ begun' = [n \in Nonces |-> IF begun[n] = Absent THEN Absent
                                    ELSE [begun[n] EXCEPT !.lost = TRUE]]
  BY DEF LoginsLost
<1>2. ASSUME NEW n \in Nonces
      PROVE  /\ begun'[n] \in Begun \cup {Absent}
             /\ begun'[n] = Absent <=> begun[n] = Absent
             /\ begun'[n] # Absent => begun'[n].lost /\ begun'[n].at = begun[n].at
  <2>1. CASE begun[n] = Absent
    BY <1>1, <2>1
  <2>2. CASE begun[n] \in Begun
    <3>1. begun[n] # Absent
      BY <2>2 DEF LoginsOK
    <3>2. begun'[n] = [begun[n] EXCEPT !.lost = TRUE]
      BY <1>1, <3>1
    <3>3. begun'[n] \in Begun /\ begun'[n].lost = TRUE /\ begun'[n].at = begun[n].at
      BY <2>2, <3>2 DEF Begun
    <3> QED  BY <3>1, <3>3 DEF LoginsOK
  <2> QED  BY <2>1, <2>2 DEF LoginsInv, LoginsShape
<1>3. ASSUME NEW c \in Callbacks
      PROVE  /\ calls'[c] \in CallType
             /\ calls'[c].nonce = calls[c].nonce /\ calls'[c].by = calls[c].by
             /\ calls'[c].phase = IF calls[c].phase \in {"sent", "taken"} THEN "failed"
                                  ELSE calls[c].phase
  <2>1. calls[c] \in CallType
    BY DEF LoginsInv, LoginsShape
  <2>2. CASE calls[c].phase \in {"sent", "taken"}
    <3>1. calls'[c] = [calls[c] EXCEPT !.phase = "failed"]
      BY <1>1, <2>2
    <3> QED  BY <2>1, <2>2, <3>1 DEF CallType, CallPhases
  <2>3. CASE calls[c].phase \notin {"sent", "taken"}
    BY <1>1, <2>1, <2>3
  <2> QED  BY <2>2, <2>3
<1>4. LoginsShape'
  <2>1. begun' \in [Nonces -> Begun \cup {Absent}] /\ calls' \in [Callbacks -> CallType]
    BY <1>1, <1>2, <1>3
  <2> QED  BY <1>1, <1>2, <2>1 DEF LoginsInv, LoginsShape
<1>5. NamesBegun'
  BY <1>1, <1>2, <1>3 DEF LoginsInv, NamesBegun, LoginsShape
<1>6. StatesKept'
  BY <1>1, <1>2 DEF StatesKept
<1>7. TakenOnce'
  <2>1. \A c \in Callbacks : Taken(c)' => Taken(c) /\ calls[c].nonce \in Nonces
    BY <1>3 DEF Taken, LoginsInv, NamesBegun
  <2> QED  BY <1>1, <1>3, <2>1 DEF LoginsInv, TakenOnce
<1> QED  BY <1>4, <1>5, <1>6, <1>7 DEF LoginsInv

LEMMA LoginsWait ==
  ASSUME ClockOK, LoginsOK, LoginsInv, UNCHANGED loginVars, Tick
  PROVE  LoginsInv'
<1>1. now' \in 0..Horizon /\ now \in Nat /\ now' = now + 1
  BY DEF LoginsInv, LoginsShape, Tick, ClockOK
<1>2. reading' \in [Browsers -> 0..now' \cup {Absent}]
  <2>1. 0..now \subseteq 0..now'
    BY <1>1
  <2> QED  BY <2>1 DEF LoginsInv, LoginsShape, loginVars
<1>3. \A n \in Nonces : begun[n] # Absent => begun[n].at \in Nat /\ begun[n].at <= now
  BY DEF LoginsInv, LoginsShape, Begun
<1>4. LoginsShape'
  BY <1>1, <1>2, <1>3 DEF LoginsInv, LoginsShape, loginVars
<1>5. StatesKept'
  <2>1. \A n \in Nonces : begun[n] # Absent /\ now > begun[n].at + StateLife
                            => now' > begun[n].at + StateLife
    BY <1>1, <1>3 DEF LoginsOK
  <2> QED  BY <2>1 DEF LoginsInv, StatesKept, FirstAnswered, loginVars
<1>6. NamesBegun' /\ TakenOnce'
  BY DEF LoginsInv, NamesBegun, TakenOnce, Taken, loginVars
<1> QED  BY <1>4, <1>5, <1>6 DEF LoginsInv

LEMMA LoginsKeep ==
  ASSUME ClockOK, LoginsOK, LoginsInv, LoginsNext \/ LoginsLost, UNCHANGED now
  PROVE  LoginsInv'
<1>1. ASSUME NEW b \in Browsers, Logout(b)
      PROVE  LoginsInv'
  BY <1>1 DEF Logout, LoginsInv, LoginsShape, NamesBegun, StatesKept, FirstAnswered, TakenOnce, Taken
<1> QED
  BY <1>1, ReadClockKeeps, LoginKeeps, RefuseLoginKeeps, SendCallbackKeeps, TakeStateKeeps,
     EndKeeps, LoginsLostKeeps
  DEF LoginsNext

----------------------------------------------------------------------------
(* The parts together *)

Inv == LimiterInv /\ LoginsInv /\ RepoInv /\ GateInv /\ DashInv

AllOK == ClockOK /\ LimiterOK /\ LoginsOK /\ GateOK /\ DashOK

LEMMA LimiterStart == LimiterOK /\ now = 0 /\ LimiterInit => LimiterInv
<1> SUFFICES ASSUME now = 0, LimiterInit
             PROVE  LimiterInv
  OBVIOUS
<1>1. LimiterTypeOK
  BY DEF LimiterInit, LimiterTypeOK
<1>2. \A k \in Keys : KeyInv(k)
  BY DEF LimiterInit, KeyInv
<1> QED  BY <1>1, <1>2 DEF LimiterInv

LEMMA ServicesStart == AllOK /\ Init => Inv
BY LimiterStart, LoginsStart, RepoStart, GateStart, DashStart DEF Init, Inv, AllOK

\* What a part does not touch keeps its invariant, but for the clock.
LEMMA LimiterStays == LimiterInv /\ UNCHANGED <<limiterVars, now>> => LimiterInv'
<1> SUFFICES ASSUME LimiterInv, UNCHANGED <<limiterVars, now>>
             PROVE  LimiterInv'
  OBVIOUS
<1> QED  BY OtherKeys DEF LimiterInv, LimiterTypeOK, limiterVars

LEMMA LoginsStay == LoginsInv /\ UNCHANGED <<loginVars, now>> => LoginsInv'
BY DEF LoginsInv, LoginsShape, NamesBegun, StatesKept, FirstAnswered, TakenOnce, Taken, loginVars

LEMMA ServicesKeep == AllOK /\ Inv /\ [Next]_services => Inv'
<1> SUFFICES ASSUME AllOK, Inv, [Next]_services
             PROVE  Inv'
  OBVIOUS
<1> USE DEF AllOK, Inv
<1>1. UNCHANGED repoVars => RepoInv'
  BY RepoKeeps
<1>2. UNCHANGED gateVars => GateInv'
  BY GateKeeps
<1>3. UNCHANGED dashVars => DashInv'
  BY DashKeeps
<1>4. CASE Limiter
  <2>1. LimiterInv'
    BY <1>4, LimiterKeeps DEF Limiter
  <2>2. LoginsInv'
    <3>1. CASE UNCHANGED now
      BY <1>4, <3>1, LoginsStay DEF Limiter
    <3>2. CASE Tick
      BY <1>4, <3>2, LoginsWait DEF Limiter
    <3> QED  BY <1>4, <3>1, <3>2 DEF Limiter, LimiterNext, Call
  <2> QED  BY <1>1, <1>2, <1>3, <1>4, <2>1, <2>2 DEF Limiter
<1>5. CASE LoginService
  <2>1. UNCHANGED <<limiterVars, repoVars, gateVars, dashVars>>
    BY <1>5 DEF LoginService
  <2>2. CASE (LoginsNext \/ LoginsLost) /\ UNCHANGED now
    BY <1>1, <1>2, <1>3, <2>1, <2>2, LoginsKeep, LimiterStays
  <2>3. CASE Tick /\ UNCHANGED loginVars
    BY <1>1, <1>2, <1>3, <2>1, <2>3, LoginsWait, LimiterWaits DEF Tick
  <2> QED  BY <1>5, <2>2, <2>3 DEF LoginService
<1>6. CASE Store
  BY <1>2, <1>3, <1>6, RepoKeeps, LimiterStays, LoginsStay DEF Store
<1>7. CASE Gate
  BY <1>1, <1>3, <1>7, GateKeeps, LimiterStays, LoginsStay DEF Gate
<1>8. CASE Dash
  BY <1>1, <1>2, <1>8, DashKeeps, LimiterStays, LoginsStay DEF Dash
<1>9. CASE UNCHANGED services
  BY <1>1, <1>2, <1>3, <1>9, LimiterStays, LoginsStay DEF services
<1> QED  BY <1>4, <1>5, <1>6, <1>7, <1>8, <1>9 DEF Next

----------------------------------------------------------------------------
(* Theorems *)

\* The invariant of every part holds, whichever of them runs.
THEOREM ServicesCorrect == Spec => []Inv
<1>1. AllOK
  BY ClockOK, LimiterOK, LoginsOK, GateOK, DashOK DEF AllOK
<1> QED  BY <1>1, ServicesStart, ServicesKeep, PTL DEF Spec

\* Every variable of every part keeps its shape.
THEOREM ServicesTyped == Spec => []TypeOK
<1>1. Inv => TypeOK
  BY DEF Inv, TypeOK, LimiterInv, RepoInv, GateInv, LoginsInv, LoginsShape, TakenOnce,
         LoginsTypeOK, DashInv, DashTypeOK
<1> QED  BY <1>1, ServicesCorrect, PTL

\* However calls and the clock interleave, and wherever the interval begins, no
\* key gets more than Rate calls through in an interval.
THEOREM LimiterBounds == Spec => []AtMostRatePerInterval
<1>1. Inv => AtMostRatePerInterval
  <2> SUFFICES ASSUME Inv, NEW k \in Keys, NEW i \in DOMAIN admitted[k],
                      i + Rate \in DOMAIN admitted[k]
               PROVE  admitted[k][i] + Interval <= admitted[k][i + Rate]
    BY DEF AtMostRatePerInterval
  <2>1. KeyInv(k)
    BY DEF Inv, LimiterInv
  <2>2. CASE buckets[k] = Absent
    BY <2>1, <2>2 DEF KeyInv
  <2>3. CASE buckets[k] # Absent
    BY <2>1, <2>3 DEF KeyInv, RateKept
  <2> QED  BY <2>2, <2>3
<1> QED  BY <1>1, ServicesCorrect, PTL

\* Through crashes between the steps of a save, failed saves, lost volumes and
\* restarts, a server on its own file knows what it answered for.
THEOREM RegistrationsSurvive == Spec => []AcknowledgedSurvives
<1>1. Inv => AcknowledgedSurvives
  BY DEF Inv, RepoInv
<1> QED  BY <1>1, ServicesCorrect, PTL

\* However signals, timer, cancellation and the tries of the note interleave,
\* the first answer in time decides, and nothing else opens the gate.
THEOREM GateDecides == Spec => []FirstAnswerDecides
<1>1. Inv => FirstAnswerDecides
  BY DEF Inv, GateInv
<1> QED  BY <1>1, ServicesCorrect, PTL

\* What the dashboard shows of a run the run has earned, though runs start and
\* end between the listing and the reading of each history.
THEOREM DashboardEarned == Spec => []ShownIsEarned
<1>1. Inv => ShownIsEarned
  BY DEF Inv, DashInv
<1> QED  BY <1>1, ServicesCorrect, PTL

\* A login opens one session at most, is taken by its first callback while it
\* is young, and is refused only for as many others that began in the time
\* before it.
THEOREM LoginsAreHonest == Spec => LoginsHonest
<1>1. AllOK /\ Inv /\ Inv' /\ [Next]_services
        => [OneSessionEach' /\ TakenIfYoung /\ RefusedIfMany]_loginVars
  <2> SUFFICES ASSUME AllOK, Inv, Inv', [Next]_services
               PROVE  [OneSessionEach' /\ TakenIfYoung /\ RefusedIfMany]_loginVars
    OBVIOUS
  <2>1. OneSessionEach'
    BY DEF Inv, LoginsInv, TakenOnce, Taken, OneSessionEach
  <2>2. CASE (LoginsNext \/ LoginsLost) /\ UNCHANGED now
    <3>1. TakenIfYoung
      <4> SUFFICES ASSUME NEW c \in Callbacks,
                          calls[c].phase = "sent", calls'[c].phase = "refused"
                   PROVE  \/ begun[calls[c].nonce].lost
                          \/ now > begun[calls[c].nonce].at + StateLife
                          \/ \E d \in Callbacks \ {c} :
                               calls[d].nonce = calls[c].nonce
                                 /\ calls[d].phase \notin {"none", "sent"}
        BY DEF TakenIfYoung
      <4> DEFINE n == calls[c].nonce
      <4>1. n \in Nonces /\ begun[n] # Absent
        BY DEF Inv, LoginsInv, NamesBegun
      <4>2. TakeState(c)
        <5>1. \A b \in Browsers : ReadClock(b) \/ Login(b) \/ RefuseLogin(b) \/ Logout(b)
                => UNCHANGED calls
          BY DEF ReadClock, Login, RefuseLogin, Logout
        <5>2. \A d \in Callbacks : \A ph : d # c /\ Ended(d, ph) => calls'[c] = calls[c]
          BY DEF Ended, Inv, LoginsInv, LoginsShape
        <5>3. \A d \in Callbacks : TakeState(d) => d = c
          BY <5>2 DEF TakeState
        <5>4. \A d \in Callbacks : ~OpenSession(d) /\ ~FailCallback(d)
          BY <5>2 DEF OpenSession, FailCallback
        <5>5. \A d \in Callbacks, b \in Browsers : ~SendCallback(d, b)
          BY DEF SendCallback, Inv, LoginsInv, LoginsShape
        <5>6. ~LoginsLost
          <6>1. ASSUME LoginsLost
                PROVE  calls'[c].phase = "failed"
            <7>1. calls'[c] = [calls[c] EXCEPT !.phase = "failed"] /\ calls[c] \in CallType
              BY <6>1 DEF LoginsLost, Inv, LoginsInv, LoginsShape
            <7> QED  BY <7>1 DEF CallType
          <6> QED  BY <6>1
        <5> QED  BY <2>2, <5>1, <5>3, <5>4, <5>5, <5>6 DEF LoginsNext
      <4>3. ~(oauthStates[n] # Absent /\ now <= oauthStates[n])
        <5>1. CASE oauthStates[n] # Absent /\ now <= oauthStates[n]
          <6>1. Ended(c, "taken") /\ "taken" \in CallPhases
            BY <4>2, <5>1 DEF TakeState, CallPhases
          <6>2. calls'[c].phase = "taken"
            BY <6>1, EndedFacts DEF Inv, LoginsInv
          <6> QED  BY <6>2
        <5> QED  BY <5>1
      <4>4. CASE oauthStates[n] = Absent
        <5>1. begun[n].lost \/ now > begun[n].at + StateLife \/ FirstAnswered(n)
          BY <4>1, <4>4 DEF Inv, LoginsInv, StatesKept
        <5> QED  BY <5>1 DEF FirstAnswered
      <4>5. CASE oauthStates[n] # Absent
        <5>1. /\ oauthStates[n] = begun[n].at + StateLife /\ ~(now <= oauthStates[n])
              /\ oauthStates[n] \in Nat /\ now \in Nat
          BY <4>1, <4>3, <4>5 DEF Inv, LoginsInv, LoginsShape, StatesKept, AllOK, ClockOK, LoginsOK
        <5> QED  BY <5>1
      <4> QED  BY <4>4, <4>5
    <3>2. RefusedIfMany
      <4> SUFFICES ASSUME NEW b \in Browsers, RefuseLogin(b)
                   PROVE  Cardinality({n \in Nonces : begun[n] # Absent /\ ~begun[n].lost
                                         /\ begun[n].at + StateLife >= reading[b]}) >= Cap
        BY DEF RefusedIfMany
      <4> DEFINE young == {n \in Nonces : begun[n] # Absent /\ ~begun[n].lost
                                            /\ begun[n].at + StateLife >= reading[b]}
                 kept == {n \in Nonces : Purged(reading[b])[n] # Absent}
      <4>1. Cardinality(kept) >= Cap /\ reading[b] \in 0..now
        BY DEF RefuseLogin, Crowded, Inv, LoginsInv, LoginsShape
      <4>2. kept \subseteq young
        <5> SUFFICES ASSUME NEW n \in Nonces, Purged(reading[b])[n] # Absent
                     PROVE  begun[n] # Absent /\ ~begun[n].lost
                              /\ begun[n].at + StateLife >= reading[b]
          OBVIOUS
        <5>1. oauthStates[n] # Absent /\ reading[b] <= oauthStates[n]
          BY <4>1, PurgedFacts DEF Inv, AllOK
        <5>2. begun[n] # Absent /\ ~begun[n].lost /\ oauthStates[n] = begun[n].at + StateLife
          BY <5>1 DEF Inv, LoginsInv, StatesKept
        <5>3. oauthStates[n] \in Nat /\ reading[b] \in Nat
          BY <4>1, <5>1 DEF Inv, LoginsInv, LoginsShape, AllOK, ClockOK, LoginsOK
        <5> QED  BY <5>1, <5>2, <5>3
      <4>3. IsFiniteSet(young)
        <5>1. IsFiniteSet(Nonces) /\ young \subseteq Nonces
          BY FS_Interval DEF Nonces, AllOK, LoginsOK
        <5> QED  BY <5>1, FS_Subset
      <4>4. /\ Cardinality(kept) <= Cardinality(young)
            /\ Cardinality(young) \in Nat /\ Cardinality(kept) \in Nat
        BY <4>2, <4>3, FS_Subset, FS_CardinalityType
      <4> HIDE DEF young, kept
      <4>5. Cardinality(young) >= Cap
        BY <4>1, <4>4 DEF AllOK, LoginsOK
      <4> QED  BY <4>5 DEF young
    <3> QED  BY <2>1, <3>1, <3>2
  <2>3. CASE UNCHANGED loginVars
    BY <2>3
  <2> QED
    BY <2>2, <2>3 DEF Next, Limiter, LoginService, Store, Gate, Dash, services
<1>2. AllOK
  BY ClockOK, LimiterOK, LoginsOK, GateOK, DashOK DEF AllOK
<1> QED  BY <1>1, <1>2, ServicesCorrect, PTL DEF Spec, LoginsHonest
=============================================================================
