---------------------------- MODULE RateLimiter ----------------------------
(***************************************************************************)
(* The token bucket in front of the webhook endpoints                      *)
(* (internal/middleware/middleware.go): one bucket per key, refilled only  *)
(* by whole intervals since the last call of the key, whatever became of   *)
(* that call.  Buckets live in memory and are never removed.               *)
(***************************************************************************)
EXTENDS ServerClock, Sequences, FiniteSets

CONSTANTS
  Peers,      \* remote addresses, with their ports
  Forwarded,  \* values of the X-Forwarded-For header
  Rate,       \* calls in an interval (60)
  Interval    \* its length (one minute)

Keys == Peers \cup Forwarded

Bucket == [tokens : 0..Rate, last : Nat]

ASSUME LimiterOK ==
  /\ Rate \in Nat \ {0} /\ Interval \in Nat \ {0}
  /\ Absent \notin Keys \cup Bucket

VARIABLES
  buckets,  \* rl.buckets
  admitted  \* history: when this process let calls of a key through

limiterVars == <<buckets, admitted>>

LimiterInit ==
  /\ buckets = [k \in Keys |-> Absent]
  /\ admitted = [k \in Keys |-> <<>>]

\* RateLimit: the header, when there is one, stands for the client.
Key(peer, header) == IF header # Absent THEN header ELSE peer

\* Mutant: the tokens that were left are added to a full refill.
RefilledOver(k) ==
  buckets[k].tokens + ((now - buckets[k].last) \div Interval) * Rate

Refilled(k) ==
  LET tokens == buckets[k].tokens + ((now - buckets[k].last) \div Interval) * Rate
  IN IF tokens > Rate THEN Rate ELSE tokens

Keep(k, tokens) == buckets' = [buckets EXCEPT ![k] = [tokens |-> tokens, last |-> now]]

LetThrough(k) == admitted' = [admitted EXCEPT ![k] = Append(@, now)]

FirstCall(k) ==
  /\ buckets[k] = Absent
  /\ Keep(k, Rate - 1) /\ LetThrough(k)

Admit(k) ==
  /\ buckets[k] # Absent /\ Refilled(k) > 0
  /\ Keep(k, Refilled(k) - 1) /\ LetThrough(k)

\* A refused call, too, moves the time the next refill is counted from.
Refuse(k) ==
  /\ buckets[k] # Absent /\ Refilled(k) = 0
  /\ Keep(k, 0) /\ UNCHANGED admitted

Call ==
  \E peer \in Peers, header \in Forwarded \cup {Absent} :
    LET k == Key(peer, header) IN
    (FirstCall(k) \/ Admit(k) \/ Refuse(k)) /\ UNCHANGED now

LimiterNext == Call \/ (Tick /\ UNCHANGED limiterVars)

LimiterSpec == LimiterInit /\ now = 0 /\ [][LimiterNext]_<<now, limiterVars>>

----------------------------------------------------------------------------
LimiterTypeOK ==
  /\ buckets \in [Keys -> Bucket \cup {Absent}]
  /\ \A k \in Keys : buckets[k] # Absent => buckets[k].last <= now
  /\ admitted \in [Keys -> Seq(0..now)]

\* No key gets more than Rate calls through in any interval, wherever the
\* interval begins: the refill by whole intervals gives no burst at its edges.
AtMostRatePerInterval ==
  \A k \in Keys : \A i \in DOMAIN admitted[k] :
    i + Rate \in DOMAIN admitted[k] => admitted[k][i] + Interval <= admitted[k][i + Rate]

\* Not met: a call would be refused now only to a key that got Rate calls
\* through in the interval that ends now ("60 requests per minute per IP").
RefusedForCause ==
  \A k \in Keys :
    buckets[k] # Absent /\ Refilled(k) = 0 =>
      Cardinality({i \in DOMAIN admitted[k] : admitted[k][i] + Interval > now}) >= Rate
============================================================================
