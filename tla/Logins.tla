------------------------------- MODULE Logins -------------------------------
(***************************************************************************)
(* GitHub logins and sessions of the webhook server (cmd/webhook/auth.go). *)
(* A login leaves a nonce in the server's map and in the browser's cookie; *)
(* the callback takes it out under the lock, then asks GitHub, and only    *)
(* then opens a session.  Both maps live in memory.  A session is known by *)
(* the callback that opened it; its end after 7 days is left out.          *)
(***************************************************************************)
EXTENDS ServerClock, FiniteSets

CONSTANTS
  Browsers,
  MaxLogins,    \* bound: nonces, which are random and taken as numbers in turn
  MaxCallbacks, \* bound: calls of /auth/github/callback
  Cap,          \* pending logins (1024)
  StateLife     \* of a pending login (10 minutes)

Nonces == 1..MaxLogins
Callbacks == 1..MaxCallbacks

Begun == [at : Nat, lost : BOOLEAN]

ASSUME LoginsOK ==
  /\ MaxLogins \in Nat /\ MaxCallbacks \in Nat /\ Cap \in Nat /\ StateLife \in Nat
  /\ Absent \notin Browsers \cup Begun

VARIABLES
  oauthStates,  \* nonce -> expiry
  sessions,     \* those that are open
  jar,          \* a browser's oauth_state cookie
  reading,      \* a login that has read the clock and waits for the lock
  calls,        \* the callbacks
  begun         \* history: when a login began, and whether its process is gone

loginVars == <<oauthStates, sessions, jar, reading, calls, begun>>

LoginsInit ==
  /\ oauthStates = [n \in Nonces |-> Absent]
  /\ sessions = {}
  /\ jar = [b \in Browsers |-> Absent]
  /\ reading = [b \in Browsers |-> Absent]
  /\ calls = [c \in Callbacks |-> [phase |-> "none", nonce |-> Absent, by |-> Absent]]
  /\ begun = [n \in Nonces |-> Absent]

----------------------------------------------------------------------------
(* handleAuthGitHub *)

ReadClock(b) ==
  /\ reading[b] = Absent
  /\ reading' = [reading EXCEPT ![b] = now]
  /\ UNCHANGED <<oauthStates, sessions, jar, calls, begun>>

Purged(t) ==
  [n \in Nonces |-> IF oauthStates[n] # Absent /\ t > oauthStates[n]
                    THEN Absent ELSE oauthStates[n]]

Crowded(states) == Cardinality({n \in Nonces : states[n] # Absent}) >= Cap

Login(b) ==
  LET states == Purged(reading[b]) IN
  /\ reading[b] # Absent /\ ~Crowded(states)
  /\ \E n \in Nonces :
       /\ begun[n] = Absent /\ \A m \in 1..(n - 1) : begun[m] # Absent
       /\ oauthStates' = [states EXCEPT ![n] = reading[b] + StateLife]
       /\ jar' = [jar EXCEPT ![b] = n]
       /\ begun' = [begun EXCEPT ![n] = [at |-> reading[b], lost |-> FALSE]]
  /\ reading' = [reading EXCEPT ![b] = Absent]
  /\ UNCHANGED <<sessions, calls>>

RefuseLogin(b) ==
  LET states == Purged(reading[b]) IN
  /\ reading[b] # Absent /\ Crowded(states)
  /\ oauthStates' = states
  /\ reading' = [reading EXCEPT ![b] = Absent]
  /\ UNCHANGED <<sessions, jar, calls, begun>>

----------------------------------------------------------------------------
(* handleAuthCallback.  The clock, read after the lock, is read with it. *)

\* GitHub sends the browser back with the nonce; the browser may send the
\* request again.  Without the same nonce in the cookie it changes nothing.
SendCallback(c, b) ==
  /\ calls[c].phase = "none" /\ \A d \in 1..(c - 1) : calls[d].phase # "none"
  /\ jar[b] # Absent
  /\ calls' = [calls EXCEPT ![c] = [phase |-> "sent", nonce |-> jar[b], by |-> b]]
  /\ UNCHANGED <<oauthStates, sessions, jar, reading, begun>>

Ended(c, phase) == calls' = [calls EXCEPT ![c].phase = phase]

\* The answer clears the cookie, whichever login wrote it last.
Cleared(c) == [jar EXCEPT ![calls[c].by] = Absent]

\* Mutant: the nonce stays until the session is opened.
TakeStateLate(c) ==
  /\ calls[c].phase = "sent"
  /\ UNCHANGED <<oauthStates, sessions, reading, begun>>
  /\ IF oauthStates[calls[c].nonce] # Absent /\ now <= oauthStates[calls[c].nonce]
     THEN Ended(c, "taken") /\ UNCHANGED jar
     ELSE Ended(c, "refused") /\ jar' = Cleared(c)

TakeState(c) ==
  /\ calls[c].phase = "sent"
  /\ oauthStates' = [oauthStates EXCEPT ![calls[c].nonce] = Absent]
  /\ UNCHANGED <<sessions, reading, begun>>
  /\ IF oauthStates[calls[c].nonce] # Absent /\ now <= oauthStates[calls[c].nonce]
     THEN Ended(c, "taken") /\ UNCHANGED jar
     ELSE Ended(c, "refused") /\ jar' = Cleared(c)

\* exchangeCode, fetchGitHubUser and allowedUser agree.
OpenSession(c) ==
  /\ calls[c].phase = "taken" /\ Ended(c, "opened")
  /\ sessions' = sessions \cup {c}
  /\ jar' = Cleared(c)
  /\ UNCHANGED <<oauthStates, reading, begun>>

\* One of them does not.
FailCallback(c) ==
  /\ calls[c].phase = "taken" /\ Ended(c, "failed")
  /\ jar' = Cleared(c)
  /\ UNCHANGED <<oauthStates, sessions, reading, begun>>

----------------------------------------------------------------------------
(* handleAuthLogout: a browser ends a session it has the cookie of *)

Logout(b) ==
  \E c \in sessions :
    /\ calls[c].by = b /\ sessions' = sessions \ {c}
    /\ UNCHANGED <<oauthStates, jar, reading, calls, begun>>

\* The process ends: maps and requests are gone, cookies stay.  Bound: once
\* after logins began.
LoginsLost ==
  /\ \A n \in Nonces : begun[n] # Absent => ~begun[n].lost
  /\ oauthStates' = [n \in Nonces |-> Absent]
  /\ sessions' = {}
  /\ reading' = [b \in Browsers |-> Absent]
  /\ calls' = [c \in Callbacks |-> IF calls[c].phase \in {"sent", "taken"}
                                   THEN [calls[c] EXCEPT !.phase = "failed"] ELSE calls[c]]
  /\ begun' = [n \in Nonces |-> IF begun[n] = Absent THEN Absent
                                ELSE [begun[n] EXCEPT !.lost = TRUE]]
  /\ UNCHANGED jar

LoginsNext ==
  \/ \E b \in Browsers : ReadClock(b) \/ Login(b) \/ RefuseLogin(b) \/ Logout(b)
  \/ \E c \in Callbacks : TakeState(c) \/ OpenSession(c) \/ FailCallback(c)
  \/ \E c \in Callbacks, b \in Browsers : SendCallback(c, b)

----------------------------------------------------------------------------
LoginsTypeOK ==
  /\ oauthStates \in [Nonces -> (0..Horizon + StateLife) \cup {Absent}]
  /\ reading \in [Browsers -> 0..now \cup {Absent}]
  /\ \A c \in sessions : calls[c].phase = "opened"

\* One login opens at most one session, whatever callbacks of it run at once.
OneSessionEach ==
  \A c, d \in Callbacks :
    c # d /\ calls[c].phase = "opened" /\ calls[d].phase = "opened"
      => calls[c].nonce # calls[d].nonce

\* A login that began in this process and is young enough is taken by its
\* first callback.
TakenIfYoung ==
  \A c \in Callbacks :
    calls[c].phase = "sent" /\ calls'[c].phase = "refused" =>
      \/ begun[calls[c].nonce].lost
      \/ now > begun[calls[c].nonce].at + StateLife
      \/ \E d \in Callbacks \ {c} :
           calls[d].nonce = calls[c].nonce /\ calls[d].phase \notin {"none", "sent"}

\* "too many login attempts" is answered only when that many logins began in
\* the time before: logins that were given up do not keep others out.
RefusedIfMany ==
  \A b \in Browsers :
    RefuseLogin(b) =>
      Cardinality({n \in Nonces : begun[n] # Absent /\ ~begun[n].lost
                                  /\ begun[n].at + StateLife >= reading[b]}) >= Cap

\* The three together.
LoginsHonest ==
  [][OneSessionEach' /\ TakenIfYoung /\ RefusedIfMany]_loginVars
=============================================================================
