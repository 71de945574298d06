------------------------------ MODULE Services ------------------------------
(***************************************************************************)
(* The parts of the system that share no state with each other: the rate   *)
(* limiter, the logins, the registrations and the dashboard of the webhook *)
(* server, and the approval workflow.  A behaviour exercises one of them;  *)
(* the limiter and the logins live under the server's clock.               *)
(***************************************************************************)
EXTENDS RateLimiter, Logins, RepoFile, ApprovalGate, Dashboard

VARIABLE part

services == <<now, limiterVars, loginVars, repoVars, gateVars, dashVars, part>>

Init ==
  /\ part \in {"limiter", "logins", "store", "gate", "dashboard"} /\ now = 0
  /\ LimiterInit /\ LoginsInit /\ RepoInit /\ GateInit /\ DashInit

Limiter ==
  /\ part = "limiter" /\ UNCHANGED <<loginVars, repoVars, gateVars, dashVars, part>>
  /\ LimiterNext

LoginService ==
  /\ part = "logins" /\ UNCHANGED <<limiterVars, repoVars, gateVars, dashVars, part>>
  /\ \/ LoginsNext /\ UNCHANGED now
     \/ LoginsLost /\ UNCHANGED now
     \/ now < 2 * StateLife /\ Tick /\ UNCHANGED loginVars   \* bound

Store ==
  /\ part = "store" /\ UNCHANGED <<now, limiterVars, loginVars, gateVars, dashVars, part>>
  /\ RepoNext

Gate ==
  /\ part = "gate" /\ UNCHANGED <<now, limiterVars, loginVars, repoVars, dashVars, part>>
  /\ GateNext

Dash ==
  /\ part = "dashboard" /\ UNCHANGED <<now, limiterVars, loginVars, repoVars, gateVars, part>>
  /\ DashNext

Next == Limiter \/ LoginService \/ Store \/ Gate \/ Dash

Spec == Init /\ [][Next]_services

TypeOK == LimiterTypeOK /\ LoginsTypeOK /\ RepoTypeOK /\ GateTypeOK /\ DashTypeOK
=============================================================================
