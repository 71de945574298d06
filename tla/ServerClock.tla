---------------------------- MODULE ServerClock ----------------------------
(* The clock of the webhook server's process, up to a bound. *)
EXTENDS Naturals

CONSTANTS
  Horizon,  \* how far the clock goes
  Absent    \* nothing: no entry in a map, no header, no cookie

ASSUME ClockOK == Horizon \in Nat /\ Absent \notin Nat

VARIABLE now

Tick == now < Horizon /\ now' = now + 1
============================================================================
