---------------------------- MODULE ExclusiveUse ----------------------------
(***************************************************************************)
(* What a lock service promises its users, without saying how: a resource  *)
(* has one user at a time, and a user one resource.                        *)
(***************************************************************************)
CONSTANTS Users, Resources

VARIABLE inUse   \* the (user, resource) pairs of work in progress

Init == inUse = {}

Begin(u, r) ==
  /\ \A v \in Users : <<v, r>> \notin inUse
  /\ \A s \in Resources : <<u, s>> \notin inUse
  /\ inUse' = inUse \cup {<<u, r>>}

End(u, r) ==
  /\ <<u, r>> \in inUse
  /\ inUse' = inUse \ {<<u, r>>}

Next == \E u \in Users, r \in Resources : Begin(u, r) \/ End(u, r)

Spec == Init /\ [][Next]_inUse
=============================================================================
