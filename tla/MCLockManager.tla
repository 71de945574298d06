--------------------------- MODULE MCLockManager ---------------------------
(* Small instances of LockManager. *)
EXTENDS LockManager

CONSTANTS a, b, c, r1, r2, pool, none, admin

Named(r) == [resource |-> r, pool |-> none]
FromPool == [resource |-> none, pool |-> pool]

\* One pipeline with two locking steps, one that wants either resource and
\* one that competes for the first.
MixedScript ==
  a :> <<Named(r1), Named(r2)>> @@ b :> <<FromPool>> @@ c :> <<Named(r1)>>

\* Two steps of one pipeline that want different resources.
TwoSteps == a :> <<Named(r1), Named(r2)>> @@ b :> <<Named(r1)>> @@ c :> <<Named(r2)>>

\* Three pipelines after the same resource.
Contended == [x \in {a, b, c} |-> <<Named(r1)>>]

AllFromPool == [x \in {a, b, c} |-> <<FromPool>>]

BothResources == {[label |-> pool, resources |-> <<r1, r2>>]}

NoFaults   == [e \in Events |-> 0]
AnyOf(S)   == [e \in Events |-> IF e \in S THEN 1 ELSE 0]

Unreliable == AnyOf({"timeout", "lose", "terminate", "rerun", "register"})
Everything == AnyOf({"timeout", "rerun", "force"})
Slow       == AnyOf({"timeout"})
Operator   == AnyOf({"force"})
Pooled     == AnyOf({"register"})

\* The pools are registered, too.
RegisteredFirst ==
  PooledSpec /\ Progress /\ WF_vars(\E def \in PoolDefs : RegisterPool(def))
=============================================================================
