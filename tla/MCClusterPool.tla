--------------------------- MODULE MCClusterPool ---------------------------
(* Small instances for model checking ClusterPool. *)
EXTENDS ClusterPool

CONSTANTS a, b, c   \* helm tests

Two   == {a, b}
Three == {a, b, c}

Allow(retry, age, fail, replay) ==
  [e \in Events |-> CASE e = "retry" -> retry [] e = "age" -> age
                      [] e = "fail" -> fail [] e = "replay" -> replay]

Calm     == Allow(0, 0, 0, 0)
Retried  == Allow(1, 0, 0, 0)
Aging    == Allow(1, 1, 1, 0)
Replayed == Allow(1, 1, 0, 1)
OneReplay == Allow(0, 0, 0, 1)
============================================================================
