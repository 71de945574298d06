----------------------------- MODULE MCServices -----------------------------
(* Values for TLC. *)
EXTENDS Services

NamePrefixes == {Ids}

Answered == {[approved |-> TRUE, approver |-> "a"], [approved |-> FALSE, approver |-> "b"]}
=============================================================================
