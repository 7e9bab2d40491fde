---- MODULE MCEmptyBucket ----
(* Values for the TLC run of EmptyBucket. *)
EXTENDS EmptyBucket

SomeKeys == 1..4
====
