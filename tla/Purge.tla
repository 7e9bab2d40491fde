---- MODULE Purge ----
(***************************************************************************)
(* What a caller may assume of emptying a bucket, however many pages it    *)
(* takes: keys are removed only while the call runs, and when it reports   *)
(* success, whatever is left was uploaded after it began or was kept by    *)
(* the server against the request.  The two steps `list` and `purge` of    *)
(* module BucketResource are this specification with one page.             *)
(***************************************************************************)
EXTENDS Integers

CONSTANT Keys   \* the object keys

VARIABLES
    objects,  \* the keys stored in the bucket
    fresh,    \* the keys uploaded since the call began
    kept,     \* the keys the server did not delete although it was asked to
    result    \* "none" until the call returns, then "ok" or "error"

vars == <<objects, fresh, kept, result>>

Init ==
    /\ objects \in SUBSET Keys
    /\ fresh = {}
    /\ kept = {}
    /\ result = "none"

\* Some keys go, and the server keeps some of those it was asked to delete.
Remove ==
    /\ result = "none"
    /\ objects' \in SUBSET objects
    /\ kept' \in SUBSET Keys
    /\ kept \subseteq kept'
    /\ UNCHANGED <<fresh, result>>

\* The last step of the call may remove keys too.
Return ==
    /\ result = "none"
    /\ result' \in {"ok", "error"}
    /\ objects' \in SUBSET objects
    /\ kept' \in SUBSET Keys
    /\ kept \subseteq kept'
    /\ result' = "ok" => objects' \subseteq fresh \cup kept'
    /\ UNCHANGED fresh

\* Other clients store and delete objects at any time.
Upload ==
    /\ \E k \in Keys :
        /\ objects' = objects \cup {k}
        /\ fresh' = fresh \cup {k}
    /\ UNCHANGED <<kept, result>>

DeleteElsewhere ==
    /\ objects' \in SUBSET objects
    /\ UNCHANGED <<fresh, kept, result>>

Next == Remove \/ Return \/ Upload \/ DeleteElsewhere

Spec == Init /\ [][Next]_vars
====
