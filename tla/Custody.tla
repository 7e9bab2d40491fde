---- MODULE Custody ----
(***************************************************************************)
(* Who answers for a bucket.  What an operator may assume of the           *)
(* garage_bucket handlers, whatever calls they are made of and whatever    *)
(* interrupts them: a new bucket goes to the block that asked for it; a    *)
(* bucket leaves a block's state only when it is gone; only its own block  *)
(* deletes it; a bucket that no block answers for has been reported lost,  *)
(* and can be taken up again by an import.                                 *)
(***************************************************************************)
EXTENDS Naturals

CONSTANTS
    Resources,  \* the garage_bucket blocks
    BucketIds,  \* the bucket ids
    NoBucket    \* none of them

VARIABLES
    live,    \* the buckets that exist
    made,    \* the bucket each block is creating, or NoBucket
    kept,    \* the bucket in each block's state, or NoBucket
    lost,    \* the buckets that exist and were reported lost
    drops    \* how many buckets others may still delete

vars == <<live, made, kept, lost, drops>>

Init ==
    /\ live = {}
    /\ made = [r \in Resources |-> NoBucket]
    /\ kept = [r \in Resources |-> NoBucket]
    /\ lost = {}
    /\ drops \in Nat

\* A bucket that no block answers for.
Free(b) == \A r \in Resources : made[r] # b /\ kept[r] # b

\* A block without a bucket.
Empty(r) == made[r] = NoBucket /\ kept[r] = NoBucket

\* A new bucket, for the block or, when nobody learns its id, for nobody.
Make(r, b) ==
    /\ Empty(r)
    /\ Free(b)
    /\ b \notin live
    /\ live' = live \cup {b}
    /\ \/ made' = [made EXCEPT ![r] = b] /\ UNCHANGED lost
       \/ lost' = lost \cup {b} /\ UNCHANGED made
    /\ UNCHANGED <<kept, drops>>

\* The new bucket enters the state.
Keep(r) ==
    /\ made[r] # NoBucket
    /\ kept' = [kept EXCEPT ![r] = made[r]]
    /\ made' = [made EXCEPT ![r] = NoBucket]
    /\ UNCHANGED <<live, lost, drops>>

\* The new bucket is given up: it is deleted, or reported lost.
GiveUp(r) ==
    /\ made[r] # NoBucket
    /\ made' = [made EXCEPT ![r] = NoBucket]
    /\ live' \in {live, live \ {made[r]}}
    /\ lost' = lost \cup ({made[r]} \cap live')
    /\ UNCHANGED <<kept, drops>>

\* A block deletes its bucket; the state may learn of it later.
Delete(r) ==
    /\ kept[r] \in live
    /\ live' = live \ {kept[r]}
    /\ kept' \in {kept, [kept EXCEPT ![r] = NoBucket]}
    /\ UNCHANGED <<made, lost, drops>>

\* The state learns that its bucket is gone.
Forget(r) ==
    /\ kept[r] \notin live
    /\ kept' = [kept EXCEPT ![r] = NoBucket]
    /\ UNCHANGED <<live, made, lost, drops>>

\* A lost bucket is imported.
Import(r, b) ==
    /\ Empty(r)
    /\ b \in lost
    /\ kept' = [kept EXCEPT ![r] = b]
    /\ lost' = lost \ {b}
    /\ UNCHANGED <<live, made, drops>>

\* Somebody else deletes a bucket.
Drop(b) ==
    /\ b \in live
    /\ drops > 0
    /\ drops' = drops - 1
    /\ live' = live \ {b}
    /\ lost' = lost \ {b}
    /\ UNCHANGED <<made, kept>>

Next ==
    \/ \E r \in Resources : Keep(r) \/ GiveUp(r) \/ Delete(r) \/ Forget(r)
    \/ \E r \in Resources, b \in BucketIds : Make(r, b) \/ Import(r, b)
    \/ \E b \in BucketIds : Drop(b)

Spec == Init /\ [][Next]_vars
====
