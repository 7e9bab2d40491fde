---- MODULE PageLoop ----
(***************************************************************************)
(* What decides whether emptyBucket's loop                                 *)
(* (internal/resources/bucket/s3empty.go) ends: how many keys lie ahead of *)
(* the continuation token.  A turn takes a page of them away; keys stored  *)
(* ahead of the token add to them, without end, since there is always a    *)
(* name after the token's; what is stored, deleted or refused behind it    *)
(* does not count.  With no more uploads ahead, `ahead` bounds the turns   *)
(* that are left; an uploader that stores a page ahead in every turn keeps *)
(* the loop running for ever.                                              *)
(***************************************************************************)
EXTENDS Integers

CONSTANT PageSize   \* how many keys a page holds

VARIABLES
    pc,     \* "start", "list", "delete" or "done"
    more,   \* the paginator's HasMorePages
    ahead   \* the number of keys ahead of the token, 0 after the last page

vars == <<pc, more, ahead>>

Init ==
    /\ pc = "start"
    /\ more = TRUE
    /\ ahead \in Nat

Validate ==
    /\ pc = "start"
    /\ pc' \in {"list", "done"}
    /\ UNCHANGED <<more, ahead>>

\* What a page leaves ahead of the new token.
AfterPage == IF ahead > PageSize THEN ahead - PageSize ELSE 0

\* NextPage: an error, or a page; an empty one is the last.
ListObjects ==
    /\ pc = "list"
    /\ \/ pc' = "done" /\ UNCHANGED <<more, ahead>>
       \/ /\ ahead' = AfterPage
          /\ more' = (ahead > PageSize)
          /\ pc' = IF ahead = 0 THEN "done" ELSE "delete"

\* DeleteObjects: an error, or the next turn of the loop.
DeleteObjects ==
    /\ pc = "delete"
    /\ pc' \in {"done", IF more THEN "list" ELSE "done"}
    /\ UNCHANGED <<more, ahead>>

Step == Validate \/ ListObjects \/ DeleteObjects

\* Another client stores a key ahead of the token.
UploadAhead ==
    /\ pc # "done"
    /\ more
    /\ ahead' = ahead + 1
    /\ UNCHANGED <<pc, more>>

\* Another client deletes one.
DeleteAhead ==
    /\ pc # "done"
    /\ ahead > 0
    /\ ahead' = ahead - 1
    /\ UNCHANGED <<pc, more>>

Next == Step \/ UploadAhead \/ DeleteAhead

Spec == Init /\ [][Next]_vars
====
