---- MODULE EmptyBucket ----
(***************************************************************************)
(* emptyBucket (internal/resources/bucket/s3empty.go): the loop that lists *)
(* a bucket page by page and deletes each page, while other S3 clients     *)
(* store and delete objects.  Keys are numbers in listing order.  The      *)
(* continuation token is modelled by what it means to Garage: the last key *)
(* of the page before, after which the next page starts.                   *)
(***************************************************************************)
EXTENDS Integers, FiniteSets

CONSTANTS
    Keys,      \* the object keys, in listing order
    PageSize   \* how many keys a page holds

ASSUME KeysAssumption == Keys \subseteq Nat \ {0}
ASSUME PageSizeAssumption == PageSize \in Nat \ {0}

\* The fields of s3EmptyConfig; an empty one is missing.
ConfigFields == {"Endpoint", "AccessKey", "SecretKey"}

VARIABLES
    filled,   \* the fields of the configuration that are not empty
    named,    \* whether the bucket's name is not empty
    pc,       \* "start", "list", "delete" or "done"
    more,     \* the paginator's HasMorePages
    token,    \* the paginator's continuation token, 0 for none
    page,     \* the keys listed last
    objects,  \* the keys stored in the bucket
    result,   \* "none" until the call returns, then "ok" or "error"
    fresh,    \* history: the keys uploaded since the call began
    kept      \* history: the keys DeleteObjects answered an error for

vars == <<filled, named, pc, more, token, page, objects, result, fresh, kept>>

Init ==
    /\ filled \in SUBSET ConfigFields
    /\ named \in BOOLEAN
    /\ pc = "start"
    /\ more = TRUE
    /\ token = 0
    /\ page = {}
    /\ objects \in SUBSET Keys
    /\ IsFiniteSet(objects)
    /\ result = "none"
    /\ fresh = {}
    /\ kept = {}

Return(r) ==
    /\ pc' = "done"
    /\ result' = r

\* validate
Valid == filled = ConfigFields

\* The checks before the first request.
Validate ==
    /\ pc = "start"
    /\ IF Valid /\ named
       THEN pc' = "list" /\ UNCHANGED result
       ELSE Return("error")
    /\ UNCHANGED <<filled, named, more, token, page, objects, fresh, kept>>

\* The head of the loop: another page, or the end.
NextTurn(again) ==
    IF again THEN pc' = "list" /\ UNCHANGED result ELSE Return("ok")

\* The keys a listing sees after the token.
Ahead == {k \in objects : k > token}

\* A page is the first PageSize of them, or all when they are fewer.
IsPage(p) ==
    /\ p \subseteq Ahead
    /\ \A k \in p, q \in Ahead \ p : k < q
    /\ Cardinality(p) <= PageSize
    /\ p = Ahead \/ Cardinality(p) = PageSize

\* Mutants: a token that names the next key although the listing starts after
\* it; a paginator without a token, which starts over.
AdvancePast(p) ==
    /\ token' \in {k + 1 : k \in p \cup {token}}
    /\ \A k \in p : k < token'
StartOver(p) == token' = 0

\* The token moves to the last key of a page that is not the last.
Advance(p) ==
    IF p = Ahead
    THEN token' = 0
    ELSE token' \in p /\ \A k \in p : k <= token'

\* NextPage: an error ends the call; an empty page needs no delete.
ListObjects ==
    /\ pc = "list"
    /\ \/ /\ Return("error")
          /\ UNCHANGED <<more, token, page>>
       \/ \E p \in SUBSET objects :
            /\ IsPage(p)
            /\ page' = p
            /\ more' = (p # Ahead)
            /\ Advance(p)
            /\ IF p = {} THEN NextTurn(p # Ahead) ELSE pc' = "delete" /\ UNCHANGED result
    /\ UNCHANGED <<filled, named, objects, fresh, kept>>

\* DeleteObjects: an error, behind which some keys may be gone; or a 200,
\* with per-key errors in the body, which the code discards.
DeleteObjects ==
    /\ pc = "delete"
    /\ \E failed \in SUBSET page :
        /\ objects' = objects \ (page \ failed)
        /\ \/ Return("error") /\ UNCHANGED kept
           \/ NextTurn(more) /\ kept' = kept \cup failed
    /\ UNCHANGED <<filled, named, more, token, page, fresh>>

\* Other clients; their changes after the return do not matter here.
Upload ==
    /\ pc # "done"
    /\ \E k \in Keys :
        /\ objects' = objects \cup {k}
        /\ fresh' = fresh \cup {k}
    /\ UNCHANGED <<filled, named, pc, more, token, page, result, kept>>

DeleteElsewhere ==
    /\ pc # "done"
    /\ \E k \in objects : objects' = objects \ {k}
    /\ UNCHANGED <<filled, named, pc, more, token, page, result, fresh, kept>>

Step == Validate \/ ListObjects \/ DeleteObjects

Next == Step \/ Upload \/ DeleteElsewhere

Spec == Init /\ [][Next]_vars

----
(* Properties *)

\* Types of the state; the token always names a key.
TypeOK ==
    /\ filled \in SUBSET ConfigFields
    /\ named \in BOOLEAN
    /\ pc \in {"start", "list", "delete", "done"}
    /\ more \in BOOLEAN
    /\ token \in Keys \cup {0}
    /\ page \in SUBSET Keys
    /\ objects \in SUBSET Keys
    /\ result \in {"none", "ok", "error"}
    /\ fresh \in SUBSET Keys
    /\ kept \in SUBSET Keys

\* No key is skipped between two pages: at every turn of the loop, what is
\* left of the keys that were there when the call began lies ahead of the
\* token or in the page in hand, although the loop deletes the keys that the
\* earlier tokens were about and others upload behind it.
NothingSkipped ==
    \A k \in objects \ (fresh \cup kept) :
        \/ pc = "start"
        \/ pc = "list" /\ more /\ k > token
        \/ pc = "delete" /\ (k \in page \/ (more /\ k > token))
        \/ pc = "done" /\ result = "error"

\* No key is handed to DeleteObjects twice: each page lies ahead of the one
\* before, and no page comes twice in a row, so that a key the server refuses
\* to delete, or one uploaded again behind the token, cannot keep the loop
\* busy.
PagesMoveOn ==
    [][pc = "list" /\ pc' = "delete" => \A k \in page, next \in page' : k < next]_vars

\* The whole call keeps the promise of module Purge: success means that what
\* is left was uploaded meanwhile or kept by the server.
Emptying == INSTANCE Purge

PurgeSpec == Emptying!Spec

\* Every turn brings the loop a page nearer to its end, and nothing but an
\* upload ahead of the token moves the end away (module PageLoop): deletions,
\* here or elsewhere, refused deletes and uploads behind the token do not.
\* The loop may still go on for ever, while others store a page in every turn.
Loop == INSTANCE PageLoop WITH
    ahead <- IF more THEN Cardinality(Ahead) ELSE 0

LoopSpec == Loop!Spec
====
