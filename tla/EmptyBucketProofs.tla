---- MODULE EmptyBucketProofs ----
(***************************************************************************)
(* The properties of the emptying loop, and the proof that it implements   *)
(* Purge, for every set of keys and every page size.                       *)
(***************************************************************************)
EXTENDS EmptyBucket, FiniteSetTheorems, TLAPS

\* The call has a result exactly when it has returned.
ReturnedOnce == pc = "done" <=> result # "none"

\* The paginator starts with a page ahead and without a token.
Unlisted == pc = "start" => more /\ token = 0

Inv == TypeOK /\ ReturnedOnce /\ Unlisted /\ NothingSkipped

\* The invariant holds at the start.
LEMMA InitInv == Init => Inv
BY DEF Init, Inv, TypeOK, ReturnedOnce, Unlisted, NothingSkipped

\* The checks before the first request keep it.
LEMMA ValidateInv == Inv /\ Validate => Inv'
<1> SUFFICES ASSUME Inv, Validate PROVE Inv'
  OBVIOUS
<1>1. /\ pc = "start" /\ token = 0 /\ more
      /\ \/ pc' = "list" /\ UNCHANGED result
         \/ pc' = "done" /\ result' = "error"
      /\ UNCHANGED <<filled, named, more, token, page, objects, fresh, kept>>
  BY DEF Inv, Unlisted, Validate, Return
<1>2. TypeOK' /\ ReturnedOnce' /\ Unlisted'
  BY <1>1 DEF Inv, TypeOK, ReturnedOnce, Unlisted
<1>3. \A k \in objects : k > 0
  BY KeysAssumption DEF Inv, TypeOK
<1>4. NothingSkipped'
  BY <1>1, <1>3 DEF NothingSkipped
<1> QED
  BY <1>2, <1>4 DEF Inv

\* What a listing leaves behind: the keys ahead of the token are in the page
\* or ahead of the next token.
LEMMA PageFacts ==
    ASSUME Inv, NEW p \in SUBSET objects, IsPage(p), Advance(p)
    PROVE  /\ token' \in Keys \cup {0}
           /\ \A k \in Ahead \ p : p # Ahead /\ k > token'
<1>1. p \subseteq Keys
  BY DEF Inv, TypeOK
<1>2. token' \in Keys \cup {0}
  BY <1>1 DEF Advance
<1> QED
  BY <1>2 DEF IsPage, Advance, Ahead

\* A listing keeps the invariant.
LEMMA ListInv == Inv /\ ListObjects => Inv'
<1> SUFFICES ASSUME Inv, ListObjects PROVE Inv'
  OBVIOUS
<1>1. /\ pc = "list"
      /\ UNCHANGED <<filled, named, objects, fresh, kept>>
  BY DEF ListObjects
<1>2. CASE Return("error") /\ UNCHANGED <<more, token, page>>
  BY <1>1, <1>2 DEF Inv, TypeOK, ReturnedOnce, Unlisted, NothingSkipped, Return
<1>3. CASE \E p \in SUBSET objects :
            /\ IsPage(p)
            /\ page' = p
            /\ more' = (p # Ahead)
            /\ Advance(p)
            /\ IF p = {} THEN NextTurn(p # Ahead) ELSE pc' = "delete" /\ UNCHANGED result
  <2>1. PICK p \in SUBSET objects :
            /\ IsPage(p)
            /\ page' = p
            /\ more' = (p # Ahead)
            /\ Advance(p)
            /\ IF p = {} THEN NextTurn(p # Ahead) ELSE pc' = "delete" /\ UNCHANGED result
    BY <1>3
  <2>2. /\ token' \in Keys \cup {0}
        /\ \A k \in Ahead \ p : p # Ahead /\ k > token'
    BY <2>1, PageFacts
  <2>3. \/ pc' = "list" /\ p # Ahead /\ UNCHANGED result
        \/ pc' = "done" /\ p = Ahead /\ p = {} /\ result' = "ok"
        \/ pc' = "delete" /\ UNCHANGED result
    BY <2>1 DEF NextTurn, Return
  <2>4. TypeOK' /\ ReturnedOnce' /\ Unlisted'
    BY <1>1, <2>1, <2>2, <2>3 DEF Inv, TypeOK, ReturnedOnce, Unlisted
  <2>5. \A k \in objects \ (fresh \cup kept) : k \in Ahead
    BY <1>1 DEF Inv, NothingSkipped, Ahead
  <2>6. NothingSkipped'
    <3> SUFFICES ASSUME NEW k \in objects \ (fresh \cup kept)
                 PROVE  \/ pc' = "list" /\ more' /\ k > token'
                        \/ pc' = "delete" /\ (k \in page' \/ (more' /\ k > token'))
      BY <1>1 DEF NothingSkipped
    <3>1. k \in Ahead
      BY <2>5
    <3>2. k \in p \/ (p # Ahead /\ k > token')
      BY <2>2, <3>1
    <3>3. CASE pc' = "delete"
      BY <2>1, <3>2, <3>3
    <3>4. CASE pc' # "delete"
      BY <2>1, <2>3, <3>1, <3>2, <3>4
    <3> QED
      BY <3>3, <3>4
  <2> QED
    BY <2>4, <2>6 DEF Inv
<1> QED
  BY <1>2, <1>3 DEF ListObjects

\* What a deletion does: the keys of the page go, except those it keeps.
LEMMA DeleteInv == Inv /\ DeleteObjects => Inv'
<1> SUFFICES ASSUME Inv, DeleteObjects PROVE Inv'
  OBVIOUS
<1>1. PICK failed \in SUBSET page :
        /\ objects' = objects \ (page \ failed)
        /\ \/ Return("error") /\ UNCHANGED kept
           \/ NextTurn(more) /\ kept' = kept \cup failed
  BY DEF DeleteObjects
<1>2. pc = "delete" /\ UNCHANGED <<filled, named, more, token, page, fresh>>
  BY DEF DeleteObjects
<1>3. kept' \in SUBSET Keys /\ objects' \in SUBSET Keys
  BY <1>1 DEF Inv, TypeOK
<1>4. \/ pc' = "done" /\ result' = "error"
      \/ pc' = "done" /\ result' = "ok" /\ ~more /\ kept' = kept \cup failed
      \/ pc' = "list" /\ more /\ UNCHANGED result /\ kept' = kept \cup failed
  BY <1>1 DEF NextTurn, Return
<1>5. TypeOK' /\ ReturnedOnce' /\ Unlisted'
  BY <1>2, <1>3, <1>4 DEF Inv, TypeOK, ReturnedOnce, Unlisted
<1>6. NothingSkipped'
  BY <1>1, <1>2, <1>4 DEF Inv, NothingSkipped
<1> QED
  BY <1>5, <1>6 DEF Inv

\* Nor do the other clients break it.
LEMMA OthersInv == Inv /\ (Upload \/ DeleteElsewhere) => Inv'
<1> SUFFICES ASSUME Inv, Upload \/ DeleteElsewhere PROVE Inv'
  OBVIOUS
<1>1. CASE Upload
  BY <1>1 DEF Upload, Inv, TypeOK, ReturnedOnce, Unlisted, NothingSkipped
<1>2. CASE DeleteElsewhere
  BY <1>2 DEF DeleteElsewhere, Inv, TypeOK, ReturnedOnce, Unlisted, NothingSkipped
<1> QED
  BY <1>1, <1>2

\* Every step keeps the invariant.
LEMMA NextInv == Inv /\ [Next]_vars => Inv'
<1> SUFFICES ASSUME Inv, [Next]_vars PROVE Inv'
  OBVIOUS
<1>1. CASE UNCHANGED vars
  BY <1>1 DEF vars, Inv, TypeOK, ReturnedOnce, Unlisted, NothingSkipped
<1>2. CASE Next
  BY <1>2, ValidateInv, ListInv, DeleteInv, OthersInv DEF Next, Step
<1> QED
  BY <1>1, <1>2

\* The inductive invariant of the loop.
THEOREM Invariance == Spec => []Inv
BY InitInv, NextInv, PTL DEF Spec

\* The variables keep their types.
THEOREM Typed == Spec => []TypeOK
<1>1. Inv => TypeOK
  BY DEF Inv
<1> QED
  BY <1>1, Invariance, PTL

\* No key is skipped between two pages, whatever the page size, although the
\* loop deletes the keys its own tokens name.
THEOREM NoKeySkipped == Spec => []NothingSkipped
<1>1. Inv => NothingSkipped
  BY DEF Inv
<1> QED
  BY <1>1, Invariance, PTL

----
(* The pages *)

\* While another page may follow, the page in hand lies behind the token.
Behind ==
    /\ pc = "start" => page = {}
    /\ pc = "list" \/ (pc = "delete" /\ more) => \A k \in page : k <= token

\* A step changes the page only by listing another.
LEMMA OnlyListings ==
    ASSUME [Next]_vars
    PROVE  \/ ListObjects
           \/ /\ UNCHANGED page
              /\ \/ UNCHANGED <<pc, more, token>>
                 \/ pc = "start" /\ UNCHANGED <<more, token>>
                 \/ pc = "delete" /\ (pc' = "done" \/ (pc' = "list" /\ more)) /\ UNCHANGED <<more, token>>
BY DEF Next, Step, Validate, DeleteObjects, Upload, DeleteElsewhere, Return, NextTurn, vars

\* A page that is listed lies ahead of the old token, and behind the new one
\* unless it is the last.
LEMMA ListedPage ==
    ASSUME Inv, ListObjects
    PROVE  \/ pc' = "done" /\ UNCHANGED page
           \/ /\ \A k \in page' : k \in Keys /\ k > token
              /\ more' => \A k \in page' : k <= token'
              /\ pc' = "list" => more'
<1>1. CASE Return("error") /\ UNCHANGED <<more, token, page>>
  BY <1>1 DEF Return
<1>2. CASE \E p \in SUBSET objects :
            /\ IsPage(p)
            /\ page' = p
            /\ more' = (p # Ahead)
            /\ Advance(p)
            /\ IF p = {} THEN NextTurn(p # Ahead) ELSE pc' = "delete" /\ UNCHANGED result
  <2>1. PICK p \in SUBSET objects :
            /\ IsPage(p)
            /\ page' = p
            /\ more' = (p # Ahead)
            /\ Advance(p)
            /\ IF p = {} THEN NextTurn(p # Ahead) ELSE pc' = "delete" /\ UNCHANGED result
    BY <1>2
  <2>2. \A k \in p : k \in Keys /\ k > token
    BY <2>1 DEF IsPage, Ahead, Inv, TypeOK
  <2>3. p # Ahead => \A k \in p : k <= token'
    BY <2>1 DEF Advance
  <2>4. pc' = "list" => p # Ahead
    BY <2>1 DEF NextTurn, Return
  <2> QED
    BY <2>1, <2>2, <2>3, <2>4
<1> QED
  BY <1>1, <1>2 DEF ListObjects

\* Every step keeps Behind.
LEMMA NextBehind == Inv /\ Inv' /\ Behind /\ [Next]_vars => Behind'
<1> SUFFICES ASSUME Inv, Inv', Behind, [Next]_vars PROVE Behind'
  OBVIOUS
<1>1. CASE ListObjects
  BY <1>1, ListedPage DEF Behind, ListObjects, Return, NextTurn
<1>2. CASE UNCHANGED page /\ ~ListObjects
  BY <1>2, OnlyListings DEF Behind
<1> QED
  BY <1>1, <1>2, OnlyListings

\* The loop never goes back nor lists a page twice (PagesMoveOn), for every
\* set of keys and every page size.
THEOREM PagesAdvance == Spec => PagesMoveOn
<1>1. Init => Behind
  BY DEF Init, Behind
<1>2. Inv /\ Behind /\ [Next]_vars =>
        [pc = "list" /\ pc' = "delete" => \A k \in page, next \in page' : k < next]_vars
  <2> SUFFICES ASSUME Inv, Behind, [Next]_vars, pc = "list", pc' = "delete",
                      NEW k \in page, NEW next \in page'
               PROVE  k < next
    OBVIOUS
  <2>1. ListObjects
    BY OnlyListings
  <2>2. next \in Keys /\ next > token
    BY <2>1, ListedPage
  <2>3. k \in Keys /\ k <= token /\ token \in Nat
    BY <2>1, KeysAssumption DEF ListObjects, Behind, Inv, TypeOK
  <2> QED
    BY <2>2, <2>3, KeysAssumption
<1> QED
  BY <1>1, <1>2, NextBehind, Invariance, PTL DEF Spec, PagesMoveOn

----
(* Refinement *)

\* The call starts as Purge does.
LEMMA InitMaps == Init => Emptying!Init
BY DEF Init, Emptying!Init

\* A return of the loop is Purge's; success needs the invariant.
LEMMA ReturnMaps ==
    ASSUME Inv, Inv', result = "none", pc' = "done",
           objects' \in SUBSET objects, kept \subseteq kept', UNCHANGED fresh
    PROVE  Emptying!Return
<1>1. result' \in {"ok", "error"}
  BY DEF Inv, TypeOK, ReturnedOnce
<1>2. kept' \in SUBSET Keys
  BY DEF Inv, TypeOK
<1>3. result' = "ok" => objects' \subseteq fresh \cup kept'
  BY DEF Inv, NothingSkipped
<1> QED
  BY <1>1, <1>2, <1>3 DEF Emptying!Return

\* A turn of the loop that does not end it removes keys at most.
LEMMA TurnMaps ==
    ASSUME Inv, Inv', Step
    PROVE  Emptying!Remove \/ Emptying!Return
<1>1. /\ result = "none"
      /\ objects' \in SUBSET objects
      /\ kept \subseteq kept'
      /\ UNCHANGED fresh
  BY DEF Step, Validate, ListObjects, DeleteObjects, Return, NextTurn, Inv, TypeOK, ReturnedOnce
<1>2. kept' \in SUBSET Keys
  BY DEF Inv, TypeOK
<1>3. CASE pc' = "done"
  BY <1>1, <1>3, ReturnMaps
<1>4. CASE pc' # "done"
  <2>1. UNCHANGED result
    BY <1>1, <1>4 DEF Inv, ReturnedOnce
  <2> QED
    BY <1>1, <1>2, <2>1 DEF Emptying!Remove
<1> QED
  BY <1>3, <1>4

\* Every step of the loop is one of Purge's, or invisible.
LEMMA NextMaps == Inv /\ Inv' /\ [Next]_vars => [Emptying!Next]_Emptying!vars
<1> SUFFICES ASSUME Inv, Inv', [Next]_vars PROVE [Emptying!Next]_Emptying!vars
  OBVIOUS
<1>1. CASE Step
  BY <1>1, TurnMaps DEF Emptying!Next
<1>2. CASE Upload
  BY <1>2 DEF Upload, Emptying!Upload, Emptying!Next
<1>3. CASE DeleteElsewhere
  BY <1>3 DEF DeleteElsewhere, Emptying!DeleteElsewhere, Emptying!Next
<1>4. CASE UNCHANGED vars
  BY <1>4 DEF vars, Emptying!vars
<1> QED
  BY <1>1, <1>2, <1>3, <1>4 DEF Next

\* The loop over the pages keeps the promise of Purge.
THEOREM ImplementsPurge == Spec => PurgeSpec
BY InitMaps, NextMaps, Invariance, PTL DEF Spec, PurgeSpec, Emptying!Spec

----
(* Progress *)

\* A bucket holds finitely many keys, whatever the key space, and the loop
\* lists only while the paginator has pages.
Finite ==
    /\ IsFiniteSet(objects)
    /\ pc \in {"start", "list"} => more

\* The number of keys ahead of the token, as PageLoop sees it.
left == IF more THEN Cardinality(Ahead) ELSE 0

\* It is the same whenever the keys, the token and HasMorePages are.
LEMMA SameLeft ==
    ASSUME Ahead' = Ahead, more' = more
    PROVE  left' = left
BY DEF left

\* It is a number.
LEMMA LeftCounts ==
    ASSUME Finite
    PROVE  IsFiniteSet(Ahead) /\ Cardinality(Ahead) \in Nat /\ left \in Nat
<1>1. Ahead \in SUBSET objects
  BY DEF Ahead
<1>2. IsFiniteSet(Ahead)
  BY <1>1, FS_Subset DEF Finite
<1>3. Cardinality(Ahead) \in Nat
  BY <1>2, FS_CardinalityType
<1> QED
  BY <1>2, <1>3 DEF left

\* Every step keeps the bucket finite.
LEMMA NextFinite == Finite /\ [Next]_vars => Finite'
<1> SUFFICES ASSUME Finite, [Next]_vars PROVE Finite'
  OBVIOUS
<1>1. \/ objects' \in SUBSET objects
      \/ \E k \in Keys : objects' = objects \cup {k}
  BY DEF Next, Step, Validate, ListObjects, DeleteObjects, Upload, DeleteElsewhere, vars
<1>2. IsFiniteSet(objects')
  BY <1>1, FS_Subset, FS_AddElement DEF Finite
<1>3. pc' \in {"start", "list"} => more'
  BY DEF Finite, Next, Step, Validate, ListObjects, DeleteObjects, Upload,
         DeleteElsewhere, Return, NextTurn, vars
<1> QED
  BY <1>2, <1>3 DEF Finite

\* A page that is not the last takes PageSize keys off those ahead.
LEMMA PageTaken ==
    ASSUME Inv, Finite, NEW p \in SUBSET objects, IsPage(p), Advance(p), p # Ahead,
           UNCHANGED objects
    PROVE  /\ Cardinality(Ahead) > PageSize
           /\ Cardinality(Ahead)' = Cardinality(Ahead) - PageSize
<1>1. /\ p \in SUBSET Ahead
      /\ Cardinality(p) = PageSize
  BY DEF IsPage
<1>2. /\ IsFiniteSet(Ahead)
      /\ Cardinality(Ahead) \in Nat
  BY LeftCounts
<1>3. Cardinality(Ahead) > PageSize
  <2>1. Cardinality(p) <= Cardinality(Ahead) /\ Cardinality(p) # Cardinality(Ahead)
    BY <1>1, <1>2, FS_Subset
  <2> QED
    BY <1>1, <1>2, <2>1, PageSizeAssumption
<1>4. Ahead' = Ahead \ p
  <2>1. token' \in p /\ \A k \in p : k <= token'
    BY DEF Advance
  <2>2. \A k \in Ahead \ p : token' < k
    BY <2>1 DEF IsPage
  <2>3. p \subseteq Nat /\ token \in Nat /\ token < token'
    BY <2>1, <1>1, KeysAssumption DEF Inv, TypeOK, Ahead
  <2>4. \A k \in objects : k \in Nat
    BY KeysAssumption DEF Inv, TypeOK
  <2>5. \A k \in objects : k > token' <=> k \in Ahead \ p
    BY <2>1, <2>2, <2>3, <2>4 DEF Ahead
  <2> QED
    BY <2>5 DEF Ahead
<1>5. Cardinality(Ahead \ p) = Cardinality(Ahead) - Cardinality(Ahead \cap p)
  BY <1>2, FS_Difference
<1>6. Ahead \cap p = p
  BY <1>1
<1> QED
  BY <1>1, <1>3, <1>4, <1>5, <1>6

\* The loop starts as PageLoop does.
LEMMA InitLoop == Init => Loop!Init
<1> SUFFICES ASSUME Init PROVE Loop!Init
  OBVIOUS
<1>1. Finite
  BY DEF Init, Finite
<1>2. left \in Nat
  BY <1>1, LeftCounts
<1> QED
  BY <1>2 DEF Init, Loop!Init, left

\* A listing takes a page off, or ends the call.
LEMMA ListLoops ==
    ASSUME Inv, Finite, ListObjects
    PROVE  Loop!ListObjects
<1>1. pc = "list" /\ more /\ UNCHANGED objects
  BY DEF ListObjects, Finite
<1>2. CASE Return("error") /\ UNCHANGED <<more, token, page>>
  <2>1. Ahead' = Ahead
    BY <1>1, <1>2 DEF Ahead
  <2>2. left' = left
    BY <1>2, <2>1, SameLeft
  <2> QED
    BY <1>1, <1>2, <2>2 DEF Return, Loop!ListObjects, left
<1>3. CASE \E p \in SUBSET objects :
            /\ IsPage(p)
            /\ page' = p
            /\ more' = (p # Ahead)
            /\ Advance(p)
            /\ IF p = {} THEN NextTurn(p # Ahead) ELSE pc' = "delete" /\ UNCHANGED result
  <2>1. PICK p \in SUBSET objects :
            /\ IsPage(p)
            /\ page' = p
            /\ more' = (p # Ahead)
            /\ Advance(p)
            /\ IF p = {} THEN NextTurn(p # Ahead) ELSE pc' = "delete" /\ UNCHANGED result
    BY <1>3
  <2>2. /\ Cardinality(Ahead) \in Nat
        /\ Cardinality(Ahead) = 0 <=> Ahead = {}
        /\ left = Cardinality(Ahead)
    BY <1>1, LeftCounts, FS_EmptySet DEF left
  <2>3. CASE p = Ahead
    <3>1. left <= PageSize /\ left' = 0 /\ more' = FALSE
      BY <2>1, <2>2, <2>3 DEF IsPage, left
    <3>2. pc' = IF left = 0 THEN "done" ELSE "delete"
      BY <2>1, <2>2, <2>3 DEF NextTurn, Return
    <3>3. left' = IF left > PageSize THEN left - PageSize ELSE 0
      BY <2>2, <3>1, PageSizeAssumption
    <3>4. more' = (left > PageSize)
      <4>1. (left > PageSize) = FALSE
        BY <2>2, <3>1, PageSizeAssumption
      <4> QED
        BY <3>1, <4>1, Zenon
    <3> QED
      BY <1>1, <3>2, <3>3, <3>4 DEF Loop!ListObjects, Loop!AfterPage, left
  <2>4. CASE p # Ahead
    <3>1. /\ left > PageSize
          /\ Cardinality(Ahead)' = left - PageSize
      BY <1>1, <2>1, <2>2, <2>4, PageTaken
    <3>2. more' = TRUE
      BY <2>1, <2>4
    <3>3. left' = left - PageSize
      BY <3>1, <3>2 DEF left
    <3>4. p # {}
      BY <2>1, <2>4, FS_EmptySet, PageSizeAssumption DEF IsPage
    <3>5. pc' = "delete" /\ left # 0
      BY <2>1, <2>2, <3>1, <3>4, PageSizeAssumption
    <3> QED
      BY <1>1, <3>1, <3>2, <3>3, <3>5 DEF Loop!ListObjects, Loop!AfterPage, left
  <2> QED
    BY <2>3, <2>4
<1> QED
  BY <1>2, <1>3 DEF ListObjects

\* A deletion leaves those ahead alone: the page lies behind the token.
LEMMA DeleteLoops ==
    ASSUME Inv, Behind, DeleteObjects
    PROVE  Loop!DeleteObjects
<1>1. PICK failed \in SUBSET page :
        /\ objects' = objects \ (page \ failed)
        /\ \/ Return("error") /\ UNCHANGED kept
           \/ NextTurn(more) /\ kept' = kept \cup failed
  BY DEF DeleteObjects
<1>2. pc = "delete" /\ UNCHANGED <<more, token>>
  BY DEF DeleteObjects
<1>3. pc' \in {"done", IF more THEN "list" ELSE "done"}
  BY <1>1 DEF Return, NextTurn
<1>4. left' = left
  <2>1. CASE ~more
    BY <1>2, <2>1 DEF left
  <2>2. CASE more
    <3>1. \A k \in page : k \in Nat /\ token \in Nat /\ k <= token
      BY <1>2, <2>2, KeysAssumption DEF Behind, Inv, TypeOK
    <3>2. \A k \in page : ~(k > token)
      BY <3>1
    <3>3. Ahead' = Ahead
      BY <1>1, <1>2, <3>2 DEF Ahead
    <3> QED
      BY <1>2, <3>3, SameLeft
  <2> QED
    BY <2>1, <2>2
<1> QED
  BY <1>2, <1>3, <1>4 DEF Loop!DeleteObjects, left

\* Of what others do, only keys ahead of the token count.
LEMMA OthersLoop ==
    ASSUME Inv, Finite, Upload \/ DeleteElsewhere
    PROVE  Loop!UploadAhead \/ Loop!DeleteAhead \/ UNCHANGED Loop!vars
<1>1. pc # "done" /\ UNCHANGED <<pc, more, token>>
  BY DEF Upload, DeleteElsewhere
<1>2. /\ IsFiniteSet(Ahead) /\ Cardinality(Ahead) \in Nat
      /\ more => left = Cardinality(Ahead)
  BY LeftCounts DEF left
<1>3. CASE ~more \/ Ahead' = Ahead
  <2>1. left' = left
    BY <1>1, <1>3 DEF left
  <2> QED
    BY <1>1, <2>1 DEF Loop!vars, left
<1>4. CASE more /\ Ahead' # Ahead
  <2>1. left' = Cardinality(Ahead)'
    BY <1>1, <1>4 DEF left
  <2>2. CASE Upload
    <3>1. PICK k \in Keys : objects' = objects \cup {k}
      BY <2>2 DEF Upload
    <3>2. Ahead' = Ahead \cup {k} /\ k \notin Ahead
      BY <1>1, <1>4, <3>1 DEF Ahead
    <3>3. left' = left + 1 /\ left + 1 \in Nat
      <4>1. Cardinality(Ahead \cup {k}) = Cardinality(Ahead) + 1
        BY <1>2, <3>2, FS_AddElement
      <4> QED
        BY <1>2, <1>4, <2>1, <3>2, <4>1
    <3> QED
      BY <1>1, <1>4, <3>3 DEF Loop!UploadAhead, left
  <2>3. CASE DeleteElsewhere
    <3>1. PICK k \in objects : objects' = objects \ {k}
      BY <2>3 DEF DeleteElsewhere
    <3>2. Ahead' = Ahead \ {k} /\ k \in Ahead
      BY <1>1, <1>4, <3>1 DEF Ahead
    <3>3. left > 0 /\ left' = left - 1
      <4>1. Cardinality(Ahead) # 0
        BY <1>2, <3>2, FS_EmptySet
      <4>2. Cardinality(Ahead \ {k}) = Cardinality(Ahead) - 1
        BY <1>2, <3>2, FS_RemoveElement
      <4> QED
        BY <1>2, <1>4, <2>1, <3>2, <4>1, <4>2
    <3> QED
      BY <1>1, <3>3 DEF Loop!DeleteAhead, left
  <2> QED
    BY <2>2, <2>3
<1> QED
  BY <1>3, <1>4

\* Every step of the loop itself is one of PageLoop's, and a visible one.
LEMMA StepLoops ==
    ASSUME Inv, Finite, Behind, Step
    PROVE  Loop!Step /\ pc' # pc
<1>1. CASE Validate
  <2>1. /\ pc = "start" /\ pc' \in {"list", "done"}
        /\ UNCHANGED <<more, token, objects>>
    BY <1>1 DEF Validate, Return
  <2>2. Ahead' = Ahead
    BY <2>1 DEF Ahead
  <2>3. left' = left
    BY <2>1, <2>2, SameLeft
  <2> QED
    BY <2>1, <2>3 DEF Loop!Validate, Loop!Step, left
<1>2. CASE ListObjects
  <2>1. Loop!ListObjects
    BY <1>2, ListLoops
  <2> QED
    BY <2>1 DEF Loop!ListObjects, Loop!Step
<1>3. CASE DeleteObjects
  <2>1. Loop!DeleteObjects
    BY <1>3, DeleteLoops
  <2> QED
    BY <2>1 DEF Loop!DeleteObjects, Loop!Step
<1> QED
  BY <1>1, <1>2, <1>3 DEF Step

\* Every step is one of PageLoop's, or invisible.
LEMMA NextLoops == Inv /\ Finite /\ Behind /\ [Next]_vars => [Loop!Next]_Loop!vars
<1> SUFFICES ASSUME Inv, Finite, Behind, [Next]_vars PROVE [Loop!Next]_Loop!vars
  OBVIOUS
<1>1. CASE Step
  BY <1>1, StepLoops DEF Loop!Next
<1>2. CASE Upload \/ DeleteElsewhere
  BY <1>2, OthersLoop DEF Loop!Next
<1>3. CASE UNCHANGED vars
  <2>1. Ahead' = Ahead
    BY <1>3 DEF vars, Ahead
  <2>2. left' = left
    BY <1>3, <2>1, SameLeft DEF vars
  <2> QED
    BY <1>3, <2>2 DEF vars, Loop!vars, left
<1> QED
  BY <1>1, <1>2, <1>3 DEF Next

\* Every turn brings the end a page nearer, and only uploads ahead of the
\* token move it away, for any key space, endless ones included.
THEOREM ImplementsPageLoop == Spec => LoopSpec
<1>1. Init => Behind /\ Finite
  BY DEF Init, Behind, Finite
<1> QED
  BY <1>1, InitLoop, NextFinite, NextBehind, NextLoops, Invariance, PTL
     DEF Spec, LoopSpec, Loop!Spec
====
