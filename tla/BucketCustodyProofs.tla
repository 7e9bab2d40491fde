---- MODULE BucketCustodyProofs ----
(***************************************************************************)
(* The handlers of BucketResource implement the bucket's life cycle of     *)
(* module Custody, for any number of blocks and buckets: each call is one  *)
(* step of it, or none.                                                    *)
(***************************************************************************)
EXTENDS BucketApplyProofs

\* The refinement mapping, by blocks.
MadeBy(h) == IF h.pc \in CreatePcs THEN h.id ELSE NoBucket
KeptIn(st) == IF st = NoState THEN NoBucket ELSE st.id

Made == [r \in Resources |-> MadeBy(op[r])]
Kept == [r \in Resources |-> KeptIn(tf[r])]

Custodial == [Custodian!Next]_Custodian!vars

----
(* The steps of Custody, through the mapping *)

\* A step that is none of Custody's.
LEMMA NoStep ==
    ASSUME UNCHANGED <<live, known, Made, Kept>>, left'["bucketDrift"] = left["bucketDrift"]
    PROVE  Custodial
BY DEF Custodial, Custodian!vars, Made, Kept, MadeBy, KeptIn

\* A new bucket, in the hands of its block or lost.
LEMMA MakeStep ==
    ASSUME NEW r \in Resources, NEW b \in BucketIds,
           Made[r] = NoBucket, Kept[r] = NoBucket, b \notin live,
           \A s \in Resources : Made[s] # b /\ Kept[s] # b,
           live' = live \cup {b},
           \/ Made' = [Made EXCEPT ![r] = b] /\ UNCHANGED known
           \/ known' = known \cup {b} /\ UNCHANGED Made,
           UNCHANGED Kept, left'["bucketDrift"] = left["bucketDrift"]
    PROVE  Custodial
<1>1. Custodian!Make(r, b)
  BY DEF Custodian!Make, Custodian!Empty, Custodian!Free, Made, Kept, MadeBy, KeptIn
<1> QED
  BY <1>1 DEF Custodial, Custodian!Next

\* The new bucket enters the state.
LEMMA KeepStep ==
    ASSUME NEW r \in Resources, Made[r] # NoBucket,
           Kept' = [Kept EXCEPT ![r] = Made[r]],
           Made' = [Made EXCEPT ![r] = NoBucket],
           UNCHANGED <<live, known>>, left'["bucketDrift"] = left["bucketDrift"]
    PROVE  Custodial
<1>1. Custodian!Keep(r)
  BY DEF Custodian!Keep, Made, Kept, MadeBy, KeptIn
<1> QED
  BY <1>1 DEF Custodial, Custodian!Next

\* The new bucket is given up.
LEMMA GiveUpStep ==
    ASSUME NEW r \in Resources, Made[r] # NoBucket,
           Made' = [Made EXCEPT ![r] = NoBucket],
           live' \in {live, live \ {Made[r]}},
           known' = known \cup ({Made[r]} \cap live'),
           UNCHANGED Kept, left'["bucketDrift"] = left["bucketDrift"]
    PROVE  Custodial
<1>1. Custodian!GiveUp(r)
  BY DEF Custodian!GiveUp, Made, Kept, MadeBy, KeptIn
<1> QED
  BY <1>1 DEF Custodial, Custodian!Next

\* A block's bucket is deleted by the block.
LEMMA DeleteStep ==
    ASSUME NEW r \in Resources, Kept[r] \in live,
           live' = live \ {Kept[r]},
           Kept' \in {Kept, [Kept EXCEPT ![r] = NoBucket]},
           UNCHANGED <<Made, known>>, left'["bucketDrift"] = left["bucketDrift"]
    PROVE  Custodial
<1>1. Custodian!Delete(r)
  BY DEF Custodian!Delete, Made, Kept, MadeBy, KeptIn
<1> QED
  BY <1>1 DEF Custodial, Custodian!Next

\* A state entry whose bucket is gone is dropped.
LEMMA ForgetsStep ==
    ASSUME NEW r \in Resources, Kept[r] \notin live,
           Kept' = [Kept EXCEPT ![r] = NoBucket],
           UNCHANGED <<live, Made, known>>, left'["bucketDrift"] = left["bucketDrift"]
    PROVE  Custodial
<1>1. Custodian!Forget(r)
  BY DEF Custodian!Forget, Made, Kept, MadeBy, KeptIn
<1> QED
  BY <1>1 DEF Custodial, Custodian!Next

\* A lost bucket enters a state.
LEMMA ImportStep ==
    ASSUME NEW r \in Resources, NEW b \in BucketIds,
           Made[r] = NoBucket, Kept[r] = NoBucket, b \in known,
           Kept' = [Kept EXCEPT ![r] = b], known' = known \ {b},
           UNCHANGED <<live, Made>>, left'["bucketDrift"] = left["bucketDrift"]
    PROVE  Custodial
<1>1. Custodian!Import(r, b)
  BY DEF Custodian!Import, Custodian!Empty, Made, Kept, MadeBy, KeptIn
<1> QED
  BY <1>1 DEF Custodial, Custodian!Next

\* Somebody else deletes a bucket.
LEMMA DropStep ==
    ASSUME NEW b \in BucketIds, b \in live,
           left["bucketDrift"] > 0, left'["bucketDrift"] = left["bucketDrift"] - 1,
           live' = live \ {b}, known' = known \ {b},
           UNCHANGED <<Made, Kept>>
    PROVE  Custodial
<1>1. Custodian!Drop(b)
  BY DEF Custodian!Drop, Made, Kept, MadeBy, KeptIn
<1> QED
  BY <1>1 DEF Custodial, Custodian!Next

----
(* The steps of one block *)

\* What a step of block r does to the mapping.
LEMMA OneBlock ==
    ASSUME Inv, NEW r \in Resources,
           NEW h, op' = [op EXCEPT ![r] = h],
           NEW st, tf' = [tf EXCEPT ![r] = st]
    PROVE  /\ Made' = [Made EXCEPT ![r] = MadeBy(h)]
           /\ Kept' = [Kept EXCEPT ![r] = KeptIn(st)]
<1>1. op \in [Resources -> Handlers] /\ tf \in [Resources -> States \cup {NoState}]
  BY DEF Inv, TypeOK
<1>2. \A s \in Resources : op'[s] = IF s = r THEN h ELSE op[s]
  BY <1>1
<1>3. \A s \in Resources : tf'[s] = IF s = r THEN st ELSE tf[s]
  BY <1>1
<1>4. Made' = [s \in Resources |-> IF s = r THEN MadeBy(h) ELSE MadeBy(op[s])]
  BY <1>2 DEF Made, MadeBy
<1>5. Kept' = [s \in Resources |-> IF s = r THEN KeptIn(st) ELSE KeptIn(tf[s])]
  BY <1>3 DEF Kept, KeptIn
<1> QED
  BY <1>4, <1>5 DEF Made, Kept

\* The mapping and what a block holds.
LEMMA MapFacts ==
    ASSUME Inv, NEW r \in Resources
    PROVE  /\ Made[r] = MadeBy(op[r]) /\ Kept[r] = KeptIn(tf[r])
           /\ Made = [Made EXCEPT ![r] = MadeBy(op[r])]
           /\ Kept = [Kept EXCEPT ![r] = KeptIn(tf[r])]
           /\ \A b \in BucketIds : Made[r] = b \/ Kept[r] = b => Holds(r, b)
<1>1. Made[r] = MadeBy(op[r]) /\ Kept[r] = KeptIn(tf[r])
  BY DEF Made, Kept
<1>2. Made = [Made EXCEPT ![r] = Made[r]] /\ Kept = [Kept EXCEPT ![r] = Kept[r]]
  BY DEF Made, Kept
<1>3. \A b \in BucketIds : Made[r] = b \/ Kept[r] = b => Holds(r, b)
  BY <1>1, NoBucketAssumption DEF MadeBy, KeptIn, Holds, CreatedBy
<1> QED
  BY <1>1, <1>2, <1>3

\* A step that concerns the state entry of block r alone.
LEMMA StateOnly ==
    ASSUME Inv, NEW r \in Resources, UNCHANGED op,
           NEW st, tf' = [tf EXCEPT ![r] = st]
    PROVE  Made' = Made /\ Kept' = [Kept EXCEPT ![r] = KeptIn(st)]
<1>1. op' = [op EXCEPT ![r] = op[r]]
  BY DEF Inv, TypeOK
<1>2. Kept' = [Kept EXCEPT ![r] = KeptIn(st)]
  BY <1>1, OneBlock
<1>3. Made' = Made
  BY DEF Made, MadeBy
<1> QED
  BY <1>2, <1>3

\* A step that concerns the handler of block r alone.
LEMMA HandlerOnly ==
    ASSUME Inv, NEW r \in Resources, UNCHANGED tf,
           NEW h, op' = [op EXCEPT ![r] = h]
    PROVE  Kept' = Kept /\ Made' = [Made EXCEPT ![r] = MadeBy(h)]
<1>1. tf' = [tf EXCEPT ![r] = tf[r]]
  BY DEF Inv, TypeOK
<1>2. Made' = [Made EXCEPT ![r] = MadeBy(h)]
  BY <1>1, OneBlock
<1>3. Kept' = Kept
  BY DEF Kept, KeptIn
<1> QED
  BY <1>2, <1>3

\* A step of block r that goes on with the same bucket.
LEMMA SameBucketStep ==
    ASSUME Inv, NEW r \in Resources,
           NEW h, op' = [op EXCEPT ![r] = h], MadeBy(h) = MadeBy(op[r]),
           NEW st, tf' = [tf EXCEPT ![r] = st], KeptIn(st) = KeptIn(tf[r]),
           UNCHANGED <<live, known>>, left'["bucketDrift"] = left["bucketDrift"]
    PROVE  Custodial
<1>1. Made' = [Made EXCEPT ![r] = MadeBy(h)] /\ Kept' = [Kept EXCEPT ![r] = KeptIn(st)]
  BY OneBlock
<1>2. /\ Made = [Made EXCEPT ![r] = MadeBy(op[r])]
      /\ Kept = [Kept EXCEPT ![r] = KeptIn(tf[r])]
  BY MapFacts
<1>3. Made' = Made /\ Kept' = Kept
  BY <1>1, <1>2
<1> QED
  BY <1>3, NoStep

\* The same for a step that leaves the state entry alone.
LEMMA HandlerOnlyStep ==
    ASSUME Inv, NEW r \in Resources,
           NEW h, op' = [op EXCEPT ![r] = h], MadeBy(h) = MadeBy(op[r]),
           UNCHANGED <<tf, live, known>>, left'["bucketDrift"] = left["bucketDrift"]
    PROVE  Custodial
<1>1. tf' = [tf EXCEPT ![r] = tf[r]]
  BY DEF Inv, TypeOK
<1> QED
  BY <1>1, SameBucketStep

\* No run spends from the deletions that others may make.
LEMMA RunKeepsDrops ==
    ASSUME Inv, NEW r \in Resources, Run(r)
    PROVE  left'["bucketDrift"] = left["bucketDrift"]
<1>1. left' = left \/ Spend("fault")
  BY RequestSpends
<1> QED
  BY <1>1 DEF Spend, Inv, TypeOK, Kinds

\* Only three calls make or drop a bucket.
LEMMA OthersKeepLive ==
    ASSUME NEW r \in Resources, Run(r), ~CreateCall(r), ~Rollback(r), ~DeleteCall(r)
    PROVE  live' = live
<1> USE DEF Request, Refused, garage
<1>1. CASE Read(r) \/ CreateGet(r) \/ UpdateGet(r) \/ DeleteGet(r)
  BY <1>1 DEF Read, CreateGet, UpdateGet, DeleteGet, GetBucket
<1>2. CASE PlanCreate(r)
  BY <1>2 DEF PlanCreate
<1>3. CASE CreateAddAlias(r) \/ UpdateAddAlias(r)
  BY <1>3 DEF CreateAddAlias, UpdateAddAlias, AddBucketAlias, AddBucketAliasEffect
<1>4. CASE CreateSetQuota(r) \/ UpdateSetQuota(r)
  BY <1>4 DEF CreateSetQuota, UpdateSetQuota, UpdateBucket, UpdateBucketEffect
<1>5. CASE UpdateRemoveAlias(r)
  BY <1>5 DEF UpdateRemoveAlias, RemoveBucketAlias, RemoveBucketAliasEffect
<1>6. CASE EmptyList(r) \/ EmptyPurge(r)
  BY <1>6 DEF EmptyList, EmptyPurge, ListObjects, DeleteObjects, DeleteObjectsEffect
<1> QED
  BY <1>1, <1>2, <1>3, <1>4, <1>5, <1>6 DEF Run

\* Handlers other than Create's have no bucket of their own making.
LEMMA MadeFacts ==
    /\ MadeBy(Idle) = NoBucket
    /\ \A h : h.pc \notin CreatePcs => MadeBy(h) = NoBucket
    /\ \A h : h.pc \in CreatePcs => MadeBy(h) = h.id
BY PcsDisjoint DEF MadeBy

\* Update and Delete have none, and a block that has one has no state.
LEMMA PhaseFacts ==
    ASSUME Inv, NEW r \in Resources
    PROVE  /\ op[r].pc \notin CreatePcs => Made[r] = NoBucket
           /\ op[r].pc \in CreatePcs => Made[r] = op[r].id /\ op[r].id \in BucketIds /\ Kept[r] = NoBucket
           /\ op[r].pc \in UpdatePcs \cup DeletePcs =>
                /\ tf[r] # NoState /\ Kept[r] = op[r].id /\ op[r].id \in BucketIds
                /\ Made[r] = NoBucket
<1>1. Shape(r) /\ (tf[r] # NoState => tf[r].id \in BucketIds)
  BY BlockFacts
<1> QED
  BY <1>1, MapFacts, MadeFacts, PcsDisjoint DEF Shape, KeptIn

----
(* Read, plan and import *)

\* A refresh keeps a block's bucket in the state unless it is gone.
LEMMA ReadMaps ==
    ASSUME Inv, NEW r \in Resources, Read(r)
    PROVE  Custodial
<1>1. /\ op[r].pc = "idle" /\ tf[r] # NoState /\ tf[r].id \in BucketIds
      /\ UNCHANGED <<known, live>> /\ left'["bucketDrift"] = left["bucketDrift"]
  BY BlockFacts, RunKeepsDrops DEF Read, Run, GetBucket, Request, garage
<1>2. MadeBy(op[r]) = NoBucket
  BY <1>1, MadeFacts, PcsDisjoint
<1>3. PICK err \in ErrorClasses :
        /\ GetBucket(tf[r].id, FALSE, err)
        /\ \/ /\ Gone(err)
              /\ tf' = [tf EXCEPT ![r] = NoState]
              /\ UNCHANGED <<op, disturbed>>
           \/ /\ err = "ok"
              /\ LET state == ApplyBucketInfo(BucketInfo(tf[r].id), tf[r]) IN
                 /\ tf' = [tf EXCEPT ![r] = state]
                 /\ Continue(r, Planned(cfg[r], state))
              /\ disturbed' = disturbed \ {r}
           \/ /\ err # "ok" /\ ~Gone(err)
              /\ UNCHANGED <<tf, op, disturbed>>
  BY DEF Read
<1>5. CASE Gone(err) /\ tf' = [tf EXCEPT ![r] = NoState] /\ UNCHANGED op
  <2>1. tf[r].id \notin live
    BY <1>1, <1>3, <1>5, BlockFacts, GetBucketFacts DEF Gone
  <2>2. Made' = Made /\ Kept' = [Kept EXCEPT ![r] = NoBucket]
    BY <1>5, StateOnly DEF KeptIn
  <2>3. Kept[r] \notin live
    BY <1>1, <2>1, MapFacts DEF KeptIn
  <2> QED
    BY <1>1, <2>2, <2>3, ForgetsStep
<1>6. CASE /\ tf' = [tf EXCEPT ![r] = ApplyBucketInfo(BucketInfo(tf[r].id), tf[r])]
           /\ Continue(r, Planned(cfg[r], ApplyBucketInfo(BucketInfo(tf[r].id), tf[r])))
  <2> DEFINE state == ApplyBucketInfo(BucketInfo(tf[r].id), tf[r])
             h == Planned(cfg[r], state)
  <2>1. state \in States /\ state.id = tf[r].id /\ cfg[r] \in ConfigSpace \cup {Null}
    BY <1>1, BlockFacts, ApplyType
  <2>2. op' = [op EXCEPT ![r] = h] /\ tf' = [tf EXCEPT ![r] = state]
    BY <1>6 DEF Continue
  <2> HIDE DEF state
  <2>3. h.pc \notin CreatePcs
    BY <2>1, PlannedType, PcsDisjoint DEF DeletePcs
  <2> HIDE DEF h
  <2>4. MadeBy(h) = MadeBy(op[r]) /\ KeptIn(state) = KeptIn(tf[r])
    BY <1>1, <1>2, <2>1, <2>3, MadeFacts, NoStateAssumption DEF KeptIn
  <2> QED
    BY <1>1, <2>2, <2>4, SameBucketStep
<1>7. CASE UNCHANGED <<tf, op>>
  <2>1. UNCHANGED <<Made, Kept>>
    BY <1>7 DEF Made, Kept, MadeBy, KeptIn
  <2> QED
    BY <1>1, <2>1, NoStep
<1> QED
  BY <1>3, <1>5, <1>6, <1>7

\* A plan makes nothing yet.
LEMMA PlanCreateMaps ==
    ASSUME Inv, NEW r \in Resources, PlanCreate(r)
    PROVE  Custodial
<1> DEFINE h == CreateOp(PlanForCreate(cfg[r]))
<1>1. /\ op[r].pc = "idle" /\ op' = [op EXCEPT ![r] = h]
      /\ UNCHANGED <<tf, known, live, left>>
  BY DEF PlanCreate, Continue, garage
<1>2. h.pc = "createBucket"
  BY DEF CreateOp, Idle
<1> HIDE DEF h
<1>3. MadeBy(h) = MadeBy(op[r])
  BY <1>1, <1>2, MadeFacts, PcsDisjoint DEF CreatePcs
<1> QED
  BY <1>1, <1>3, HandlerOnlyStep

\* An import takes a lost bucket up.
LEMMA ImportMaps ==
    ASSUME Inv, NEW r \in Resources, NEW b \in BucketIds, Import(r, b)
    PROVE  Custodial
<1> DEFINE st == ApplyBucketInfo(BucketInfo(b), [force |-> FALSE])
<1>1. /\ op[r].pc = "idle" /\ tf[r] = NoState /\ b \in known
      /\ tf' = [tf EXCEPT ![r] = st] /\ known' = known \ {b}
      /\ UNCHANGED <<live, left, op>>
  BY DEF Import, garage
<1>2. st \in States /\ st.id = b
  <2> DEFINE model == [force |-> FALSE]
  <2>1. model.force \in BOOLEAN /\ st = ApplyBucketInfo(BucketInfo(b), model)
    OBVIOUS
  <2> HIDE DEF model, st
  <2> QED
    BY <2>1, BlockFacts, ApplyType
<1> HIDE DEF st
<1>4. KeptIn(st) = b
  BY <1>2, NoStateAssumption DEF KeptIn
<1>5. Made' = Made /\ Kept' = [Kept EXCEPT ![r] = b]
  BY <1>1, <1>4, StateOnly
<1>6. Made[r] = NoBucket /\ Kept[r] = NoBucket
  BY <1>1, MapFacts, MadeFacts, PcsDisjoint DEF KeptIn
<1> QED
  BY <1>1, <1>5, <1>6, ImportStep

----
(* Create *)

\* A handler of Create that goes on keeps its bucket in hand.
LEMMA InHandStep ==
    ASSUME Inv, NEW r \in Resources, op[r].pc \in CreatePcs,
           NEW h, op' = [op EXCEPT ![r] = h], h.pc \in CreatePcs, h.id = op[r].id,
           UNCHANGED <<tf, live, known>>, left'["bucketDrift"] = left["bucketDrift"]
    PROVE  Custodial
<1>1. MadeBy(h) = MadeBy(op[r])
  BY DEF MadeBy
<1> QED
  BY <1>1, HandlerOnlyStep

\* So does one that fails.
LEMMA FailMaps ==
    ASSUME Inv, NEW r \in Resources, op[r].pc \in CreatePcs, FailCreate(r),
           UNCHANGED <<tf, live, known>>, left'["bucketDrift"] = left["bucketDrift"]
    PROVE  Custodial
<1>1. PICK h \in Handlers : Continue(r, h) /\ h.pc \in CreatePcs /\ h.id = op[r].id
  BY FailCreateFacts
<1> QED
  BY <1>1, InHandStep DEF Continue

\* The new bucket is the handler's, or lost.
LEMMA CreateCallMaps ==
    ASSUME Inv, NEW r \in Resources, CreateCall(r)
    PROVE  Custodial
<1>1. /\ op[r].pc = "createBucket" /\ tf[r] = NoState /\ UNCHANGED tf
      /\ left'["bucketDrift"] = left["bucketDrift"]
  BY BlockFacts, RunKeepsDrops DEF CreateCall, Shape, Run
<1>2. PICK b \in FreshIds, err \in ErrorClasses :
        /\ CreateBucket(b, op[r].cancelled, err)
        /\ \/ /\ err = "ok"
              /\ Continue(r, [op[r] EXCEPT !.id = b,
                                           !.pc = CreatePc(op[r].adds, op[r].plan)])
              /\ Account({})
           \/ /\ err # "ok"
              /\ Continue(r, Idle)
              /\ Account({b})
  BY DEF CreateCall
<1>3. /\ b \in BucketIds /\ b \notin live
      /\ \A s \in Resources : ~Holds(s, b)
      /\ known \subseteq live
  BY DEF FreshIds, Managed, InCreate, Holds, Inv
<1>4. /\ live' \in {live, live \cup {b}}
      /\ err = "ok" => live' = live \cup {b}
  BY <1>2, <1>3, BlockFacts, CreateBucketFacts
<1>5. Made[r] = NoBucket /\ MadeBy(op[r]) = NoBucket /\ Kept[r] = NoBucket
  BY <1>1, MapFacts, MadeFacts DEF KeptIn, CreatePcs
<1>6. \A s \in Resources : Made[s] # b /\ Kept[s] # b
  BY <1>3, MapFacts
<1>7. CASE /\ err = "ok"
           /\ Continue(r, [op[r] EXCEPT !.id = b, !.pc = CreatePc(op[r].adds, op[r].plan)])
           /\ Account({})
  <2> DEFINE h == [op[r] EXCEPT !.id = b, !.pc = CreatePc(op[r].adds, op[r].plan)]
  <2>1. h.pc \in CreatePcs /\ h.id = b
    BY <1>3, BlockFacts, CreatePcType DEF Handlers
  <2>2. op' = [op EXCEPT ![r] = h]
    BY <1>7 DEF Continue
  <2> HIDE DEF h
  <2>3. MadeBy(h) = b
    BY <2>1, MadeFacts
  <2>4. Kept' = Kept /\ Made' = [Made EXCEPT ![r] = b]
    BY <1>1, <2>2, <2>3, HandlerOnly
  <2>5. live' = live \cup {b} /\ known' = known
    BY <1>3, <1>4, <1>7 DEF Account
  <2> QED
    BY <1>1, <1>3, <1>5, <1>6, <2>4, <2>5, MakeStep
<1>8. CASE Continue(r, Idle) /\ Account({b})
  <2>1. op' = [op EXCEPT ![r] = Idle] /\ MadeBy(Idle) = MadeBy(op[r])
    BY <1>5, <1>8, MadeFacts DEF Continue
  <2>2. CASE live' = live
    <3>1. known' = known
      BY <1>3, <1>8, <2>2 DEF Account
    <3> QED
      BY <1>1, <2>1, <2>2, <3>1, HandlerOnlyStep
  <2>3. CASE live' = live \cup {b}
    <3>1. known' = known \cup {b}
      BY <1>3, <1>8, <2>3 DEF Account
    <3>2. Kept' = Kept /\ Made' = [Made EXCEPT ![r] = MadeBy(Idle)]
      BY <1>1, <2>1, HandlerOnly
    <3>3. Made' = Made
      BY <2>1, <3>2, MapFacts
    <3> QED
      BY <1>1, <1>3, <1>5, <1>6, <2>3, <3>1, <3>2, <3>3, MakeStep
  <2> QED
    BY <1>4, <2>2, <2>3
<1> QED
  BY <1>2, <1>7, <1>8

\* Adding an alias keeps the new bucket in hand.
LEMMA CreateAddAliasMaps ==
    ASSUME Inv, NEW r \in Resources, CreateAddAlias(r)
    PROVE  Custodial
<1>1. /\ op[r].pc \in CreatePcs /\ UNCHANGED <<tf, live, known>>
      /\ left'["bucketDrift"] = left["bucketDrift"]
  BY OthersKeepLive, RunKeepsDrops DEF CreateAddAlias, CreatePcs, history, Run,
     CreateCall, Rollback, DeleteCall
<1>2. PICK a \in op[r].adds :
        \/ Continue(r, [op[r] EXCEPT !.adds = @ \ {a},
                                     !.pc = CreatePc(op[r].adds \ {a}, op[r].plan)])
        \/ FailCreate(r)
  BY DEF CreateAddAlias
<1> DEFINE h == [op[r] EXCEPT !.adds = @ \ {a}, !.pc = CreatePc(op[r].adds \ {a}, op[r].plan)]
<1>3. h.pc \in CreatePcs /\ h.id = op[r].id
  BY BlockFacts, CreatePcType DEF Handlers
<1>4. op' = [op EXCEPT ![r] = h] \/ FailCreate(r)
  BY <1>2 DEF Continue
<1> HIDE DEF h
<1> QED
  BY <1>1, <1>3, <1>4, InHandStep, FailMaps

\* So does setting the quotas.
LEMMA CreateSetQuotaMaps ==
    ASSUME Inv, NEW r \in Resources, CreateSetQuota(r)
    PROVE  Custodial
<1>1. /\ op[r].pc \in CreatePcs /\ UNCHANGED <<tf, live, known>>
      /\ left'["bucketDrift"] = left["bucketDrift"]
  BY OthersKeepLive, RunKeepsDrops DEF CreateSetQuota, CreatePcs, history, Run,
     CreateCall, Rollback, DeleteCall
<1> DEFINE h == [op[r] EXCEPT !.pc = "createGet"]
<1>2. op' = [op EXCEPT ![r] = h] \/ FailCreate(r)
  BY DEF CreateSetQuota, Continue
<1>3. h.pc \in CreatePcs /\ h.id = op[r].id
  BY BlockFacts DEF Handlers, CreatePcs
<1> HIDE DEF h
<1> QED
  BY <1>1, <1>2, <1>3, InHandStep, FailMaps

\* The final read moves the bucket into the state, or keeps it in hand.
LEMMA CreateGetMaps ==
    ASSUME Inv, NEW r \in Resources, CreateGet(r)
    PROVE  Custodial
<1>1. /\ op[r].pc \in CreatePcs /\ UNCHANGED <<live, known>>
      /\ left'["bucketDrift"] = left["bucketDrift"]
  BY OthersKeepLive, RunKeepsDrops DEF CreateGet, CreatePcs, Run, CreateCall, Rollback, DeleteCall
<1> DEFINE st == ApplyBucketInfo(BucketInfo(op[r].id), op[r].plan)
<1>2. \/ tf' = [tf EXCEPT ![r] = st] /\ op' = [op EXCEPT ![r] = Idle]
      \/ FailCreate(r) /\ UNCHANGED tf
  BY DEF CreateGet, Continue
<1>3. op[r].id \in BucketIds /\ op[r].plan.force \in BOOLEAN /\ Made[r] = op[r].id
  BY <1>1, PhaseFacts, BlockFacts DEF Handlers, Plans
<1>4. st \in States /\ st.id = op[r].id
  BY <1>3, BlockFacts, ApplyType
<1> HIDE DEF st
<1>5. KeptIn(st) = Made[r] /\ Made[r] # NoBucket
  BY <1>3, <1>4, NoStateAssumption, NoBucketAssumption DEF KeptIn
<1>6. CASE tf' = [tf EXCEPT ![r] = st] /\ op' = [op EXCEPT ![r] = Idle]
  <2>1. Made' = [Made EXCEPT ![r] = MadeBy(Idle)] /\ Kept' = [Kept EXCEPT ![r] = KeptIn(st)]
    BY <1>6, OneBlock
  <2> QED
    BY <1>1, <1>5, <2>1, MadeFacts, KeepStep
<1> QED
  BY <1>1, <1>2, <1>6, FailMaps

\* The rollback deletes the new bucket or reports it.
LEMMA RollbackMaps ==
    ASSUME Inv, NEW r \in Resources, Rollback(r)
    PROVE  Custodial
<1>1. /\ op[r].pc \in CreatePcs /\ op' = [op EXCEPT ![r] = Idle] /\ UNCHANGED tf
      /\ left'["bucketDrift"] = left["bucketDrift"]
  BY RunKeepsDrops DEF Rollback, CreatePcs, Continue, Run
<1>2. op[r].id \in BucketIds /\ Made[r] = op[r].id /\ Made[r] # NoBucket
  BY <1>1, PhaseFacts, NoBucketAssumption
<1>3. PICK err \in ErrorClasses :
        /\ DeleteBucket(op[r].id, op[r].cancelled, err)
        /\ Account(IF err = "ok" THEN {} ELSE {op[r].id})
  BY DEF Rollback
<1>4. /\ live' \in {live, live \ {op[r].id}}
      /\ err = "ok" => live' = live \ {op[r].id}
  BY <1>2, <1>3, BlockFacts, DeleteBucketFacts
<1>5. op[r].id \notin known /\ known \subseteq live
  BY <1>2, MapFacts, BlockFacts DEF Inv
<1>6. known' = known \cup ({op[r].id} \cap live')
  BY <1>3, <1>4, <1>5 DEF Account
<1>7. Kept' = Kept /\ Made' = [Made EXCEPT ![r] = NoBucket]
  BY <1>1, HandlerOnly, MadeFacts
<1> QED
  BY <1>1, <1>2, <1>4, <1>6, <1>7, GiveUpStep

----
(* Update and Delete *)

\* A handler of Update or Delete that goes on, or ends, and leaves the state
\* entry alone.
LEMMA BoundMaps ==
    ASSUME Inv, NEW r \in Resources, op[r].pc \in UpdatePcs \cup DeletePcs,
           NEW h, op' = [op EXCEPT ![r] = h], h.pc \notin CreatePcs,
           UNCHANGED <<tf, live, known>>, left'["bucketDrift"] = left["bucketDrift"]
    PROVE  Custodial
<1>1. MadeBy(h) = MadeBy(op[r])
  BY MadeFacts, PcsDisjoint
<1> QED
  BY <1>1, HandlerOnlyStep

\* The alias calls of Update.
LEMMA UpdateAliasMaps ==
    ASSUME Inv, NEW r \in Resources, UpdateAddAlias(r) \/ UpdateRemoveAlias(r)
    PROVE  Custodial
<1>1. /\ op[r].pc \in UpdatePcs /\ UNCHANGED <<tf, live, known>>
      /\ left'["bucketDrift"] = left["bucketDrift"]
  BY OthersKeepLive, RunKeepsDrops DEF UpdateAddAlias, UpdateRemoveAlias, UpdatePcs, history,
     Run, CreateCall, Rollback, DeleteCall
<1> DEFINE added(a) ==
             [op[r] EXCEPT !.adds = @ \ {a},
                           !.pc = UpdatePc(op[r].adds \ {a}, op[r].drops, op[r].plan, tf[r])]
           removed(a) ==
             [op[r] EXCEPT !.drops = @ \ {a},
                           !.pc = UpdatePc(op[r].adds, op[r].drops \ {a}, op[r].plan, tf[r])]
<1>2. PICK a, h : op' = [op EXCEPT ![r] = h] /\ h \in {Idle, added(a), removed(a)}
  BY DEF UpdateAddAlias, UpdateRemoveAlias, Continue
<1>3. added(a).pc \in UpdatePcs /\ removed(a).pc \in UpdatePcs
  BY BlockFacts, UpdatePcType DEF Handlers
<1> HIDE DEF added, removed
<1>4. h.pc \notin CreatePcs
  BY <1>2, <1>3, PcsDisjoint
<1> QED
  BY <1>1, <1>2, <1>4, BoundMaps

\* Its quota call.
LEMMA UpdateSetQuotaMaps ==
    ASSUME Inv, NEW r \in Resources, UpdateSetQuota(r)
    PROVE  Custodial
<1>1. /\ op[r].pc \in UpdatePcs /\ UNCHANGED <<tf, live, known>>
      /\ left'["bucketDrift"] = left["bucketDrift"]
  BY OthersKeepLive, RunKeepsDrops DEF UpdateSetQuota, UpdatePcs, history,
     Run, CreateCall, Rollback, DeleteCall
<1> DEFINE g == [op[r] EXCEPT !.pc = "updateGet"]
<1>2. PICK h : op' = [op EXCEPT ![r] = h] /\ h \in {Idle, g}
  BY DEF UpdateSetQuota, Continue
<1>3. g.pc = "updateGet"
  BY BlockFacts DEF Handlers
<1> HIDE DEF g
<1>4. h.pc \notin CreatePcs
  BY <1>2, <1>3, PcsDisjoint DEF UpdatePcs
<1> QED
  BY <1>1, <1>2, <1>4, BoundMaps

\* Its final read puts the same bucket into the state.
LEMMA UpdateGetMaps ==
    ASSUME Inv, NEW r \in Resources, UpdateGet(r)
    PROVE  Custodial
<1>1. /\ op[r].pc \in UpdatePcs /\ op' = [op EXCEPT ![r] = Idle] /\ UNCHANGED <<live, known>>
      /\ left'["bucketDrift"] = left["bucketDrift"]
  BY OthersKeepLive, RunKeepsDrops DEF UpdateGet, UpdatePcs, Continue,
     Run, CreateCall, Rollback, DeleteCall
<1> DEFINE st == ApplyBucketInfo(BucketInfo(op[r].id), op[r].plan)
<1>2. tf' = [tf EXCEPT ![r] = st] \/ UNCHANGED tf
  BY DEF UpdateGet
<1>3. /\ op[r].id \in BucketIds /\ op[r].plan.force \in BOOLEAN
      /\ Kept[r] = op[r].id /\ Kept[r] = KeptIn(tf[r])
  BY <1>1, PhaseFacts, MapFacts, BlockFacts DEF Handlers, Plans
<1>4. st \in States /\ st.id = op[r].id
  BY <1>3, BlockFacts, ApplyType
<1> HIDE DEF st
<1>5. KeptIn(st) = KeptIn(tf[r])
  BY <1>3, <1>4, NoStateAssumption DEF KeptIn
<1>6. MadeBy(Idle) = MadeBy(op[r])
  BY <1>1, MadeFacts, PcsDisjoint
<1>7. CASE tf' = [tf EXCEPT ![r] = st]
  BY <1>1, <1>5, <1>6, <1>7, SameBucketStep
<1>8. CASE UNCHANGED tf
  BY <1>1, <1>6, <1>8, HandlerOnlyStep
<1> QED
  BY <1>2, <1>7, <1>8

\* Delete's read forgets a bucket that is gone, and no other.
LEMMA DeleteGetMaps ==
    ASSUME Inv, NEW r \in Resources, DeleteGet(r)
    PROVE  Custodial
<1>1. /\ op[r].pc \in DeletePcs /\ UNCHANGED <<live, known>>
      /\ left'["bucketDrift"] = left["bucketDrift"]
  BY OthersKeepLive, RunKeepsDrops DEF DeleteGet, DeletePcs, history,
     Run, CreateCall, Rollback, DeleteCall
<1>2. /\ op[r].id \in BucketIds /\ Kept[r] = op[r].id
      /\ MadeBy(op[r]) = NoBucket
  BY <1>1, PhaseFacts, MapFacts
<1> DEFINE target(a) == [op[r] EXCEPT !.pc = "list", !.alias = a]
           last == [op[r] EXCEPT !.pc = "deleteBucket"]
<1>3. PICK err \in ErrorClasses :
        /\ GetBucket(op[r].id, op[r].cancelled, err)
        /\ \/ Gone(err) /\ Forget(r) /\ op' = [op EXCEPT ![r] = Idle]
           \/ UNCHANGED tf /\ \E h, a : op' = [op EXCEPT ![r] = h] /\ h \in {Idle, last, target(a)}
  BY DEF DeleteGet, Continue
<1>4. last.pc \in DeletePcs /\ \A a : target(a).pc \in DeletePcs
  BY BlockFacts DEF Handlers, DeletePcs
<1> HIDE DEF last, target
<1>5. CASE Gone(err) /\ Forget(r) /\ op' = [op EXCEPT ![r] = Idle]
  <2>1. op[r].id \notin live
    BY <1>2, <1>3, <1>5, BlockFacts, GetBucketFacts DEF Gone
  <2>2. /\ Made' = [Made EXCEPT ![r] = MadeBy(Idle)]
        /\ Kept' = [Kept EXCEPT ![r] = KeptIn(NoState)]
    BY <1>5, OneBlock DEF Forget
  <2>3. MadeBy(Idle) = MadeBy(op[r])
    BY <1>2, MadeFacts
  <2>4. Made' = Made /\ Kept' = [Kept EXCEPT ![r] = NoBucket]
    BY <2>2, <2>3, MapFacts DEF KeptIn
  <2> QED
    BY <1>1, <1>2, <2>1, <2>4, ForgetsStep
<1>6. CASE UNCHANGED tf /\ \E h, a : op' = [op EXCEPT ![r] = h] /\ h \in {Idle, last, target(a)}
  <2>1. PICK h : op' = [op EXCEPT ![r] = h] /\ h.pc \notin CreatePcs
    BY <1>4, <1>6, PcsDisjoint
  <2> QED
    BY <1>1, <1>6, <2>1, BoundMaps
<1> QED
  BY <1>3, <1>5, <1>6

\* The S3 calls concern no bucket's life.
LEMMA EmptyMaps ==
    ASSUME Inv, NEW r \in Resources, EmptyList(r) \/ EmptyPurge(r)
    PROVE  Custodial
<1>1. /\ op[r].pc \in DeletePcs /\ UNCHANGED <<tf, live, known>>
      /\ left'["bucketDrift"] = left["bucketDrift"]
  BY OthersKeepLive, RunKeepsDrops DEF EmptyList, EmptyPurge, DeletePcs, history,
     Run, CreateCall, Rollback, DeleteCall
<1> DEFINE page == objects[owner[op[r].alias]]
           pc == IF page = {} THEN "deleteBucket" ELSE "purge"
           listed == [op[r] EXCEPT !.page = page, !.pc = pc]
           purged == [op[r] EXCEPT !.pc = "deleteBucket"]
<1>2. PICK h : op' = [op EXCEPT ![r] = h] /\ h \in {Idle, listed, purged}
  BY DEF EmptyList, EmptyPurge, Continue
<1>3. pc \in DeletePcs
  BY DEF DeletePcs
<1> HIDE DEF page, pc
<1>4. listed.pc \in DeletePcs /\ purged.pc \in DeletePcs
  BY <1>3, BlockFacts DEF Handlers, DeletePcs
<1> HIDE DEF listed, purged
<1>5. h.pc \notin CreatePcs
  BY <1>2, <1>4, PcsDisjoint
<1> QED
  BY <1>1, <1>2, <1>5, BoundMaps

\* A deletion that is answered with success was one.
LEMMA DeleteBucketOk ==
    ASSUME NEW b, NEW c, DeleteBucket(b, c, "ok")
    PROVE  b \in live
<1>1. StatusToError(DeleteBucketStatus(b)) = "ok"
  BY FailuresSay DEF DeleteBucket, Request
<1> QED
  BY <1>1, Statuses DEF DeleteBucketStatus

\* Delete deletes its own bucket, and forgets it when it is told so.
LEMMA DeleteCallMaps ==
    ASSUME Inv, NEW r \in Resources, DeleteCall(r)
    PROVE  Custodial
<1>1. /\ op[r].pc \in DeletePcs /\ op' = [op EXCEPT ![r] = Idle] /\ Account({})
      /\ left'["bucketDrift"] = left["bucketDrift"]
  BY RunKeepsDrops DEF DeleteCall, DeletePcs, Continue, Run
<1>2. /\ op[r].id \in BucketIds /\ Kept[r] = op[r].id /\ Kept[r] = KeptIn(tf[r])
      /\ MadeBy(Idle) = MadeBy(op[r])
  BY <1>1, PhaseFacts, MapFacts, MadeFacts
<1>3. PICK err \in ErrorClasses :
        /\ DeleteBucket(op[r].id, op[r].cancelled, err)
        /\ IF err = "ok" THEN Forget(r) ELSE UNCHANGED tf
  BY DEF DeleteCall
<1>4. /\ live' \in {live, live \ {op[r].id}}
      /\ err = "ok" => op[r].id \in live
  BY <1>2, <1>3, BlockFacts, DeleteBucketFacts, DeleteBucketOk
<1>5. op[r].id \notin known /\ known \subseteq live
  BY <1>2, MapFacts, BlockFacts DEF Inv
<1>6. known' = known
  BY <1>1, <1>4, <1>5 DEF Account
<1>7. PICK st : tf' = [tf EXCEPT ![r] = st] /\ KeptIn(st) \in {Kept[r], NoBucket}
              /\ (err # "ok" => KeptIn(st) = Kept[r])
  <2>1. CASE err = "ok"
    BY <1>3, <2>1 DEF Forget, KeptIn
  <2>2. CASE err # "ok"
    BY <1>2, <1>3, <2>2 DEF Inv, TypeOK
  <2> QED
    BY <2>1, <2>2
<1>8. Made' = [Made EXCEPT ![r] = MadeBy(Idle)] /\ Kept' = [Kept EXCEPT ![r] = KeptIn(st)]
  BY <1>1, <1>7, OneBlock
<1>9. Made' = Made
  BY <1>2, <1>8, MapFacts
<1>10. Kept' \in {Kept, [Kept EXCEPT ![r] = NoBucket]}
  BY <1>2, <1>7, <1>8, MapFacts
<1>11. CASE op[r].id \in live /\ live' = live \ {op[r].id}
  BY <1>1, <1>2, <1>6, <1>9, <1>10, <1>11, DeleteStep
<1>12. CASE live' = live
  <2>1. err # "ok"
    BY <1>3, <1>4, <1>12, <1>2, BlockFacts, DeleteBucketFacts
  <2>2. Kept' = Kept
    BY <1>2, <1>7, <1>8, <2>1, MapFacts
  <2> QED
    BY <1>1, <1>6, <1>9, <1>12, <2>2, NoStep
<1> QED
  BY <1>4, <1>11, <1>12

----
(* Disturbances *)

\* A kill gives up a bucket in the making, and reports it.
LEMMA CrashMaps ==
    ASSUME Inv, NEW r \in Resources, Crash(r)
    PROVE  Custodial
<1>1. /\ op' = [op EXCEPT ![r] = Idle] /\ UNCHANGED <<tf, live>>
      /\ known' = known \cup (CreatedBy(r) \cap live)
      /\ left'["bucketDrift"] = left["bucketDrift"]
  BY DEF Crash, Continue, garage, Spend, Inv, TypeOK, Kinds
<1>2. Kept' = Kept /\ Made' = [Made EXCEPT ![r] = MadeBy(Idle)]
  BY <1>1, HandlerOnly
<1>3. CASE op[r].pc \in CreatePcs
  <2>1. Made[r] = op[r].id /\ Made[r] # NoBucket /\ CreatedBy(r) = {op[r].id}
    BY <1>3, PhaseFacts, NoBucketAssumption DEF CreatedBy
  <2> QED
    BY <1>1, <1>2, <2>1, MadeFacts, GiveUpStep
<1>4. CASE op[r].pc \notin CreatePcs
  <2>1. CreatedBy(r) = {} /\ MadeBy(Idle) = MadeBy(op[r])
    BY <1>4, MadeFacts DEF CreatedBy
  <2>2. known' = known
    BY <1>1, <2>1
  <2> QED
    BY <1>1, <2>1, <2>2, HandlerOnlyStep
<1> QED
  BY <1>3, <1>4

\* An interrupt changes nobody's bucket.
LEMMA CancelMaps ==
    ASSUME Inv, NEW r \in Resources, Cancel(r)
    PROVE  Custodial
<1> DEFINE h == [op[r] EXCEPT !.cancelled = TRUE]
<1>1. /\ op' = [op EXCEPT ![r] = h] /\ UNCHANGED <<tf, live, known>>
      /\ left'["bucketDrift"] = left["bucketDrift"]
  BY DEF Cancel, Continue, garage, history, Spend, Inv, TypeOK, Kinds
<1>2. h.pc = op[r].pc /\ h.id = op[r].id
  BY BlockFacts DEF Handlers
<1> HIDE DEF h
<1>3. MadeBy(h) = MadeBy(op[r])
  BY <1>2 DEF MadeBy
<1> QED
  BY <1>1, <1>3, HandlerOnlyStep

\* Somebody else deletes a bucket.
LEMMA DropBucketMaps ==
    ASSUME Inv, NEW b \in BucketIds, DropBucket(b)
    PROVE  Custodial
<1>1. /\ b \in live /\ live' = live \ {b} /\ known' = known \cap live'
      /\ UNCHANGED <<tf, op>> /\ Spend("bucketDrift")
  BY DEF DropBucket, DeleteBucketStatus, DeleteBucketEffect, Account
<1>2. known \subseteq live /\ left \in [Kinds -> Nat] /\ "bucketDrift" \in Kinds
  BY DEF Inv, TypeOK, Kinds
<1>3. known' = known \ {b}
  BY <1>1, <1>2
<1>4. left["bucketDrift"] > 0 /\ left'["bucketDrift"] = left["bucketDrift"] - 1
  BY <1>1, <1>2 DEF Spend
<1>5. UNCHANGED <<Made, Kept>>
  BY <1>1 DEF Made, Kept, MadeBy, KeptIn
<1> QED
  BY <1>1, <1>3, <1>4, <1>5, DropStep

\* The other disturbances concern no bucket's life.
LEMMA OutsideMaps ==
    ASSUME Inv,
           \/ \E r \in Resources : Edit(r)
           \/ \E a \in Aliases, b \in BucketIds \cup {NoBucket} : MoveAlias(a, b)
           \/ \E b \in BucketIds, wire \in WireQuotas : ChangeQuota(b, wire)
           \/ \E a \in Aliases, k \in Keys : Upload(a, k)
    PROVE  Custodial
<1>1. /\ UNCHANGED <<tf, op, live, known>>
      /\ \E kind \in Kinds \ {"bucketDrift"} : Spend(kind)
  BY DEF Edit, MoveAlias, ChangeQuota, Upload, PutObject, UpdateBucketEffect, garage, history, Kinds
<1>2. left'["bucketDrift"] = left["bucketDrift"]
  BY <1>1 DEF Spend, Inv, TypeOK, Kinds
<1>3. UNCHANGED <<Made, Kept>>
  BY <1>1 DEF Made, Kept, MadeBy, KeptIn
<1> QED
  BY <1>1, <1>2, <1>3, NoStep

----
(* The refinement *)

\* The initial states are Custody's.
LEMMA InitMaps == Init => Custodian!Init
<1> SUFFICES ASSUME Init PROVE Custodian!Init
  OBVIOUS
<1>1. live = {} /\ known = {} /\ left["bucketDrift"] \in Nat
  BY BudgetAssumption DEF Init, GarageInit, Kinds
<1>2. op = [r \in Resources |-> Idle] /\ tf = [r \in Resources |-> NoState]
  BY DEF Init
<1>3. Made = [r \in Resources |-> NoBucket] /\ Kept = [r \in Resources |-> NoBucket]
  BY <1>2, MadeFacts DEF Made, Kept, KeptIn
<1> QED
  BY <1>1, <1>3 DEF Custodian!Init, Made, Kept, MadeBy, KeptIn

\* Every step is one of Custody's, or none.
LEMMA NextMaps == Inv /\ [Next]_vars => Custodial
<1> SUFFICES ASSUME Inv, [Next]_vars PROVE Custodial
  OBVIOUS
<1>1. ASSUME NEW r \in Resources, Run(r) PROVE Custodial
  BY <1>1, ReadMaps, PlanCreateMaps, CreateCallMaps, CreateAddAliasMaps, CreateSetQuotaMaps,
     CreateGetMaps, RollbackMaps, UpdateAliasMaps, UpdateSetQuotaMaps, UpdateGetMaps,
     DeleteGetMaps, EmptyMaps, DeleteCallMaps DEF Run
<1>2. ASSUME NEW r \in Resources, NEW b \in BucketIds, Import(r, b) PROVE Custodial
  BY <1>2, ImportMaps
<1>3. CASE Disturbance
  BY <1>3, CancelMaps, CrashMaps, DropBucketMaps, OutsideMaps DEF Disturbance
<1>4. CASE UNCHANGED vars
  <2>1. UNCHANGED <<live, known, left, op, tf>>
    BY <1>4 DEF vars, garage
  <2> QED
    BY <2>1, NoStep DEF Made, Kept, MadeBy, KeptIn
<1> QED
  BY <1>1, <1>2, <1>3, <1>4 DEF Next

\* The handlers keep Custody's promise, call by call.
THEOREM HandlersKeepCustody == Spec => CustodySpec
BY InitMaps, NextMaps, Invariance, PTL DEF Spec, CustodySpec, Custodian!Spec, Custodial
====
