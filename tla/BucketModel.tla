---- MODULE BucketModel ----
(***************************************************************************)
(* The pure part of the garage_bucket resource: how a configuration is     *)
(* planned against the state (the schema's defaults and plan modifiers),   *)
(* how a plan differs from the state, and how quotas and bucket            *)
(* information are converted between Terraform's values and the admin      *)
(* API's.                                                                  *)
(*                                                                         *)
(* The attributes the handlers only copy for display (created, bytes,      *)
(* objects, unfinished_multipart_uploads) are left out.                    *)
(***************************************************************************)
EXTENDS Integers, FiniteSets

CONSTANTS
    BucketIds,   \* ids the admin API hands out
    Aliases,     \* global bucket aliases
    BlankAlias,  \* the alias "" (accepted by the schema, refused by the client)
    QuotaFields, \* the nullable quota attributes, max_size and max_objects
    Limits,      \* quota values; 0 is a legitimate one
    Null,        \* Terraform's null
    NoBucket,    \* no bucket id: the alias is free, the create has no id yet
    NoState      \* the resource has no entry in the Terraform state

ASSUME NullAssumption == Null \notin Limits
ASSUME NoBucketAssumption == NoBucket \notin BucketIds

AliasSets == SUBSET Aliases

\* max_size and max_objects as Terraform holds them: null or a number.
QuotaAttrs == [QuotaFields -> Limits \cup {Null}]

\* The quotas object on the wire and in Garage: an omitted field is an
\* absent quota.  A partial function from the fields.
WireQuotas == UNION {[D -> Limits] : D \in SUBSET QuotaFields}

NoQuota == [f \in {} |-> 0]

\* The attributes a plan fixes.
Plans == [aliases : AliasSets, quota : QuotaAttrs, force : BOOLEAN]

\* What the resource block of the configuration says: global_aliases may be
\* omitted (Null); an omitted force_destroy is its default, FALSE.
ConfigSpace == [aliases : AliasSets \cup {Null}, quota : QuotaAttrs, force : BOOLEAN]

\* A garage_bucket entry of the Terraform state.
States == [id : BucketIds, aliases : AliasSets, quota : QuotaAttrs, force : BOOLEAN]

ASSUME NoStateAssumption == NoState \notin States

----
(* Planning *)

\* The plan of a configuration for a resource that is not in the state: an
\* omitted alias set is unknown, which the handlers treat like the empty set.
PlanForCreate(config) ==
    [aliases |-> IF config.aliases = Null THEN {} ELSE config.aliases,
     quota   |-> config.quota,
     force   |-> config.force]

\* A mutant: an omitted alias set is unknown to every plan.
PlanForUpdateUnknown(config, state) == PlanForCreate(config)

\* The plan for a resource in the state: an omitted alias set keeps the
\* state's (UseStateForUnknown).
PlanForUpdate(config, state) ==
    [PlanForCreate(config) EXCEPT
        !.aliases = IF config.aliases = Null THEN state.aliases ELSE @]

\* Terraform calls Update only when some attribute of the plan differs.
NeedsUpdate(plan, state) ==
    \/ plan.aliases # state.aliases
    \/ plan.quota # state.quota
    \/ plan.force # state.force

----
(* Differences and conversions *)

\* Mutants: an Update that removes nothing; a quota of 0 taken for none; a
\* null lost on the way back.
ToRemoveNothing(plan, state) == {}
ModelToQuotasDropsZero(attrs) ==
    [f \in {g \in QuotaFields : attrs[g] \notin {Null, 0}} |-> attrs[f]]
QuotasToModelDropsNull(wire) == wire

\* diffGlobalAliases: the adds and the removes.
ToAdd(plan, state) == plan.aliases \ state.aliases
ToRemove(plan, state) == state.aliases \ plan.aliases

\* modelToQuotas: null becomes an absent field, 0 stays 0.
ModelToQuotas(attrs) ==
    [f \in {g \in QuotaFields : attrs[g] # Null} |-> attrs[f]]

\* The inverse, inside applyBucketInfoToModel.
QuotasToModel(wire) ==
    [f \in QuotaFields |-> IF f \in DOMAIN wire THEN wire[f] ELSE Null]

\* Create and Update send quotas when a field is set, respectively changed.
SetsQuota(attrs) == \E f \in QuotaFields : attrs[f] # Null

\* A mutant: force_destroy at its default.
ApplyBucketInfoDefaultsForce(info, model) ==
    [id      |-> info.id,
     aliases |-> info.aliases,
     quota   |-> QuotasToModel(info.quota),
     force   |-> FALSE]

\* applyBucketInfoToModel: the server's values overlay the model;
\* force_destroy is the provider's own and survives.
ApplyBucketInfo(info, model) ==
    [id      |-> info.id,
     aliases |-> info.aliases,
     quota   |-> QuotasToModel(info.quota),
     force   |-> model.force]
====
