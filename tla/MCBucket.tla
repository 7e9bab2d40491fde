---- MODULE MCBucket ----
(* Values and symmetry for the TLC runs of BucketResource. *)
EXTENDS BucketResource, TLC

CONSTANTS r1, r2, b1, b2, b3, b4, a1, a2, a3, blank, k1, k2

NoLimits == [f \in QuotaFields |-> Null]
Config(aliases, q, force) == [aliases |-> aliases, quota |-> q, force |-> force]
Plain(aliases) == Config(aliases, NoLimits, FALSE)
Forced(aliases) == Config(aliases, NoLimits, TRUE)

NoBudget == [k \in {"fault", "cancel", "crash", "aliasDrift", "quotaDrift",
                    "bucketDrift", "put", "edit"} |-> 0]

BucketSymmetry == Permutations(BucketIds)

\* two_blocks: r1 gives a2 to r2; renames, a swap, and destroys of a bucket
\* with objects are among the edits.
TwoBlocksConfigs ==
    (r1 :> {Forced({a1, a2}), Plain({a1}), Plain({a3})}) @@ (r2 :> {Plain({a2}), Plain({a2, a3}), Plain(Null)})
TwoBlocksBudget == [NoBudget EXCEPT !.edit = 2, !.fault = 1, !.put = 2]

\* one_block: every way a handler can end early; null and 0 in
\* every combination, changed by edits and by drift.
Limited(s, o) == [f \in QuotaFields |-> IF f = "maxSize" THEN s ELSE o]
OneBlockConfigs ==
    r1 :> {Config({a1, a2}, Limited(0, 0), FALSE), Config({a2}, Limited(Null, 0), FALSE),
           Config({a2}, Limited(0, Null), FALSE), Plain({a1, blank})}
OneBlockBudget ==
    [NoBudget EXCEPT !.fault = 2, !.cancel = 1, !.crash = 1, !.bucketDrift = 1,
                     !.quotaDrift = 1, !.edit = 1]

\* converge: drift, a fault, and an alias handed from r1 to r2.
ConvergeConfigs ==
    (r1 :> {Plain({a1, a2}), Plain({a1})})
    @@ (r2 :> {Config({a2}, [f \in QuotaFields |-> 0], FALSE)})
ConvergeBudget ==
    [NoBudget EXCEPT !.fault = 1, !.aliasDrift = 1, !.edit = 1]

\* The violation runs: one block, and the one disturbance each needs.
OneConfig == r1 :> {Plain({a1})}
RollbackBudget == [NoBudget EXCEPT !.cancel = 1]
RetryBudget == [NoBudget EXCEPT !.fault = 2]
StaleAliasConfigs == (r1 :> {Forced({a1, a2})}) @@ (r2 :> {Plain({a3})})
StaleAliasBudget == [NoBudget EXCEPT !.aliasDrift = 1, !.put = 2, !.edit = 1]
ExchangeConfigs == [r \in Resources |-> {Plain({a1}), Plain({a2})}]
ExchangeBudget == [NoBudget EXCEPT !.edit = 2]
====
