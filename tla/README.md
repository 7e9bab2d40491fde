# Verification of terraform-provider-garage

TLA+ models of the provider's core, checked with TLC on small instances, and
proofs about them checked by TLAPS.

## The system

The provider manages buckets of a Garage object store through Garage's admin
HTTP API.  Terraform core starts the provider process, configures it, and calls
its handlers; the handlers call the admin client; the client goes through a
retrying transport; one handler also uses Garage's S3 API.

| Component | Source | State | Operations | Module |
|---|---|---|---|---|
| `garage_bucket` handlers | `internal/resources/bucket/resource.go` | the Terraform state entry; the locals of a running handler | Create (with rollback), Read, Update, Delete, ImportState | `BucketResource`, `Custody` |
| bucket model | `internal/resources/bucket/model.go`, the schema in `resource.go` | none | plan defaults and modifiers, `diffGlobalAliases`, `modelToQuotas`, `applyBucketInfoToModel` | `BucketModel` |
| S3 emptying | `internal/resources/bucket/s3empty.go` | the paginator's token, the page listed last | validate, list page by page, batch delete | `EmptyBucket`, `Purge`, `PageLoop`; `AdminClient`, `BucketResource` (one page) |
| typed admin client | `internal/client/client.go` | none | `New`; one wrapper per API operation | `AdminCall`, `AdminClient`; `New` in `Provider` |
| retrying transport | `internal/client/transport.go` | attempt, delay, open body | RoundTrip | `RetryTransport`, `OneCall` |
| error classes | `internal/client/errors.go` | none | `statusToError` | `ApiErrors` |
| generated client | `internal/client/openapi/generated.go` | none | 49 operations: build, send, read, decode | `AdminApi`, `AdminCall` |
| provider configuration | `internal/provider/provider.go`, `internal/client/providerdata.go` | resolved settings | Schema, Configure, resolve | `Provider` |
| `garage_cluster_info` | `internal/datasources/clusterinfo/data_source.go` | none | Configure, Read | `ClusterInfo`, `Provider` |
| spec-downgrade | `tools/cmd/spec-downgrade/main.go` | a JSON tree | three rewritings | `SchemaRewrites`, `SpecDowngrade` |
| fixtures, `main.go` | `internal/acctest`, `main.go` | - | - | no: tests, I/O |
| Garage (external) | - | buckets, aliases, quotas, objects | admin API and S3 | `Garage` |

Interactions: Terraform core calls one handler at a time for one block (its
state lock sees to that) but handlers of several blocks, or of several
workspaces, run concurrently and meet in Garage: global aliases are a shared
namespace.  A handler is a sequence of calls, and between any two of them other
handlers, administrators and S3 clients act.  The Terraform state is written
once, when a handler returns.

What is hard: the answer to a non-idempotent call can be lost after it took
effect; a handler can be interrupted (its context is cancelled) or killed
between two calls; several calls make one logical change and any of them can
fail; what was read may be stale when it is used; the order of alias changes is
constrained by Garage; null and 0 mean different quotas.

What makes each component correct:

- handlers: no bucket is left in Garage that nobody knows of; an apply that
  reports success has done what was planned, whatever failed before; objects
  are deleted only with consent and only from the bucket being destroyed; two
  blocks never own one bucket; repeated applies converge.
- model: nothing is lost between Terraform's values and the wire.
- transport: a mutating request is executed at most once, failed reads use all
  their attempts, delays are bounded, no body leaks.
- client: what may be repeated has no side effect and no body, for every
  operation; the class of an error tells the truth about the cluster; no body
  stays open; an interrupted call returns.
- S3 emptying: no key is skipped between pages, success means empty but for
  what came meanwhile or was refused, and only uploads ahead of the token
  prolong the loop.
- provider: a plan and its apply talk to one cluster; no handler gets a client
  it cannot use; a destroy uses the S3 settings of the configuration.
- data source: absent, empty and zero stay apart.
- spec-downgrade: the 3.0 document accepts what the 3.1 one does.

The full list of hazards, each at its line, is in `PROJECT.json`.

## Modules

```
BucketModel   pure: plan, diff, conversions       ApiErrors   statusToError
     |                                                |
   Garage     the server (external)                   |
     |                                                |
     +------------------ AdminClient -----------------+     one operator per call
                              |
   Custody <==(refinement)== BucketResource                 the handlers, step by step
                             /          \
                      MCBucket      BucketResourceProofs
                                        |
                                BucketApplyProofs
                                        |
                                BucketCustodyProofs

   OneCall  <==(refinement)==  RetryTransport               one HTTP call
                                |         \
        AdminApi (49 requests)  |      RetryTransportProofs
                        \       |              |
       ApiErrors ------ AdminCall ------ AdminCallProofs     one client call
                                |
                          MCTransport

   Purge    <==(refinement)==  EmptyBucket                   the paging loop
   PageLoop <==(refinement)==    /       \
                       MCEmptyBucket    EmptyBucketProofs

   ClusterInfo ---- Provider                                 configuration, data source
                    /      \
           MCProvider    ProviderProofs

   SchemaRewrites ---- SpecDowngrade ---- MCDowngrade        the build tool
                               \
                                SpecDowngradeProofs
```

**BucketModel** translates the schema's plan rules (an omitted `global_aliases`
keeps the state's value, an omitted `force_destroy` is false), the alias diff,
and the two conversions.  A quota attribute is a number or `Null`; on the wire
it is a field that may be absent, so that null and 0 stay apart.

**Garage** is the server, from how the client, the resource and their tests
use it: an alias belongs to one bucket; a last alias cannot be removed (400); a
bucket with objects cannot be deleted (409); UpdateBucket replaces both quotas.

**AdminClient** has one operator per client call.  A call ends in one of three
ways: refused by a cancelled context before it is sent; answered, its error
being `statusToError` of the status; or lost (`Failures`): the token is
refused, which the server does before it acts, or there is no usable answer, or
a 5xx (`Unclear`), and then the server has acted or not.  The client's own
checks (the empty alias, which the schema accepts) come first.

**BucketResource** is the state machine.  `tf` is the Terraform state, `cfg`
the configuration, `op` the running handler of each block with its program
counter, plan, and the aliases still to do.  Each action is one API call with
everything the handler does with its result:

| pc | action | code in `resource.go` |
|---|---|---|
| `idle` | `Read` (refresh, then plan), `PlanCreate`, `Import` | 254-282, 447-449 |
| `createBucket` | `CreateCall` | 183-188 |
| `addAlias` | `CreateAddAlias` | 203-220 |
| `setQuota` | `CreateSetQuota` | 222-229 |
| `createGet` | `CreateGet` | 231-245 |
| `rollback` | `Rollback` | 190-201 |
| `updateAdd`, `updateRemove`, `updateQuota`, `updateGet` | `UpdateAddAlias`, `UpdateRemoveAlias`, `UpdateSetQuota`, `UpdateGet` | 308-347 |
| `deleteGet`, `list`, `purge`, `deleteBucket` | `DeleteGet`, `EmptyList`, `EmptyPurge`, `DeleteCall` | 376-435, `s3empty.go` 61-105 |

The environment: `Cancel` (interrupt), `Crash` (kill), `Edit` (of the
configuration), `MoveAlias`, `ChangeQuota`, `DropBucket` (behind Terraform's
back), `Upload`.  Each spends from a budget (`left`), the one bound on a
behaviour.  Three history variables carry what the properties need: `known`
(unmanaged buckets whose loss was reported by an error, a log line or a kill),
`consent` (buckets whose last completed apply set `force_destroy`), `disturbed`
(blocks something has moved under since their refresh).

**Custody** is what the handlers promise of the buckets, without their calls: a
new bucket belongs to the block that makes it, or is reported lost; it enters
that block's state or is given up; it leaves the state when it is gone; only
its own block deletes it; a lost one can be imported.  `CustodySpec` says that
`BucketResource` keeps the promise, call by call: `made` is the bucket of a
running Create, `kept` the id in the state, `lost` is `known`, and `drops` what
the budget leaves of deletions by others.  Every other call is a stutter.

Two properties are about what comes after an apply.  `ResultAsPlanned`: what
Create and Update report agrees with the plan in every attribute, which
Terraform checks ("inconsistent result").  `StaysUpToDate`: a block that is up
to date stays so until somebody edits its configuration or changes its bucket
behind Terraform's back; its own refreshes plan nothing, and what other blocks
do, fail at or leave half done does not reach it.

**OneCall** is the abstract promise of one HTTP call: at most one execution of
a mutating request; a 2xx answer is the answer of an execution and carries the
server's state right after it; a 4xx is a refusal; else the caller does not
know.  **RetryTransport** is `RoundTrip`'s loop: attempts, doubling delays, the
body of each response, and a context that `Cancel` may cancel at any time (the
base transport then fails at once, `doSleep` sleeps on).  `CallSpec` says that
it implements `OneCall` (mapping: `done` is `pc = "returned"`, and the answer is
hidden until then).

**AdminApi** is the table of the 49 requests that the generated code builds:
method, query parameters that are always there, those that may be, and whether
there is a JSON body.  **AdminCall** is one call through all the layers.  Its
`phase` goes from `new` (the wrapper's argument checks: `Refuse`, or `Do`) over
`sent` (`Transport`, the steps of `RetryTransport`) to `done` (`NoAnswer`, or
`Parse`: the body is read, closed, decoded and judged).  `Wrapper` holds the
eight wrappers of `client.go`; the other operations are called through the
generated client alone, which judges no status.  `Class` is the decision of
`statusToError`, the decoder and the check for a nil `JSON200` together.
`EndsInOneStep` ties it to `AdminClient`: a finished call is one `Outcome`
(module `ApiErrors`), and `Request` of `AdminClient` is made of the same ones.

**EmptyBucket** is `emptyBucket`: `Validate`, then `ListObjects` and
`DeleteObjects` in turn, with `Upload` and `DeleteElsewhere` by others between
any two steps.  Keys are numbers in listing order, and the continuation token
is the key after which the next page starts, which is what it means to the
server.  A 200 of DeleteObjects may hide errors of single keys (`failed`).
**Purge** is the promise in one piece; `PurgeSpec` says that the loop keeps it,
`PagesMoveOn` that no key is handed over twice, and the steps `list` and
`purge` of `BucketResource` are it with one page.  **PageLoop** is what decides
whether the loop ends: the number of keys ahead of the token (mapping: `ahead`
is `Cardinality(Ahead)`, and 0 after the last page).  `LoopSpec` says that the
loop implements it: each page takes its keys off, and only uploads ahead of the
token add to them.

**Provider** takes a provider block and an environment through a plan and an
apply, each in a process of its own: `ValidateConfig` (the schema's two
validators), `Configure` (with `resolve`, `New` and `Diagnose`), then any
number of handlers: `Handler` (an admin call), `Read` of the data source,
`ForceDestroy` (the S3 calls, in an apply).  What is unknown in the plan is a
value or null in the apply (`StartApply`).  Every text carries its origin, so
that a property can tell the configuration from the environment.
**ClusterInfo** is the data source's conversion, where a Go pointer is a set of
at most one value.

**SchemaRewrites** has the three rewritings as functions on JSON objects,
`WalkNode`, which is one step of `walk` (a node before its children), and
`Means`, what a schema says given what the schemas below it say, with 3.1's type
unions and 3.0's `nullable`.  **SpecDowngrade** ties the knot.  `walk`,
`Accepts`, the schemas in a schema (`parts`) and its depth (`rank`) are
recursive over a tree of any depth; they are constants, with the equations that
define them as assumptions (`walk(x) = WalkNode(x, walk)` wherever the walk
comes by, and so on), so that the theorems may use them.  `MCDowngrade` gives
them the recursive definitions, and TLC evaluates the assumptions.  `Schemas`
are the schemas of the documents, those in them, and what the tool makes of
them: `Init` picks one, and `main` may run again on its output.

The properties are true under conditions, and these are what the tool relies
on.  `StillAccepted` (no value is refused that was accepted) excepts
tuples of unlike elements, which the tool's comment calls lossy, and choices
(`oneOf`) between schemas that are loosened: `{prefixItems: [T], items: false}`
and `{items: T}` exclude each other for some lists, and no longer do once the
first is a list as well, so that a value of one alternative has two.
`NothingMoreAccepted` is about documents in the 3.1 idioms (`Plain31`): a null
union beside `$ref` or `allOf` is not one, since `nullable` lets null past
them.  `IdiomsRewritten` says of such documents what the comment at `main.go:72`
says of all, where the run `downgrade_leftover` refutes it: no null union is
left after one run.  Garage's document meets the first condition, and the second but for its
one tuple, the name and value of a header.

## Runs

Every bucket run uses symmetry over bucket ids, except those with liveness
properties, where symmetry is unsound in TLC.  Deadlock is not checked: a
system whose configuration is all removed and applied, and a call that has
returned, have nothing left to do.

| Run | Question | Instance |
|---|---|---|
| `two_blocks` | two blocks hand aliases over, are renamed and destroyed: orphans, exclusive ownership, plans applied and reported, renames never refused, no perpetual diff, whose objects are deleted and when | 2 blocks, 3 buckets, 3 aliases, 2 keys; 1 lost answer, 2 edits, 2 uploads; 765k states |
| `one_block` | every early end of a handler; null and 0 of both quotas; the refinement of Custody | 1 block, 4 buckets, 2 aliases and the blank one, both quota fields; 2 lost answers, 1 interrupt, 1 kill, 1 deletion, 1 quota change, 1 edit; 850k |
| `converge` | do repeated applies settle (liveness) | 2 blocks, 1 alias drift, 1 lost answer, 1 edit that hands an alias over; 124k |
| `transport` | a call through all the layers: executions, bodies, errors, refinement, interrupts | all 49 operations, every set of empty arguments, 9 statuses and a connection error, 4 kinds of body; 97k |
| `empty_bucket` | the paging loop and its two refinements | 4 keys, pages of 2; 27k |
| `provider` | from configuration and environment to the handlers | 5 attributes, each null, unknown or a value, 5 variables, 3 kinds of endpoint, 10 answers; 483k |
| `downgrade` | the rewritings keep the meaning of a schema, and leave no null union | 6,467 schemas, up to two rewritings meeting at one node and one inside another, with all that the tool makes of them; the tool run again on its output; 14k |

Why the bounds are enough.  Two blocks are enough for any pairwise conflict
over an alias; a handler has at most one failure that ends it, so two faults
reach a failure and the failure of its rollback or of the retry; three buckets
let two blocks live next to an orphan; two edits make a change and a change
back, or a hand-over; two uploads put one object before a listing and one after
it.  Bucket ids are reused once nothing refers to them (a real id never
recurs), which keeps the instance finite.  The code tests a quota against null
and never against another number, so 0, the number that a careless test would
take for null, stands for them all.  In `transport` the attempts bound the
behaviour, and `MaxVersion` bounds what other clients do.  Four keys in pages
of two make a first, a middle (after uploads) and a last page, full and not
full.  The proofs below lift these bounds for the properties they cover.

Five further runs are counterexamples: the property is what a comment or a
document says, and TLC shows the code doing otherwise.

| Run | What it shows |
|---|---|
| `rollback_cancelled` | `resource.go:172` says the rollback's delete "will succeed"; after an interrupt it runs under the cancelled context and does not leave the process |
| `retry_stuck` | the design says a retry "will pick up the partial work" when the post-create read fails; Create rolls back instead, and if that fails too the orphan keeps the alias and every retry fails on it |
| `stale_alias` | a destroy empties "the bucket"; when its alias moves between the read and the S3 calls it empties another one |
| `exchange` | Update "reconciles" state to plan; two blocks that swap aliases never get there, since each adds before it removes |
| `downgrade_leftover` | `main.go:72` says that `walk` applies the rewritings "anywhere they appear"; the merge of a oneOf branch brings a null union into a node whose unions have been looked at already |

Two more disagreements between text and code need no run.  The implementation
plan (`docs/impl/0002-...md:602`) says that toggling `force_destroy` "applies
with zero API calls", and Update always ends with a GetBucket
(`resource.go:334`).  The comment at `transport.go:14` speaks of 250, 500 and
1000 ms, about 1.75 s; the loop breaks before the third delay, and
`WaitBounded` shows 750 ms.

`EmptiesItsOwnBucket` is checked twice: it holds in `two_blocks`, where
aliases do not move while a destroy runs, and fails in `stale_alias`, where one
does.

### Fairness

`FairSpec` has weak fairness of `Run(r)`, the steps of block r's handler
together with the refresh or plan that starts the next one: a handler's calls
return (the transport's attempts are bounded, `RetriesExhausted`), and the
operator applies again.  Nothing is assumed of the environment; its budget
ends.  `Converges` then says that applies settle everything, provided the
configurations can hold at once (`Compatible`), no bucket outside Terraform
holds a wanted alias (`AliasesAvailable`), and there is no swap (`Exchange`).
The last two provisos are the subjects of `retry_stuck` and `exchange`.

No liveness is claimed of `EmptyBucket`.  Nothing at `s3empty.go:82` bounds the
turns, there is always a key after the token, and an uploader that stores a
page of them in every turn keeps a destroy busy for ever.  On a finite set of
keys TLC would report that the loop ends whatever is uploaded, because the
token comes to the last of them; that says nothing of the code.  What holds is
`LoopSpec`: the number of keys ahead of the token bounds the turns that are
left, and only an upload ahead of it raises the number.  So the loop ends once
such uploads do, provided the S3 client's calls return; that last step is an
argument on paper.

`AdminFairSpec` assumes that the process takes its own steps, that delays end,
and that an exchange returns once its context is cancelled, which is what
`net/http` does.  It does not assume that any other exchange returns, since no
client in this code has a timeout; so `InterruptedCallReturns` is about
interrupted calls, and nothing is claimed of the others.

## Proofs

`BucketResourceProofs` proves, for every value of the constants (blocks,
buckets, aliases, quota fields, limits, keys, configurations, budgets):
`TypeOK`, `HandlerShape`, `NoSilentOrphan` and `Exclusive` are invariants of
`Spec`, and a quota survives the way to the wire and back (`QuotaRoundTrip`).
The assumptions are the named ASSUMEs of the modules: the special values
`Null`, `NoBucket`, `NoState` are not ordinary ones, the configurations and the
budget have their types.  TLC evaluates them in each run.

`NoSilentOrphan` is not inductive by itself: that a 404 or a successful delete
may drop a state entry rests on the handler working on its own block's bucket
(`HandlerShape`), and that a rollback does not take a managed bucket away rests
on a bucket having one place only (`Exclusive`, in the proof `Apart`: what one
block holds no other does, and it is not reported lost).  The invariant `Inv`
is the conjunction.  The proof goes block by block: `Holds(r, b)` says that r
accounts for b; `BlockStep` says that a step which concerns one block keeps
`Inv` if that block, or the report, goes on accounting for what it accounted
for.  The lemmas `...Facts` say what each client call leaves of the server and
what its error means; there is one `...Inv` lemma per action.

`BucketApplyProofs` proves what an apply achieves: `AppliedAsPlanned`,
`RenameNeverRefused`, `ResultAsPlanned`, `StaysUpToDate`, and whose objects a
destroy takes.  The invariant `ApplyInv` is about a handler's progress.  Of a
running Create (`Creating`): the bucket's aliases are the plan's less `adds`,
and its quotas none or the plan's.  Of a running Update (`Updating`): the
aliases are the plan's less `adds`, and `drops`; `drops` holds nothing of the
plan; the quotas are the state's or the plan's.  Both as long as the block is
not `disturbed`.  It is kept while others work because they work on other
buckets: `Apart` again, and `Tidy`, which says that aliases and quotas belong
to existing buckets.  A rename is never refused because, when it comes to
removing, every alias of the plan is there.

For objects, `Consenting` (a state entry with `force_destroy` names a bucket
that was applied with it) and `Purging` (the alias a purge uses still names its
bucket) go into the same invariant.  `ObjectsTakenByPurge` holds for all
constants; `EmptiesItsOwnBucket` and `ForceDestroyIsOptIn` follow from it under
`Calm`: the budget holds no alias move and no deletion behind Terraform's back.
They need that condition, as the run `stale_alias` shows, and it is the
condition of the run `two_blocks`.  It does not limit anything else: any
number of faults, edits, uploads, interrupts and kills.

`StaysUpToDate` has two halves: a step of another block leaves this one's
bucket `Untouched`, and a refresh of an up-to-date block finds in Garage what
its state says and plans nothing, an omitted `global_aliases` included
(`NothingToPlan`).  `ResultAsPlanned` follows from `AppliedAsPlanned`: the last
read of a handler finds the plan in Garage, so its conversion is the plan
(`FinalRead`).

`BucketCustodyProofs` proves `CustodySpec`, one lemma per action, from `Inv`
and `Tidy`: a bucket is made fresh because no block and no report holds its id,
given up only by the Create that made it, and deleted only by the block that
keeps it.

`RetryTransportProofs` proves `TypeOK`, `AtMostOnce`, `BodiesClosed`,
`WaitBounded`, `RetriesExhausted` and the refinement `CallSpec`.  Its invariant
adds the `Schedule` (the attempt determines the delay and the time waited) and
the account of executions against attempts (`Accounted`).

`AdminCallProofs` first shows that a call is a run of the transport
(`CallsAreTransportRuns`), so that the transport's invariant may be used inside
a call.  The lemma `Table` goes through the 49 requests: a mutating operation
is never sent by an idempotent method, and an idempotent one has no body.  With
that, `MutationsOnce`, `RepeatsNoBody`, `ErrorsTellTheTruth`, `NothingLeftOpen`
and `CallTypeOK` follow from the invariant `CallInv`, which says what is known
in each phase: nothing is executed or open before the request is sent
(`Sending`), and what was read and closed after the answer (`Answered`,
`Ended`).  They hold for every set of statuses.

Two theorems say that `BucketResource` may take a call in one step.
`CallsEndInOneStep` (in `AdminCallProofs`): a call through wrapper, generated
client and transport ends in an `Outcome` and has executed a mutating request
as often, once or not at all, as the outcome says (`Told`: how each end comes
about).  `CallsInOneStep` (in `BucketResourceProofs`): the operator `Request`,
with which `BucketResource` makes all its calls, is exactly those outcomes,
whatever the effect.  The first attempt at this failed, and rightly:
`Request` had no 5xx after an execution and no refused token, so that a
handler's rollback and retry after them were not covered.  They are now, in the
runs and in the proofs.

`EmptyBucketProofs` proves, for any set of keys and any page size, `TypeOK`,
`NothingSkipped`, `PagesMoveOn` and the two refinements.  `NothingSkipped` is nearly
inductive by itself; it needs that the loop starts without a token
(`Unlisted`).  `PageFacts` says what a listing leaves ahead of the next token.
`PagesMoveOn` needs that every listed page is behind the token (`Behind`).
`ImplementsPageLoop` counts: `PageTaken` says that a page which is not the last
takes `PageSize` keys off those ahead of the token.  It needs that the bucket
holds finitely many keys at a time (`Finite`), while the key space may be
endless.

`ProviderProofs` proves `OneTarget`, `UsableClient`, `S3AsConfigured`, `TypeOK`
and `InfoTellsAll`, for any endpoints and answers.  `OneTarget` is not
inductive: a process's data come from its configuration (`FromConfig`), and
calls of an earlier process mean that nothing which decides the target was
unknown, so that the apply cannot change it (`CallsSettled`).  The assumptions
are that null, unknown and "not configured" are no ordinary values, and that an
answer has the shape of `GetClusterStatusResponse` (`IsStatus`).

`SpecDowngradeProofs` proves what the build tool does to the meaning of a
document, for documents of any depth, any values, and any number of runs on its
own output: `StillAccepted`, `NothingMoreAccepted` and `IdiomsRewritten`.  It
rests on the assumptions of `SpecDowngrade`: a schema is a finite tree whose
keywords hold what they must (`SchemasAssumption`), the schemas in it and the
walked ones are schemas (`ClosedAssumption`), there is one null and arrays and
objects hold values (`ValuesAssumption`), and the equations of the recursive
operators.

The proof takes one schema first.  `UnionStep`, `TupleStep`, `OneOfStep` and
`Stripped` say what each rewriting leaves of the keywords, and
`RewriteKeeps` and `RewriteExact` what that means for a value while the schemas
below stay as they are.  `WalkCorresponds` then replaces the schemas below by
their walked selves, keyword by keyword.  A `oneOf` is the exception, since it
accepts less when a branch accepts more: `RewriteChoices` shows that the `oneOf`
left by the rewritings, which may be one that a merge brought up from a branch,
is a choice among faithful schemas or no choice but between one schema and
null, and `WalkedChoice` that such a one still accepts.  The induction is
`NoneWithout`: a set of schemas with one that fails has one of least rank.
An attempt at this proof is where the two conditions come from: without the one
on choices, and the one on `$ref` and `allOf`, a step fails, and TLC has the
counterexamples among the schemas `Alternatives` and `Beside` of `MCDowngrade`.

One walk is not enough, since neither condition outlives it: a walked schema is
no longer in the 3.1 idioms.  The inductive invariant `MeaningInv` therefore
has sets of schemas.  `Settled`: such that no rewriting applies to any of them;
the walk leaves them settled and means the same (`SettledWalk`), and an
idiomatic schema is settled after one walk (`PlainDone`: what a merge brings up
has no null union and no null branch, or else it would have taken null and
would have had to be the null branch).  `Faithful`: idiomatic or settled.
`Loose`: tuples uniform, and choices among faithful schemas; this is kept by
the walk (`LooseWalk`), and it is what `RefusesNothing` keeps of the document.
The condition on tuples had to be weakened for that: at first it was about
tuples without further elements (`items: false`), and a tuple beside a schema
of further elements comes to be by a merge.

Not proved, but checked by TLC: all liveness (`Converges`,
`InterruptedCallReturns`), which is out of the prover's reach, as is ENABLED.

## What is not modelled

- Terraform core beyond plan and call: its check that a new state agrees with
  the plan, tainting, `-target`, `-refresh=false`.  A refresh and its plan are
  one step; what happens between a plan and its handler's first call is
  interleaved all the same, because the handler has not started its calls.
- Read is one call and therefore one step.
- An import passes any id through (`resource.go:447`), that of a bucket which
  another block manages or which was made outside Terraform included.  `Import`
  takes a bucket that a failed run has reported and left behind (`known`), so
  on the import side `Exclusive` holds by that guard and says nothing of the
  code, which does not check; an operator who imports one bucket into two
  blocks has two owners of it.
- A context cancelled during a call: the call is unanswered (`fault`) and the
  next one is refused (`cancelled`); the two together are that case.
- In `BucketResource` a bucket fits in one page; `EmptyBucket` has the pages,
  for one bucket whose alias stays.
- A change of the environment variables, or of the provider's version, between
  a plan and its apply.
- Redirects, which `http.Client` follows, and answers that do not come from
  Garage: a 2xx is always the answer of an execution.
- The paths of the requests, the fields of the generated types, and the
  accessors of its union types: the bodies are opaque.  A base transport that
  returns a response together with an error, which its contract excludes.
- The input and output files of `spec-downgrade`: a failure to read or write
  ends it without an effect on the document.
- The acceptance-test fixtures (`internal/acctest`) start a container and stop
  it at the end of a test; the plugin entry point (`main.go`) hands over to the
  framework.  Neither keeps state.
- Attributes copied for display: `created`, `bytes`, `objects`,
  `unfinished_multipart_uploads`.
- A bucket has no local aliases or keys: the provider manages neither.
- A 404 that does not come from Garage (a proxy, a wrong endpoint) would be
  taken for a deletion by `Read`; the model's 404 always comes from Garage.

## Plan

Done: the handlers, the model, the client in all its layers, the transport, the
emptying loop, the provider configuration, the data source and the build tool;
four refinements; a proof of every safety and action property that a passing
run checks.

Done as well: the two models of a call, `AdminCall` with all its layers and
`AdminClient` in one step, are shown to agree.
