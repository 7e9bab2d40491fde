---- MODULE AdminCall ----
(***************************************************************************)
(* One call of the admin client, from the typed wrapper (internal/client)  *)
(* through the generated client down to the retrying transport, and back:  *)
(* the wrapper's checks, the request, the attempts, the reading and        *)
(* decoding of the body, and the class of the error the caller gets.  The  *)
(* operators of module AdminClient are this module in one step.            *)
(***************************************************************************)
EXTENDS RetryTransport, AdminApi, ApiErrors

VARIABLES
    op,      \* the operation
    blank,   \* the caller's strings that are empty
    phase,   \* "new", "sent" or "done"
    body,    \* what the body turned out to be, "none" until it is read
    closed,  \* whether the generated client has closed the body
    err      \* the class of the result, "none" until the call is done

callVars == <<op, blank, phase, body, closed, err>>
allVars == <<vars, callVars>>

\* JSON that decodes; a body that is not labelled as JSON; one that is and
\* does not decode; one that breaks off.
Bodies == {"json", "other", "broken", "truncated"}

\* The wrappers: the strings the caller passes, those it refuses when they
\* are empty, and whether it returns a value.
Wrap(args, checked, value) == [args |-> args, checked |-> checked, value |-> value]

TypedGetClusterStatus == Wrap({}, {}, TRUE)
TypedCreateBucket == Wrap({}, {}, TRUE)
TypedGetBucket == Wrap({"id"}, {"id"}, TRUE)
TypedUpdateBucket == Wrap({"id"}, {"id"}, TRUE)
\* A mutant: a wrapper that lets an empty id through.
TypedDeleteUnchecked == Wrap({"id"}, {}, FALSE)
TypedDeleteBucket == Wrap({"id"}, {"id"}, FALSE)
TypedAddBucketAlias ==
    Wrap({"bucketID", "globalAlias"}, {"bucketID", "globalAlias"}, FALSE)
TypedAllowBucketKey ==
    Wrap({"bucketID", "accessKeyID"}, {"bucketID", "accessKeyID"}, FALSE)
TypedRemoveBucketAlias ==
    Wrap({"bucketID", "globalAlias"}, {"bucketID", "globalAlias"}, FALSE)

Wrapper == [
    GetClusterStatus |-> TypedGetClusterStatus,
    CreateBucket |-> TypedCreateBucket,
    GetBucketInfo |-> TypedGetBucket,
    UpdateBucket |-> TypedUpdateBucket,
    DeleteBucket |-> TypedDeleteBucket,
    AddBucketAlias |-> TypedAddBucketAlias,
    AllowBucketKey |-> TypedAllowBucketKey,
    RemoveBucketAlias |-> TypedRemoveBucketAlias
]

\* The other operations are called through the generated client alone.
Wrapped == op \in DOMAIN Wrapper

\* The strings of a call: those of the wrapper, or the query's parameters.
Strings(o) ==
    IF o \in DOMAIN Wrapper THEN Wrapper[o].args ELSE Api[o].must \cup Api[o].may

AdminInit ==
    /\ Init
    /\ op \in Operations
    /\ method = Api[op].method
    /\ blank \in SUBSET Strings(op)
    /\ phase = "new"
    /\ body = "none"
    /\ closed = FALSE
    /\ err = "none"

Finish(class) ==
    /\ phase' = "done"
    /\ err' = class

\* An empty string that the wrapper does not send.
Refused == Wrapped /\ blank \cap Wrapper[op].checked # {}

Refuse ==
    /\ phase = "new"
    /\ Refused
    /\ Finish("invalid")
    /\ UNCHANGED <<vars, op, blank, body, closed>>

\* The generated client builds the request and hands it to the HTTP client.
Do ==
    /\ phase = "new"
    /\ ~Refused
    /\ phase' = "sent"
    /\ UNCHANGED <<vars, op, blank, body, closed, err>>

Transport ==
    /\ phase = "sent"
    /\ RoundTrip \/ BackOff
    /\ UNCHANGED callVars

\* Do returns an error.
NoAnswer ==
    /\ phase = "sent"
    /\ pc = "returned"
    /\ resp.status = 0
    /\ Finish("transport")
    /\ UNCHANGED <<vars, op, blank, body, closed>>

\* The parser's JSON200.
Decoded(b) == DecodesJson(op) /\ resp.status = 200 /\ b = "json"

\* A mutant: a caller that trusts any answer it could read.
ClassUnchecked(b) ==
    IF DecodesJson(op) /\ resp.status = 200 /\ b = "broken" THEN "transport" ELSE "ok"

\* What the caller gets for an answer with a complete body.  The generated
\* client alone judges no status: "answered".
Class(b) ==
    LET class == StatusToError(resp.status) IN
    IF DecodesJson(op) /\ resp.status = 200 /\ b = "broken" THEN "transport"
    ELSE IF ~Wrapped THEN "answered"
    ELSE IF class = "ok" /\ Wrapper[op].value /\ ~Decoded(b) THEN "transport"
    ELSE class

\* A mutant: the body is closed only when it was read to its end.
CloseComplete(b) == closed' = (b # "truncated")

\* The deferred close, however the reading ends.
Close(b) == closed' = TRUE

\* The answer is read to its end, decoded and judged.
Parse ==
    /\ phase = "sent"
    /\ pc = "returned"
    /\ resp.status # 0
    /\ \E b \in Bodies :
        /\ body' = b
        /\ Close(b)
        /\ Finish(IF b = "truncated" THEN "transport" ELSE Class(b))
    /\ UNCHANGED <<vars, op, blank>>

Environment ==
    /\ phase # "done"
    /\ Interfere \/ Cancel
    /\ UNCHANGED callVars

AdminNext == Refuse \/ Do \/ Transport \/ NoAnswer \/ Parse \/ Environment

AdminSpec == AdminInit /\ [][AdminNext]_allVars

\* The process runs on its own steps, delays included, and an interrupted
\* exchange returns.  Nothing says that any other exchange does: no client
\* in this code has a timeout.
AdminFairSpec ==
    /\ AdminSpec
    /\ WF_allVars(Refuse \/ Do \/ NoAnswer)
    /\ WF_allVars(phase = "sent" /\ BackOff /\ UNCHANGED callVars)
    /\ WF_allVars(cancelled /\ Transport)
    /\ WF_allVars(cancelled /\ Parse)

----
(* Properties *)

\* Types of the state: the operation does not change under way, and the
\* transport makes no more attempts than its limit.
CallTypeOK ==
    /\ TypeOK
    /\ op \in Operations
    /\ method = Api[op].method
    /\ blank \in SUBSET Strings(op)
    /\ phase \in {"new", "sent", "done"}
    /\ body \in Bodies \cup {"none"}
    /\ closed \in BOOLEAN
    /\ err \in ErrorClasses \cup {"none", "answered"}

\* No operation that changes the cluster is executed twice by one call: the
\* transport decides by the HTTP method alone what it may repeat, and the
\* generated client gives every mutating operation a method that it may not.
MutationsOnce == op \in Mutating => acts <= 1

\* The transport sends the same request value again, whose body the first
\* attempt has consumed: no request that is repeated may have one.
RepeatsNoBody == attempt > 1 => ~Api[op].body

\* What the class of a wrapper's result tells about the cluster, whatever
\* happened on the way.  Success is the answer of an execution, and brings
\* the value where there is one; a refusal of a mutating operation means that
\* nothing was done, so that the caller may drop or keep its state on it; an
\* empty string never leaves the process.
ErrorsTellTheTruth ==
    phase = "done" /\ Wrapped =>
        /\ err = "ok" => acts >= 1 /\ (Wrapper[op].value => body = "json")
        /\ op \in Mutating /\ err \in {"notFound", "unauthorized", "forbidden"} => acts = 0
        /\ blank # {} => err = "invalid" /\ acts = 0

\* Seen from its caller, a call is the one step that module AdminClient takes
\* for it: refused unsent, or answered by a server that has executed a
\* mutating request exactly when it says so, or lost, and then the caller is
\* told nothing that is false.  Nothing else comes out of the attempts, the
\* decoding and the wrapper's checks together.
EndsInOneStep ==
    phase = "done" /\ Wrapped =>
        IF Refused THEN err = "invalid" /\ acts = 0
        ELSE \E status \in 100..599, lost, acted \in BOOLEAN :
            /\ Outcome(status, lost, acted, err)
            /\ lost \/ status = resp.status
            /\ op \in Mutating => acts = IF acted THEN 1 ELSE 0

\* When the call is over, the body of the last answer is closed: that of the
\* earlier ones by the transport, the last by the parser, on every path.
NothingLeftOpen == phase = "done" => open = {} \/ closed

\* An interrupted call returns, although the transport neither looks at the
\* context nor cuts its delays short, and no client has a timeout.
InterruptedCallReturns == cancelled ~> phase = "done"
====
