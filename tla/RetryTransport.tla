---- MODULE RetryTransport ----
(***************************************************************************)
(* One request through the retrying transport (internal/client/transport): *)
(* RoundTrip hands the request to the base transport, and repeats an       *)
(* idempotent one after an error or a 5xx, with a growing delay.  The      *)
(* request's context may be cancelled at any time: the base transport then *)
(* fails at once, the loop's delays go on.  The server's state is a        *)
(* number, which executions of mutating requests and other clients         *)
(* increase.                                                               *)
(***************************************************************************)
EXTENDS Integers

CONSTANTS
    Methods,     \* the HTTP methods in use
    Statuses,    \* the statuses a server may answer
    MaxVersion   \* bound on the server's state, for model checking only

ASSUME StatusesAssumption == Statuses \subseteq 100..599
ASSUME MaxVersionAssumption == MaxVersion \in Nat

retryMaxAttempts == 3
retryBaseDelay == 250
\* A mutant: a steeper schedule.
steeperMultiplier == 4
retryMultiplier == 2

\* isIdempotent
Idempotent == {"GET", "HEAD", "OPTIONS"}

VARIABLES
    method,   \* the request's method
    pc,       \* "send", "backoff" or "returned"
    attempt,  \* the number of the attempt
    delay,    \* the next delay, in milliseconds
    waited,   \* the delays slept so far
    resp,     \* the last answer: its status and version; status 0 is an error
    open,     \* the attempts whose response body is still open
    cancelled,\* whether the request's context is cancelled
    acts,     \* how often the server has executed the request
    version   \* the server's state

vars == <<method, pc, attempt, delay, waited, resp, open, cancelled, acts, version>>

NoResponse == [status |-> 0, version |-> 0]

Init ==
    /\ method \in Methods
    /\ pc = "send"
    /\ attempt = 1
    /\ delay = retryBaseDelay
    /\ waited = 0
    /\ resp = NoResponse
    /\ open = {}
    /\ cancelled = FALSE
    /\ acts = 0
    /\ version = 0

\* A response that ends the loop.
Final(status) == status # 0 /\ status < 500

\* Mutants: one attempt less; any method; no limit.
RetriesOnceLess(status) ==
    method \in Idempotent /\ ~Final(status) /\ attempt < retryMaxAttempts - 1
RetriesAnyMethod(status) == ~Final(status) /\ attempt # retryMaxAttempts
RetriesForever(status) == method \in Idempotent /\ ~Final(status)

\* The loop goes on: an idempotent request, no final answer, attempts left.
Retries(status) ==
    /\ method \in Idempotent
    /\ ~Final(status)
    /\ attempt # retryMaxAttempts

\* The server executes the request.
Execute ==
    /\ acts' = acts + 1
    /\ version' = IF method \in Idempotent THEN version ELSE version + 1

\* The base transport's round trip.  A 2xx is the answer of an execution and
\* a 4xx is a refusal; behind an error or any other status the request may
\* have been executed or not.  Under a cancelled context nothing is sent.
RoundTrip ==
    /\ pc = "send"
    /\ \E status \in Statuses \cup {0} :
        /\ cancelled => status = 0
        /\ \/ /\ status \notin 400..499
              /\ ~cancelled
              /\ Execute
           \/ /\ status \notin 200..299
              /\ UNCHANGED <<acts, version>>
        /\ resp' = [status |-> status, version |-> IF status \in 200..299 THEN version' ELSE 0]
        /\ open' = IF status = 0 THEN open ELSE open \cup {attempt}
        /\ pc' = IF Retries(status) THEN "backoff" ELSE "returned"
    /\ UNCHANGED <<method, attempt, delay, waited, cancelled>>

\* A mutant of drainAndClose.
leaveOpen == UNCHANGED open

drainAndClose == open' = open \ {attempt}

\* A mutant: a sleep that the context cuts short, and nothing that wakes it.
sleepWhileWanted == ~cancelled /\ waited' = waited + delay

\* The sleep takes its time, whatever becomes of the context.
doSleep == waited' = waited + delay

\* The body is drained, then the sleep, and the next turn of the loop.
BackOff ==
    /\ pc = "backoff"
    /\ drainAndClose
    /\ doSleep
    /\ delay' = delay * retryMultiplier
    /\ attempt' = attempt + 1
    /\ pc' = "send"
    /\ UNCHANGED <<method, resp, cancelled, acts, version>>

\* Other clients change the server's state.
Interfere ==
    /\ version < MaxVersion
    /\ version' = version + 1
    /\ UNCHANGED <<method, pc, attempt, delay, waited, resp, open, cancelled, acts>>

\* Terraform interrupts the operation that makes the request.
Cancel ==
    /\ ~cancelled
    /\ cancelled' = TRUE
    /\ UNCHANGED <<method, pc, attempt, delay, waited, resp, open, acts, version>>

Next == RoundTrip \/ BackOff \/ Interfere \/ Cancel

Spec == Init /\ [][Next]_vars

----
(* Properties *)

\* Types of the state; attempts stay within their limit.
TypeOK ==
    /\ method \in Methods
    /\ pc \in {"send", "backoff", "returned"}
    /\ attempt \in 1..retryMaxAttempts
    /\ delay \in Nat
    /\ waited \in Nat
    /\ resp \in [status : Statuses \cup {0}, version : Nat]
    /\ open \in SUBSET (1..retryMaxAttempts)
    /\ cancelled \in BOOLEAN
    /\ acts \in Nat
    /\ version \in Nat

\* The server executes a mutating request at most once, and no request more
\* often than there are attempts: a POST whose answer is an error or a 5xx
\* is not sent again.
AtMostOnce ==
    /\ method \notin Idempotent => acts <= 1
    /\ acts <= retryMaxAttempts

\* The connection is never leaked and never taken from the caller: when the
\* call returns, the one open body is that of the response it returns, and
\* no body stays open across a retry.
BodiesClosed ==
    /\ pc = "send" => open = {}
    /\ open \subseteq {attempt}
    /\ pc = "returned" => (open = {attempt} <=> resp.status # 0)

\* A failed read has used every attempt, and a refusal is never repeated:
\* what the transport returns for an idempotent request is a final answer,
\* or the last of retryMaxAttempts.
RetriesExhausted ==
    pc = "returned" /\ method \in Idempotent =>
        \/ Final(resp.status)
        \/ attempt = retryMaxAttempts

\* The delays of one call add up to 750 ms at most, and only failures wait.
WaitBounded ==
    /\ waited <= 750
    /\ method \notin Idempotent => waited = 0

\* The transport keeps the promise of module OneCall.
Call == INSTANCE OneCall WITH
    done <- pc = "returned",
    answer <- IF pc = "returned" THEN resp ELSE NoResponse

CallSpec == Call!Spec
====
