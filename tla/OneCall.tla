---- MODULE OneCall ----
(***************************************************************************)
(* What a caller of the admin client may assume of one HTTP call, whatever *)
(* the transport does underneath: the server executes a mutating request   *)
(* at most once; a 2xx answer is the answer of an execution, and carries   *)
(* the server's state right after it; a 4xx answer is a refusal; anything  *)
(* else leaves the caller not knowing.  The calls of module AdminClient    *)
(* are this specification with each call taken in one step.                *)
(***************************************************************************)
EXTENDS Integers

CONSTANTS
    Methods,    \* the HTTP methods in use
    Idempotent, \* those that change nothing on the server
    Statuses    \* the statuses a server may answer

VARIABLES
    method,   \* the request's method
    done,     \* whether the call has returned
    acts,     \* how often the server has executed the request
    version,  \* the server's state, as a number that every change increases
    answer    \* what the call returned: a status, or 0 for an error, and the
              \* version it carries

vars == <<method, done, acts, version, answer>>

NoAnswer == [status |-> 0, version |-> 0]
Answers == [status : Statuses \cup {0}, version : Nat]

Init ==
    /\ method \in Methods
    /\ done = FALSE
    /\ acts = 0
    /\ version \in Nat
    /\ answer = NoAnswer

\* The server executes the request; only a mutating one changes its state,
\* and only once.
Execute ==
    /\ method \notin Idempotent => acts = 0
    /\ acts' = acts + 1
    /\ version' = IF method \in Idempotent THEN version ELSE version + 1

Ignore == UNCHANGED <<acts, version>>

\* The call goes on after an execution, or after none.
Try ==
    /\ ~done
    /\ Execute \/ Ignore
    /\ UNCHANGED <<method, done, answer>>

Return ==
    /\ ~done
    /\ done' = TRUE
    /\ answer' \in Answers
    /\ \/ Execute /\ (answer'.status \in 200..299 => answer'.version = version')
       \/ Ignore /\ answer'.status \notin 200..299
    /\ answer'.status \in 400..499 => UNCHANGED acts
    /\ UNCHANGED method

\* Other clients change the server's state.
Interfere ==
    /\ version' = version + 1
    /\ UNCHANGED <<method, done, acts, answer>>

Next == Try \/ Return \/ Interfere

Spec == Init /\ [][Next]_vars
====
