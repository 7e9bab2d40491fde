---- MODULE ApiErrors ----
(***************************************************************************)
(* The error classes of the admin client (internal/client/errors.go).      *)
(***************************************************************************)
EXTENDS Integers

\* "server" is ErrServerError; "transport" an exchange that ended without an
\* answer; "invalid" a call the client refuses to send; "cancelled" a call
\* made under a cancelled context.
ErrorClasses ==
    {"ok", "notFound", "unauthorized", "forbidden", "server",
     "transport", "invalid", "cancelled"}

\* statusToError: whatever is not named, 1xx and 3xx included, is a server
\* error.
StatusToError(status) ==
    CASE status \in 200..299 -> "ok"
      [] status = 404        -> "notFound"
      [] status = 401        -> "unauthorized"
      [] status = 403        -> "forbidden"
      [] OTHER               -> "server"

\* The errors that leave the caller not knowing whether the server acted: an
\* exchange without an answer, and a 5xx, which may follow an execution.
Unclear == {"transport", "server"}

\* The errors of an exchange that goes wrong whatever the server's state: also
\* a token that is refused.
Failures == Unclear \cup {"unauthorized", "forbidden"}

----
(* The result of one call *)

\* What a caller may get, and whether the server has acted, where `status` is
\* what the server answers to the request when nothing goes wrong (`lost`).
Outcome(status, lost, acted, err) ==
    IF lost
    THEN err \in Failures /\ (acted => status \in 200..299 /\ err \in Unclear)
    ELSE err = StatusToError(status) /\ (acted <=> status \in 200..299)
====
