---- MODULE MCTransport ----
(* Values for the TLC run of AdminCall. *)
EXTENDS AdminCall

SomeMethods == {"GET", "POST"}
SomeStatuses == {200, 204, 301, 401, 403, 404, 429, 500, 503}
====
