---- MODULE RetryTransportProofs ----
(***************************************************************************)
(* The properties of the retrying transport, and the proof that it         *)
(* implements OneCall, for all methods, statuses and bounds.               *)
(***************************************************************************)
EXTENDS RetryTransport, TLAPS

\* The attempt fixes the schedule.
Schedule ==
    /\ delay = IF attempt = 1 THEN 250 ELSE IF attempt = 2 THEN 500 ELSE 1000
    /\ waited = IF attempt = 1 THEN 0 ELSE IF attempt = 2 THEN 250 ELSE 750

\* Every attempt so far executed the request once at most, and only an
\* idempotent request has a second attempt.
Accounted ==
    /\ acts <= IF pc = "send" THEN attempt - 1 ELSE attempt
    /\ method \notin Idempotent => attempt = 1 /\ pc # "backoff"
    /\ pc = "backoff" => attempt < retryMaxAttempts

Inv ==
    /\ TypeOK
    /\ Schedule
    /\ Accounted
    /\ BodiesClosed
    /\ RetriesExhausted

\* The invariant holds at the start.
LEMMA InitInv == Init => Inv
<1> SUFFICES ASSUME Init PROVE Inv
  OBVIOUS
<1>1. TypeOK
  <2>1. resp \in [status : Statuses \cup {0}, version : Nat]
    BY DEF Init, NoResponse
  <2>2. cancelled \in BOOLEAN
    BY DEF Init
  <2> QED
    BY <2>1, <2>2 DEF Init, TypeOK, retryBaseDelay, retryMaxAttempts
<1>2. Schedule /\ Accounted /\ BodiesClosed /\ RetriesExhausted
  BY DEF Init, Schedule, Accounted, BodiesClosed, RetriesExhausted, retryBaseDelay
<1> QED
  BY <1>1, <1>2 DEF Inv

\* A round trip executes the request once at most; what it answers decides
\* whether the loop goes on.
LEMMA RoundTripFacts ==
    ASSUME Inv, RoundTrip
    PROVE  \E status \in Statuses \cup {0} :
             /\ pc = "send"
             /\ status \in Nat
             /\ acts' \in {acts, acts + 1} /\ version' \in Nat
             /\ resp' \in [status : {status}, version : Nat]
             /\ open' = IF status = 0 THEN {} ELSE {attempt}
             /\ pc' = IF Retries(status) THEN "backoff" ELSE "returned"
             /\ UNCHANGED <<method, attempt, delay, waited, cancelled>>
<1>1. /\ pc = "send" /\ open = {} /\ version \in Nat
      /\ UNCHANGED <<method, attempt, delay, waited, cancelled>>
  BY DEF RoundTrip, Inv, TypeOK, BodiesClosed
<1>2. PICK status \in Statuses \cup {0} :
        /\ Execute \/ UNCHANGED <<acts, version>>
        /\ resp' = [status |-> status, version |-> IF status \in 200..299 THEN version' ELSE 0]
        /\ open' = IF status = 0 THEN open ELSE open \cup {attempt}
        /\ pc' = IF Retries(status) THEN "backoff" ELSE "returned"
  BY DEF RoundTrip
<1>3. acts' \in {acts, acts + 1} /\ version' \in Nat
  BY <1>1, <1>2 DEF Execute
<1>4. status \in Nat
  BY StatusesAssumption
<1>5. (IF status \in 200..299 THEN version' ELSE 0) \in Nat
  BY <1>3
<1> QED
  BY <1>1, <1>2, <1>3, <1>4, <1>5

\* A round trip keeps the invariant.
LEMMA RoundTripInv == Inv /\ RoundTrip => Inv'
<1> SUFFICES ASSUME Inv, RoundTrip PROVE Inv'
  OBVIOUS
<1>1. PICK status \in Statuses \cup {0} :
        /\ pc = "send"
        /\ status \in Nat
        /\ acts' \in {acts, acts + 1} /\ version' \in Nat
        /\ resp' \in [status : {status}, version : Nat]
        /\ open' = IF status = 0 THEN {} ELSE {attempt}
        /\ pc' = IF Retries(status) THEN "backoff" ELSE "returned"
        /\ UNCHANGED <<method, attempt, delay, waited, cancelled>>
  BY RoundTripFacts
<1>2. attempt \in 1..retryMaxAttempts /\ acts \in Nat /\ acts <= attempt - 1
  BY <1>1 DEF Inv, TypeOK, Accounted, retryMaxAttempts
<1>3. TypeOK'
  BY <1>1, <1>2 DEF Inv, TypeOK, retryMaxAttempts
<1>4. Schedule'
  BY <1>1 DEF Inv, Schedule
<1>5. Accounted'
  BY <1>1, <1>2 DEF Inv, Accounted, Retries, retryMaxAttempts
<1>6. BodiesClosed'
  BY <1>1 DEF BodiesClosed, Retries
<1>7. RetriesExhausted'
  BY <1>1 DEF RetriesExhausted, Retries
<1> QED
  BY <1>3, <1>4, <1>5, <1>6, <1>7 DEF Inv

\* So does a retry's delay.
LEMMA BackOffInv == Inv /\ BackOff => Inv'
<1> SUFFICES ASSUME Inv, BackOff PROVE Inv'
  OBVIOUS
<1>1. /\ pc = "backoff" /\ pc' = "send"
      /\ attempt \in {1, 2} /\ attempt' = attempt + 1
      /\ open' = {}
      /\ waited' = waited + delay /\ delay' = delay * 2
      /\ UNCHANGED <<method, resp, cancelled, acts, version>>
  BY DEF BackOff, drainAndClose, doSleep, retryMultiplier, Inv, TypeOK, Accounted, BodiesClosed, retryMaxAttempts
<1>2. TypeOK'
  BY <1>1 DEF Inv, TypeOK, retryMaxAttempts
<1>3. Schedule'
  BY <1>1 DEF Inv, Schedule
<1>4. Accounted'
  BY <1>1 DEF Inv, TypeOK, Accounted
<1>5. BodiesClosed' /\ RetriesExhausted'
  BY <1>1 DEF BodiesClosed, RetriesExhausted
<1> QED
  BY <1>2, <1>3, <1>4, <1>5 DEF Inv

\* Every step keeps the invariant.
LEMMA NextInv == Inv /\ [Next]_vars => Inv'
<1> SUFFICES ASSUME Inv, [Next]_vars PROVE Inv'
  OBVIOUS
<1>1. CASE RoundTrip
  BY <1>1, RoundTripInv
<1>2. CASE BackOff
  BY <1>2, BackOffInv
<1>3. CASE Interfere
  BY <1>3 DEF Interfere, Inv, TypeOK, Schedule, Accounted, BodiesClosed, RetriesExhausted, Final
<1>4. CASE Cancel
  BY <1>4 DEF Cancel, Inv, TypeOK, Schedule, Accounted, BodiesClosed, RetriesExhausted, Final
<1>5. CASE UNCHANGED vars
  BY <1>5 DEF vars, Inv, TypeOK, Schedule, Accounted, BodiesClosed, RetriesExhausted, Final
<1> QED
  BY <1>1, <1>2, <1>3, <1>4, <1>5 DEF Next

\* The inductive invariant of the transport.
THEOREM Invariance == Spec => []Inv
BY InitInv, NextInv, PTL DEF Spec

\* The variables keep their types.
THEOREM Typed == Spec => []TypeOK
<1>1. Inv => TypeOK
  BY DEF Inv
<1> QED
  BY <1>1, Invariance, PTL

\* A request that changes the server's state is executed at most once.
THEOREM MutatesAtMostOnce == Spec => []AtMostOnce
<1>1. Inv => AtMostOnce
  BY DEF Inv, TypeOK, Accounted, AtMostOnce, retryMaxAttempts
<1> QED
  BY <1>1, Invariance, PTL

\* No response body is leaked, and the caller's is never closed.
THEOREM NoBodyLeaks == Spec => []BodiesClosed
<1>1. Inv => BodiesClosed
  BY DEF Inv
<1> QED
  BY <1>1, Invariance, PTL

\* The delays of a call stay within 750 ms.
THEOREM DelaysBounded == Spec => []WaitBounded
<1>1. Inv => WaitBounded
  BY DEF Inv, Schedule, Accounted, WaitBounded
<1> QED
  BY <1>1, Invariance, PTL

\* A read that fails has used every attempt.
THEOREM FailedReadsRetried == Spec => []RetriesExhausted
<1>1. Inv => RetriesExhausted
  BY DEF Inv
<1> QED
  BY <1>1, Invariance, PTL

----
(* Refinement *)

\* The call starts as OneCall's does.
LEMMA InitMaps == Init => Call!Init
BY DEF Init, Call!Init, NoResponse, Call!NoAnswer

\* An attempt that is retried is a Try of OneCall, the last one its Return.
LEMMA RoundTripMaps ==
    ASSUME Inv, RoundTrip
    PROVE  Call!Try \/ Call!Return
<1>1. /\ pc = "send" /\ UNCHANGED method
      /\ acts \in Nat /\ version \in Nat
      /\ method \notin Idempotent => acts = 0
  BY DEF RoundTrip, Inv, TypeOK, Accounted
<1>2. PICK status \in Statuses \cup {0} :
        /\ \/ status \notin 400..499 /\ Execute
           \/ status \notin 200..299 /\ UNCHANGED <<acts, version>>
        /\ resp' = [status |-> status, version |-> IF status \in 200..299 THEN version' ELSE 0]
        /\ pc' \in {"backoff", "returned"}
  BY DEF RoundTrip
<1>3. status \in Nat
  BY StatusesAssumption
<1>4. Execute => Call!Execute
  BY <1>1 DEF Execute, Call!Execute
<1>5. UNCHANGED <<acts, version>> => Call!Ignore
  BY DEF Call!Ignore
<1>6. CASE pc' = "backoff"
  BY <1>1, <1>2, <1>4, <1>5, <1>6 DEF Call!Try
<1>7. CASE pc' = "returned"
  <2>1. resp' \in Call!Answers
    <3>1. version' \in Nat
      BY <1>1, <1>2 DEF Execute
    <3> QED
      BY <1>2, <3>1 DEF Call!Answers
  <2>2. resp'.status = status /\ (status \in 200..299 => resp'.version = version')
    BY <1>2
  <2>3. \/ Call!Execute /\ (status \in 200..299 => resp'.version = version')
        \/ Call!Ignore /\ status \notin 200..299
    BY <1>2, <1>4, <1>5, <2>2
  <2>4. status \in 400..499 => UNCHANGED acts
    BY <1>2, <1>3
  <2> QED
    BY <1>1, <1>7, <2>1, <2>2, <2>3, <2>4 DEF Call!Return
<1> QED
  BY <1>2, <1>6, <1>7

\* Every step of the transport is one of OneCall's, or invisible.
LEMMA NextMaps == Inv /\ [Next]_vars => [Call!Next]_Call!vars
<1> SUFFICES ASSUME Inv, [Next]_vars PROVE [Call!Next]_Call!vars
  OBVIOUS
<1>1. CASE RoundTrip
  BY <1>1, RoundTripMaps DEF Call!Next
<1>2. CASE BackOff
  BY <1>2 DEF BackOff, Call!vars
<1>3. CASE Interfere
  BY <1>3 DEF Interfere, Call!Interfere, Call!Next
<1>4. CASE Cancel \/ UNCHANGED vars
  BY <1>4 DEF Cancel, vars, Call!vars
<1> QED
  BY <1>1, <1>2, <1>3, <1>4 DEF Next

\* The transport keeps the promise of OneCall: through all the attempts, a
\* caller sees one call.
THEOREM ImplementsOneCall == Spec => CallSpec
BY InitMaps, NextMaps, Invariance, PTL DEF Spec, CallSpec, Call!Spec
====
