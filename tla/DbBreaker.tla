------------------------------ MODULE DbBreaker ------------------------------
(***************************************************************************)
(* The circuit breaker around every Prisma call of a process               *)
(* (packages/db/src/index.ts): runWithDbProtection asks the breaker,       *)
(* retries transient errors, and tells the breaker how the call ended.     *)
(*                                                                         *)
(* A call asks the breaker when it starts and reports when it ends; other  *)
(* calls start and end, and time passes, in between.  The breaker decides  *)
(* on the end of a call by what the call was when it started               *)
(* (wasHalfOpenRequest), not by what the breaker is now.                   *)
(*                                                                         *)
(* Time is a number of ticks: circuitOpenUntilMs is how long the breaker   *)
(* stays open yet, a timestamp of a failure is the age of the failure.     *)
(***************************************************************************)
EXTENDS Integers, Sequences, FiniteSets

CONSTANTS Calls,           \* the callers of a process
          Threshold,       \* DB_CIRCUIT_FAILURE_THRESHOLD
          Window,          \* DB_CIRCUIT_WINDOW_MS
          OpenTime,        \* DB_CIRCUIT_OPEN_MS
          ProbeSuccesses,  \* DB_CIRCUIT_HALF_OPEN_SUCCESS_THRESHOLD
          MaxAttempts      \* DB_RETRY_ATTEMPTS

ASSUME BreakerAssumption ==
  /\ Threshold \in Nat \ {0}
  /\ Window \in Nat
  /\ OpenTime \in Nat
  /\ ProbeSuccesses \in Nat \ {0}
  /\ MaxAttempts \in Nat \ {0}

VARIABLES
  state,      \* circuitBreakerState
  cool,       \* circuitOpenUntilMs - now, 0 when it is past
  successes,  \* halfOpenSuccessCount
  inFlight,   \* halfOpenInFlight
  timestamps, \* transientFailureTimestampsMs, as ages, the oldest first
  running,    \* running[c]: the call is between its check and its end
  probe,      \* probe[c]: wasHalfOpenRequest
  attempt,    \* attempt[c]: the attempt of runWithDbRetry
  calm        \* environment: every operation succeeds

breaker == <<state, cool, successes, inFlight, timestamps>>
call == <<running, probe, attempt>>
breakerVars == <<breaker, call, calm>>

BreakerInit ==
  /\ state = "closed"
  /\ cool = 0
  /\ successes = 0
  /\ inFlight = FALSE
  /\ timestamps = <<>>
  /\ running = [c \in Calls |-> FALSE]
  /\ probe = [c \in Calls |-> FALSE]
  /\ attempt = [c \in Calls |-> 1]
  /\ calm \in BOOLEAN

-----------------------------------------------------------------------------
OpenCircuit ==
  /\ state' = "open"
  /\ cool' = OpenTime
  /\ successes' = 0
  /\ inFlight' = FALSE

CloseWith(kept) ==
  /\ state' = "closed"
  /\ cool' = 0
  /\ successes' = 0
  /\ inFlight' = FALSE
  /\ timestamps' = kept

CloseCircuit == CloseWith(<<>>)

(***************************************************************************)
(* checkCircuitBeforeRequest, when it lets the call through; a rejected    *)
(* call changes nothing.                                                   *)
(***************************************************************************)
Start(c, asProbe) ==
  /\ ~running[c]
  /\ running' = [running EXCEPT ![c] = TRUE]
  /\ probe' = [probe EXCEPT ![c] = asProbe]
  /\ attempt' = [attempt EXCEPT ![c] = 1]
  /\ UNCHANGED <<cool, timestamps, calm>>

RequestClosed(c) ==
  /\ state = "closed"
  /\ Start(c, FALSE)
  /\ UNCHANGED <<state, successes, inFlight>>

\* startHalfOpen, and the call is the first probe.
RequestAfterCooling(c) ==
  /\ state = "open"
  /\ cool = 0
  /\ Start(c, TRUE)
  /\ state' = "half-open"
  /\ successes' = 0
  /\ inFlight' = TRUE

RequestHalfOpen(c) ==
  /\ state = "half-open"
  /\ ~inFlight
  /\ Start(c, TRUE)
  /\ inFlight' = TRUE
  /\ UNCHANGED <<state, successes>>

Request(c) == RequestClosed(c) \/ RequestAfterCooling(c) \/ RequestHalfOpen(c)

-----------------------------------------------------------------------------

\* runWithDbRetry: a transient error that is not the last one.
TryAgain(c) ==
  /\ running[c]
  /\ ~calm
  /\ attempt[c] < MaxAttempts
  /\ attempt' = [attempt EXCEPT ![c] = @ + 1]
  /\ UNCHANGED <<breaker, running, probe, calm>>

End(c) ==
  /\ running[c]
  /\ running' = [running EXCEPT ![c] = FALSE]
  /\ UNCHANGED <<probe, attempt, calm>>

\* (Changed form: only the success that closes the breaker frees the gate.)
SucceedHoldingGate(c) ==
  /\ End(c)
  /\ \/ /\ probe[c]
        /\ successes + 1 < ProbeSuccesses
        /\ successes' = successes + 1
        /\ UNCHANGED <<state, cool, inFlight, timestamps>>
     \/ /\ probe[c]
        /\ successes + 1 >= ProbeSuccesses
        /\ CloseCircuit
     \/ /\ ~probe[c]
        /\ UNCHANGED breaker

\* onCircuitSuccess
Succeed(c) ==
  /\ End(c)
  /\ \/ /\ probe[c]
        /\ successes + 1 < ProbeSuccesses
        /\ successes' = successes + 1
        /\ inFlight' = FALSE
        /\ UNCHANGED <<state, cool, timestamps>>
     \/ /\ probe[c]
        /\ successes + 1 >= ProbeSuccesses
        /\ CloseCircuit
     \/ /\ ~probe[c]
        /\ UNCHANGED breaker

\* (Changed form: the failed probe keeps the gate.)
FailHardHoldingGate(c) ==
  /\ ~calm
  /\ End(c)
  /\ UNCHANGED breaker

\* onCircuitFailure of an error that is not transient.
FailHard(c) ==
  /\ ~calm
  /\ End(c)
  /\ inFlight' = (inFlight /\ ~probe[c])
  /\ UNCHANGED <<state, cool, successes, timestamps>>

\* pruneFailureWindow: the failures up to the first that is young enough.
Stale == {k \in 1..Len(timestamps) : \A j \in 1..k : timestamps[j] > Window}
Pruned == SubSeq(timestamps, Cardinality(Stale) + 1, Len(timestamps))

\* onCircuitFailure of the last transient error of a call.
FailTransient(c) ==
  /\ ~calm
  /\ attempt[c] = MaxAttempts
  /\ End(c)
  /\ \/ /\ probe[c] \/ state = "half-open"
        /\ OpenCircuit
        /\ UNCHANGED timestamps
     \/ /\ ~probe[c]
        /\ state # "half-open"
        /\ timestamps' = Append(Pruned, 0)
        /\ IF Len(timestamps') >= Threshold
           THEN OpenCircuit
           ELSE UNCHANGED <<state, cool, successes, inFlight>>

-----------------------------------------------------------------------------
\* Ages stop where they no longer matter.
Ages == 0..Window + 1
Older(age) == IF age > Window THEN age ELSE age + 1

Tick ==
  /\ cool' = IF cool > 0 THEN cool - 1 ELSE 0
  /\ timestamps' = [k \in 1..Len(timestamps) |-> Older(timestamps[k])]
  /\ UNCHANGED <<state, successes, inFlight, call, calm>>

\* The database gets into trouble or recovers.
Weather == calm' = ~calm /\ UNCHANGED <<breaker, call>>

BreakerNext ==
  \/ \E c \in Calls : \/ Request(c) \/ TryAgain(c) \/ Succeed(c)
                      \/ FailHard(c) \/ FailTransient(c)
  \/ Tick
  \/ Weather

BreakerSpec == BreakerInit /\ [][BreakerNext]_breakerVars

(***************************************************************************)
(* Callers come again, every operation ends (the driver and its pool time  *)
(* out), and time passes.                                                  *)
(***************************************************************************)
Goes(c) == TryAgain(c) \/ Succeed(c) \/ FailHard(c) \/ FailTransient(c)

FairBreakerSpec ==
  /\ BreakerSpec
  /\ WF_breakerVars(\E c \in Calls : Request(c))
  /\ \A c \in Calls : WF_breakerVars(Goes(c))
  /\ WF_breakerVars(Tick)

-----------------------------------------------------------------------------
\* The breaker's variables are in range: the success count never reaches its
\* threshold without closing the breaker.
BreakerTypeOK ==
  /\ state \in {"closed", "open", "half-open"}
  /\ cool \in 0..OpenTime
  /\ successes \in 0..ProbeSuccesses - 1
  /\ inFlight \in BOOLEAN
  /\ timestamps \in Seq(Ages)
  /\ running \in [Calls -> BOOLEAN]
  /\ probe \in [Calls -> BOOLEAN]
  /\ attempt \in [Calls -> 1..MaxAttempts]
  /\ calm \in BOOLEAN

(***************************************************************************)
(* The gate is never left shut: while halfOpenInFlight rejects every call  *)
(* there is a running probe whose end will clear it, whatever calls of     *)
(* earlier phases did to the flag.                                         *)
(***************************************************************************)
GateOwned ==
  inFlight => /\ state = "half-open"
              /\ \E c \in Calls : running[c] /\ probe[c]

(***************************************************************************)
(* A closed breaker can still take a failure: the failures before and      *)
(* during an open phase do not make the first transient error after the    *)
(* recovery open it again at once (unless the threshold is 1).             *)
(***************************************************************************)
ClosedBelowThreshold == state = "closed" => Len(timestamps) < Threshold

(***************************************************************************)
(* When the database recovers for good, the breaker closes for good.       *)
(***************************************************************************)
Recovers == <>[]calm => <>[](state = "closed")

(***************************************************************************)
(* docs/db-resilience.md on the half-open state: "one probe in flight at a *)
(* time".                                                                  *)
(***************************************************************************)
OneProbe ==
  state = "half-open" =>
    \A c, d \in Calls : running[c] /\ probe[c] /\ running[d] /\ probe[d] => c = d

=============================================================================
