---------------------------- MODULE CircuitBreaker ----------------------------
(***************************************************************************)
(* One integration provider of one tenant: its circuit breaker, the        *)
(* retried network call behind it, and IntegrationsRegistryService's       *)
(* broadcast, which many requests run on the same provider at once.        *)
(*                                                                         *)
(* The code is single threaded: a handler runs until its next await.  What *)
(* runs without an await is one action.  A call is therefore: Execute (the *)
(* read of stateBefore, and execute() up to the first network attempt),    *)
(* one Attempt per network answer, and Report (the read of stateAfter, in  *)
(* a later microtask than onSuccess/onFailure, so other calls may settle   *)
(* in between).                                                            *)
(***************************************************************************)
EXTENDS Integers, Sequences, FiniteSets

CONSTANTS
    Calls,              \* broadcasts that can be at the provider at once
    FailureThreshold,   \* consecutive failures that open the circuit
    ResetTimeout,       \* cooldown, in ticks of the clock
    MaxAttempts,        \* withRetry's maxAttempts
    MaxFailures,        \* bound on consecutiveFailures in the model
    MaxTrips            \* bound on how often the circuit opens in the model

ASSUME BreakerOptions ==
    /\ FailureThreshold \in Nat \ {0}
    /\ ResetTimeout \in Nat
    /\ MaxAttempts \in Nat \ {0}
ASSUME BreakerBounds == MaxFailures \in Nat /\ MaxTrips \in Nat

VARIABLES
    state,                  \* the breaker's field: CLOSED or OPEN, never HALF_OPEN
    consecutiveFailures,
    age,                    \* now() - openedAt, up to ResetTimeout; None = null
    call,                   \* the calls
    blocked,                \* INTEGRATION_BLOCKED timeline rows written
    trips,                  \* history: times the circuit went to OPEN
    recent                  \* history: how the last FailureThreshold calls settled

vars == <<state, consecutiveFailures, age, call, blocked, trips, recent>>

None == -1

CircuitState == {"CLOSED", "OPEN", "HALF_OPEN"}

\* `before` is broadcast's stateBefore, `tripped` (history) says that the
\* circuit has gone to OPEN since it was read.
Call == [ pc : {"idle", "attempt", "report"},
          attempt : Nat,
          before : CircuitState,
          tripped : BOOLEAN ]

Outcome == {"delivered", "failed"}

Quiet == [pc |-> "idle", attempt |-> 0, before |-> "CLOSED", tripped |-> FALSE]

TypeOK ==
    /\ state \in {"CLOSED", "OPEN"}
    /\ consecutiveFailures \in Nat
    /\ age \in 0..ResetTimeout \cup {None}
    /\ call \in [Calls -> Call]
    /\ blocked \in Nat
    /\ trips \in Nat
    /\ recent \in Seq(Outcome) /\ Len(recent) <= FailureThreshold

------------------------------------------------------------------------------
CanAttemptReset == age # None /\ age >= ResetTimeout

\* getState: HALF_OPEN is computed, the field stays OPEN.
GetState == IF state = "OPEN" /\ CanAttemptReset THEN "HALF_OPEN" ELSE state

InFlight == {c \in Calls : call[c].pc # "idle"}

\* The bounds of the model: each call in flight may fail once and trip once.
Bounded ==
    /\ consecutiveFailures + Cardinality(InFlight) < MaxFailures
    /\ trips + Cardinality(InFlight) < MaxTrips

\* broadcast reads stateBefore and calls the provider; execute lets the call
\* through unless the circuit is OPEN: then it fails fast, without a network
\* attempt, and the provider answers DEGRADED.
Execute(c) ==
    /\ call[c] = Quiet
    /\ Bounded
    /\ call' = [call EXCEPT ![c] =
                   IF GetState = "OPEN"
                   THEN [pc |-> "report", attempt |-> 0,
                         before |-> GetState, tripped |-> FALSE]
                   ELSE [pc |-> "attempt", attempt |-> 1,
                         before |-> GetState, tripped |-> FALSE]]
    /\ UNCHANGED <<state, consecutiveFailures, age, blocked, trips, recent>>

\* The history window, oldest outcome dropped.
Remember(o) ==
    LET longer == Append(recent, o) IN
    IF Len(longer) > FailureThreshold THEN Tail(longer) ELSE longer

\* Faulty variant: the counter survives a success.
OnSuccessKeepsCount(c) ==
    /\ state' = "CLOSED"
    /\ age' = None
    /\ recent' = Remember("delivered")
    /\ call' = [call EXCEPT ![c].pc = "report"]
    /\ UNCHANGED <<consecutiveFailures, trips>>

OnSuccess(c) ==
    /\ consecutiveFailures' = 0
    /\ state' = "CLOSED"
    /\ age' = None
    /\ recent' = Remember("delivered")
    /\ call' = [call EXCEPT ![c].pc = "report"]
    /\ UNCHANGED trips

\* The history of trips: the calls under way have seen one more.
Settled(c, trip) ==
    /\ trips' = IF trip THEN trips + 1 ELSE trips
    /\ call' = [d \in Calls |->
                  [ call[d] EXCEPT !.pc = IF d = c THEN "report" ELSE @,
                                   !.tripped = @ \/ (trip /\ call[d].pc # "idle") ]]

\* Faulty variant: openedAt is not set.
OnFailureUndated(c) ==
    LET opens == consecutiveFailures + 1 >= FailureThreshold IN
    /\ consecutiveFailures' = consecutiveFailures + 1
    /\ state' = IF opens THEN "OPEN" ELSE state
    /\ recent' = Remember("failed")
    /\ Settled(c, opens /\ GetState # "OPEN")
    /\ UNCHANGED age

\* A failure opens the circuit, or, when it is OPEN already, restarts the
\* cooldown; it is a trip when the circuit was not OPEN to callers.
OnFailure(c) ==
    LET opens == consecutiveFailures + 1 >= FailureThreshold IN
    /\ consecutiveFailures' = consecutiveFailures + 1
    /\ state' = IF opens THEN "OPEN" ELSE state
    /\ age' = IF opens THEN 0 ELSE age
    /\ recent' = Remember("failed")
    /\ Settled(c, opens /\ GetState # "OPEN")

RetryLeft(c) == call[c].attempt < MaxAttempts

\* Faulty variant: an exhausted series of attempts starts over.
AttemptFailsRestarting(c) ==
    /\ call[c].pc = "attempt"
    /\ call' = [call EXCEPT ![c].attempt = IF RetryLeft(c) THEN @ + 1 ELSE 1]
    /\ UNCHANGED <<state, consecutiveFailures, age, trips, recent, blocked>>

\* The network answers.  A failed attempt that is not the last sleeps and
\* tries again; the last one makes withRetry, and so execute, throw.
AttemptSucceeds(c) ==
    /\ call[c].pc = "attempt"
    /\ OnSuccess(c)
    /\ UNCHANGED blocked

AttemptFails(c) ==
    /\ call[c].pc = "attempt"
    /\ IF RetryLeft(c)
       THEN /\ call' = [call EXCEPT ![c].attempt = @ + 1]
            /\ UNCHANGED <<state, consecutiveFailures, age, trips, recent>>
       ELSE OnFailure(c)
    /\ UNCHANGED blocked

\* Faulty variant: stateBefore is not looked at.
NewlyBlockedAlways(c) == GetState = "OPEN"

\* stateBefore !== OPEN && stateAfter === OPEN
NewlyBlocked(c) == call[c].before # "OPEN" /\ GetState = "OPEN"

\* broadcast reads stateAfter and records INTEGRATION_BLOCKED if the call
\* seems to have opened the circuit.
Report(c) ==
    /\ call[c].pc = "report"
    /\ blocked' = IF NewlyBlocked(c) THEN blocked + 1 ELSE blocked
    /\ call' = [call EXCEPT ![c] = Quiet]
    /\ UNCHANGED <<state, consecutiveFailures, age, trips, recent>>

\* The clock; only the time since openedAt matters, up to the cooldown.
Tick ==
    /\ age # None /\ age < ResetTimeout
    /\ age' = age + 1
    /\ UNCHANGED <<state, consecutiveFailures, call, blocked, trips, recent>>

------------------------------------------------------------------------------
Init ==
    /\ state = "CLOSED"
    /\ consecutiveFailures = 0
    /\ age = None
    /\ call = [c \in Calls |-> Quiet]
    /\ blocked = 0
    /\ trips = 0
    /\ recent = << >>

Next ==
    \/ \E c \in Calls :
          Execute(c) \/ AttemptSucceeds(c) \/ AttemptFails(c) \/ Report(c)
    \/ Tick

\* The network answers every attempt one way or the other, promises run to
\* their end, time passes.  Nobody has to call.
Fairness ==
    /\ \A c \in Calls : /\ WF_vars(AttemptSucceeds(c) \/ AttemptFails(c))
                        /\ WF_vars(Report(c))
    /\ WF_vars(Tick)

Spec == Init /\ [][Next]_vars

FairSpec == Spec /\ Fairness

------------------------------------------------------------------------------
(* Properties. *)

AllFailed == /\ Len(recent) = FailureThreshold
             /\ \A k \in 1..Len(recent) : recent[k] = "failed"

\* CircuitBreaker promises to open after failureThreshold consecutive failed
\* calls: with any number of calls settling in any order, the circuit is OPEN
\* exactly when the last failureThreshold calls to settle all failed.
OpenIffStreak == state = "OPEN" <=> AllFailed

\* broadcast compares the state before and after its own call: whenever it
\* records INTEGRATION_BLOCKED the circuit really opened, or reopened, while
\* that call was under way.
BlockedAfterTrip ==
    [][\A c \in Calls :
          blocked' # blocked /\ call'[c] # call[c] => call[c].tripped]_vars

\* An OPEN circuit is probed sooner or later: calls that were let through
\* before it opened may restart the cooldown, but only finitely often.
CooldownEnds == GetState = "OPEN" ~> GetState # "OPEN"

\* Every call that was let through comes back to its request.
CallsReturn == \A c \in Calls : call[c].pc # "idle" ~> call[c].pc = "idle"

\* circuit-breaker.ts: "then exactly one HALF_OPEN probe is allowed through".
SingleProbe ==
    \A c, d \in Calls :
        /\ call[c].pc = "attempt" /\ call[c].before = "HALF_OPEN"
        /\ call[d].pc = "attempt" /\ call[d].before = "HALF_OPEN"
        => c = d

\* ADR-0012: INTEGRATION_BLOCKED is "written exactly once per circuit
\* CLOSED/HALF_OPEN -> OPEN transition".
BlockedOncePerTrip == blocked <= trips

==============================================================================
