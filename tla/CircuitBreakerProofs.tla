------------------------- MODULE CircuitBreakerProofs -------------------------
(***************************************************************************)
(* Theorems about CircuitBreaker for any number of concurrent calls and    *)
(* any options.  The counter says how many failures end the history, and a *)
(* call whose stateBefore let it through has either seen a trip since or   *)
(* still finds the circuit not OPEN.                                       *)
(***************************************************************************)
EXTENDS CircuitBreaker, TLAPS

N == Len(recent)

\* consecutiveFailures counts the failures at the end of the window: all of
\* it once the threshold is reached, else back to a success or to its start.
StreakInv ==
    /\ state = "OPEN" <=> consecutiveFailures >= FailureThreshold
    /\ age = None <=> state = "CLOSED"
    /\ consecutiveFailures >= FailureThreshold => AllFailed
    /\ consecutiveFailures < FailureThreshold =>
          /\ consecutiveFailures <= N
          /\ \A k \in N - consecutiveFailures + 1 .. N : recent[k] = "failed"
          /\ \/ consecutiveFailures = N
             \/ recent[N - consecutiveFailures] = "delivered"

\* A call under way that has seen no trip still finds the circuit not OPEN,
\* unless it was refused.
TripInv ==
    \A c \in Calls :
        call[c].pc # "idle" /\ call[c].before # "OPEN" /\ ~call[c].tripped
            => GetState # "OPEN"

IInv == TypeOK /\ StreakInv /\ TripInv

------------------------------------------------------------------------------
\* The window after one more outcome: at most FailureThreshold long, the new
\* outcome last, the others moved to the left once the window is full.
LEMMA RememberFacts ==
    ASSUME TypeOK, NEW o \in Outcome
    PROVE  LET w == Remember(o)
               m == Len(w)
           IN  /\ w \in Seq(Outcome)
               /\ N \in Nat /\ N <= FailureThreshold
               /\ m = IF N < FailureThreshold THEN N + 1 ELSE N
               /\ w[m] = o
               /\ \A k \in 1 .. m - 1 : w[k] = recent[k + N + 1 - m]
<1> DEFINE longer == Append(recent, o)
           w == Remember(o)
           m == Len(w)
<1>1. /\ N \in Nat /\ N <= FailureThreshold /\ recent \in Seq(Outcome)
      /\ FailureThreshold \in Nat \ {0}
  BY BreakerOptions DEF TypeOK, N
<1>2. /\ longer \in Seq(Outcome) /\ Len(longer) = N + 1 /\ longer[N + 1] = o
      /\ \A k \in 1..N : longer[k] = recent[k]
  BY <1>1 DEF N
<1>3. w = IF N + 1 > FailureThreshold THEN Tail(longer) ELSE longer
  BY <1>2 DEF Remember
<1> HIDE DEF longer, w
<1>4. /\ Tail(longer) \in Seq(Outcome) /\ Len(Tail(longer)) = N
      /\ \A k \in 1..N : Tail(longer)[k] = longer[k + 1]
  BY <1>1, <1>2
<1>5. /\ w \in Seq(Outcome)
      /\ m = IF N < FailureThreshold THEN N + 1 ELSE N
      /\ w[m] = o
      /\ \A k \in 1 .. m - 1 : w[k] = recent[k + N + 1 - m]
  <2>1. CASE N < FailureThreshold
    <3>1. w = longer /\ m = N + 1
      BY <1>1, <1>2, <1>3, <2>1
    <3> HIDE DEF m
    <3> QED
      BY <1>1, <1>2, <2>1, <3>1
  <2>2. CASE N = FailureThreshold
    <3>1. w = Tail(longer) /\ m = N
      BY <1>1, <1>3, <1>4, <2>2
    <3> HIDE DEF m
    <3> QED
      BY <1>1, <1>2, <1>4, <2>2, <3>1
  <2> QED
    BY <1>1, <2>1, <2>2
<1> QED
  BY <1>1, <1>5 DEF w

LEMMA InitIInv == Init => IInv
  BY BreakerOptions DEF Init, IInv, TypeOK, StreakInv, TripInv, N, Quiet, Call,
     CircuitState, None, GetState, AllFailed

\* A success ends the streak and closes the circuit.
LEMMA SuccessStep ==
    ASSUME IInv, NEW c \in Calls, AttemptSucceeds(c)
    PROVE  IInv'
<1>1. /\ consecutiveFailures' = 0 /\ state' = "CLOSED" /\ age' = None
      /\ recent' = Remember("delivered") /\ UNCHANGED <<trips, blocked>>
      /\ call' = [call EXCEPT ![c].pc = "report"] /\ call[c].pc = "attempt"
  BY DEF AttemptSucceeds, OnSuccess
<1>2. call' \in [Calls -> Call]
  BY <1>1 DEF IInv, TypeOK, Call
<1>3. N' \in Nat /\ N' <= FailureThreshold /\ N' > 0 /\ recent'[N'] = "delivered"
      /\ recent' \in Seq(Outcome)
  <2>1. "delivered" \in Outcome
    BY DEF Outcome
  <2> QED
    BY <1>1, <2>1, RememberFacts, BreakerOptions DEF IInv, N
<1>4. TypeOK'
  BY <1>1, <1>2, <1>3 DEF IInv, TypeOK, N
<1>5. StreakInv'
  BY <1>1, <1>3, BreakerOptions DEF StreakInv, None
<1>6. TripInv'
  BY <1>1 DEF TripInv, GetState
<1> QED
  BY <1>4, <1>5, <1>6 DEF IInv

\* A failed attempt that is retried changes nothing but its count.
LEMMA RetryStep ==
    ASSUME IInv, NEW c \in Calls, AttemptFails(c), RetryLeft(c)
    PROVE  IInv'
<1>1. /\ UNCHANGED <<state, consecutiveFailures, age, trips, recent, blocked>>
      /\ call' = [call EXCEPT ![c].attempt = @ + 1]
  BY DEF AttemptFails
<1>2. \A d \in Calls : /\ call'[d] \in Call /\ call'[d].pc = call[d].pc
                        /\ call'[d].before = call[d].before
                        /\ call'[d].tripped = call[d].tripped
  BY <1>1 DEF IInv, TypeOK, Call
<1>3. TypeOK'
  BY <1>1, <1>2 DEF IInv, TypeOK
<1>4. TripInv'
  BY <1>1, <1>2 DEF IInv, TripInv, GetState, CanAttemptReset
<1> QED
  BY <1>1, <1>3, <1>4 DEF IInv, StreakInv, AllFailed, N

\* A failure extends the streak; when it opens the circuit to callers, every
\* call under way has seen the trip.
LEMMA FailureStep ==
    ASSUME IInv, NEW c \in Calls, AttemptFails(c), ~RetryLeft(c)
    PROVE  IInv'
<1> DEFINE cf == consecutiveFailures
           opens == cf + 1 >= FailureThreshold
           trip == opens /\ GetState # "OPEN"
<1>1. /\ consecutiveFailures' = cf + 1
      /\ state' = IF opens THEN "OPEN" ELSE state
      /\ age' = IF opens THEN 0 ELSE age
      /\ recent' = Remember("failed")
      /\ blocked' = blocked
  BY DEF AttemptFails, OnFailure
<1>c. /\ trips' = IF trip THEN trips + 1 ELSE trips
      /\ call' = [d \in Calls |->
                    [call[d] EXCEPT !.pc = IF d = c THEN "report" ELSE @,
                                    !.tripped = @ \/ (trip /\ call[d].pc # "idle")]]
      /\ call[c].pc = "attempt"
  BY DEF AttemptFails, OnFailure, Settled
<1>0. /\ FailureThreshold \in Nat \ {0} /\ ResetTimeout \in Nat
      /\ cf \in Nat /\ state \in {"CLOSED", "OPEN"} /\ trips \in Nat
      /\ age \in 0..ResetTimeout \cup {None} /\ call \in [Calls -> Call]
      /\ recent \in Seq(Outcome)
  BY BreakerOptions DEF IInv, TypeOK
<1>2. \A d \in Calls :
         /\ call'[d] \in Call
         /\ call'[d].before = call[d].before
         /\ call'[d].pc = IF d = c THEN "report" ELSE call[d].pc
         /\ call'[d].tripped = (call[d].tripped \/ (trip /\ call[d].pc # "idle"))
  <2> SUFFICES ASSUME NEW d \in Calls
               PROVE  /\ call'[d] \in Call
                      /\ call'[d].before = call[d].before
                      /\ call'[d].pc = IF d = c THEN "report" ELSE call[d].pc
                      /\ call'[d].tripped = (call[d].tripped \/ (trip /\ call[d].pc # "idle"))
    OBVIOUS
  <2> HIDE DEF trip
  <2>1. call[d] \in Call
    BY <1>0
  <2>2. call'[d] = [call[d] EXCEPT !.pc = IF d = c THEN "report" ELSE @,
                                   !.tripped = @ \/ (trip /\ call[d].pc # "idle")]
    BY <1>c
  <2> QED
    BY <2>1, <2>2 DEF Call
<1>3. /\ N \in Nat /\ N <= FailureThreshold /\ recent' \in Seq(Outcome)
      /\ N' = IF N < FailureThreshold THEN N + 1 ELSE N
      /\ recent'[N'] = "failed"
      /\ \A k \in 1 .. N' - 1 : recent'[k] = recent[k + N + 1 - N']
  <2>1. "failed" \in Outcome
    BY DEF Outcome
  <2> QED
    BY <1>1, <2>1, RememberFacts DEF IInv, N
<1>4. TypeOK'
  <2>1. call' \in [Calls -> Call]
    BY <1>c, <1>2
  <2>2. age' \in 0..ResetTimeout \cup {None} /\ state' \in {"CLOSED", "OPEN"}
    BY <1>0, <1>1
  <2>3. consecutiveFailures' \in Nat /\ trips' \in Nat /\ blocked' \in Nat
    <3>1. trips' \in {trips, trips + 1}
      BY <1>c
    <3> QED
      BY <1>0, <1>1, <3>1 DEF IInv, TypeOK
  <2>4. Len(recent') <= FailureThreshold
    BY <1>0, <1>3 DEF N
  <2> QED
    BY <1>3, <2>1, <2>2, <2>3, <2>4 DEF TypeOK
<1> HIDE DEF opens
<1>o. opens <=> cf + 1 >= FailureThreshold
  BY DEF opens
<1>5. StreakInv'
  <2>1. \A k \in N' - (cf + 1) + 1 .. N' : k >= 1 => recent'[k] = "failed"
    <3>1. \A k \in N - cf + 1 .. N : k >= 1 => recent[k] = "failed"
      BY <1>0, <1>3 DEF IInv, StreakInv, AllFailed, N
    <3>2. ASSUME NEW k \in N' - (cf + 1) + 1 .. N' - 1, k >= 1
          PROVE  recent'[k] = "failed"
      <4>1. k + N + 1 - N' \in N - cf + 1 .. N /\ k + N + 1 - N' >= 1
        BY <1>0, <1>3, <3>2
      <4> QED
        BY <1>0, <1>3, <3>1, <3>2, <4>1
    <3> QED
      BY <1>0, <1>3, <3>2
  <2>2. opens => AllFailed'
    <3> SUFFICES ASSUME opens PROVE AllFailed'
      OBVIOUS
    <3>1. cf < FailureThreshold => cf <= N
      BY DEF IInv, StreakInv
    <3>2. cf >= FailureThreshold => N = FailureThreshold
      BY DEF IInv, StreakInv, AllFailed, N
    <3>3. N' = FailureThreshold /\ N' - (cf + 1) + 1 <= 1
      BY <1>0, <1>3, <1>o, <3>1, <3>2
    <3>4. \A k \in 1..N' : recent'[k] = "failed"
      BY <1>0, <2>1, <3>3
    <3> QED
      BY <3>3, <3>4 DEF AllFailed, N
  <2>3. ASSUME ~opens
        PROVE  /\ cf + 1 <= N'
               /\ cf + 1 = N' \/ recent'[N' - (cf + 1)] = "delivered"
    <3>1. cf + 1 < FailureThreshold
      BY <1>0, <1>o, <2>3
    <3>2. cf <= N /\ (cf = N \/ recent[N - cf] = "delivered")
      BY <1>0, <3>1 DEF IInv, StreakInv
    <3>3. CASE cf = N
      BY <1>0, <1>3, <3>1, <3>3
    <3>4. CASE cf # N /\ recent[N - cf] = "delivered"
      <4>1. cf + 1 <= N' /\ N' >= N
        BY <1>0, <1>3, <3>1, <3>2, <3>4
      <4>2. CASE cf + 1 = N'
        BY <4>1, <4>2
      <4>3. CASE cf + 1 # N'
        <5>1. /\ N' - (cf + 1) \in 1 .. N' - 1
              /\ (N' - (cf + 1)) + N + 1 - N' = N - cf
          BY <1>0, <1>3, <4>1, <4>3
        <5>2. recent'[N' - (cf + 1)] = recent[N - cf]
          BY <1>3, <5>1
        <5> QED
          BY <3>4, <4>1, <5>2
      <4> QED
        BY <4>2, <4>3
    <3> QED
      BY <3>2, <3>3, <3>4
  <2>4. /\ state' = "OPEN" <=> opens
        /\ age' = None <=> state' = "CLOSED"
    BY <1>0, <1>1, <1>o DEF IInv, StreakInv, None
  <2>5. consecutiveFailures' >= FailureThreshold <=> opens
    BY <1>1, <1>o
  <2>6. N' - (cf + 1) + 1 >= 1 \/ opens
    BY <1>0, <1>3, <2>3
  <2>7. ~opens => \A k \in N' - (cf + 1) + 1 .. N' : recent'[k] = "failed"
    BY <1>0, <1>3, <2>1, <2>6
  <2>8. consecutiveFailures' < FailureThreshold <=> ~opens
    BY <1>0, <1>1, <1>o
  <2> QED
    BY <1>1, <2>2, <2>3, <2>4, <2>5, <2>7, <2>8 DEF StreakInv
<1>6. TripInv'
  <2> SUFFICES ASSUME NEW d \in Calls, call'[d].pc # "idle",
                      call'[d].before # "OPEN", ~call'[d].tripped
               PROVE  GetState' # "OPEN"
    BY DEF TripInv
  <2>1. call[d].pc # "idle" /\ call[d].before # "OPEN" /\ ~call[d].tripped /\ ~trip
    BY <1>c, <1>2
  <2>2. GetState # "OPEN"
    BY <2>1 DEF IInv, TripInv
  <2>3. ~opens
    BY <2>1, <2>2
  <2> QED
    BY <1>1, <2>2, <2>3 DEF GetState, CanAttemptReset
<1> QED
  BY <1>4, <1>5, <1>6 DEF IInv

\* Admitting a call, reporting and the clock leave the outcomes alone.
LEMMA OtherStep ==
    ASSUME IInv,
           Tick \/ UNCHANGED vars \/ \E c \in Calls : Execute(c) \/ Report(c)
    PROVE  IInv'
<1>1. CASE \E c \in Calls : Execute(c)
  <2> PICK c \in Calls : Execute(c)
    BY <1>1
  <2> DEFINE new == IF GetState = "OPEN"
                    THEN [pc |-> "report", attempt |-> 0,
                          before |-> GetState, tripped |-> FALSE]
                    ELSE [pc |-> "attempt", attempt |-> 1,
                          before |-> GetState, tripped |-> FALSE]
  <2>1. /\ call' = [call EXCEPT ![c] = new]
        /\ UNCHANGED <<state, consecutiveFailures, age, blocked, trips, recent>>
    BY DEF Execute
  <2>2. new \in Call /\ (new.before = "OPEN" <=> GetState = "OPEN")
    BY DEF Call, CircuitState, GetState, IInv, TypeOK
  <2> HIDE DEF new
  <2>3. TypeOK'
    BY <2>1, <2>2 DEF IInv, TypeOK
  <2>4. TripInv'
    BY <2>1, <2>2 DEF IInv, TypeOK, TripInv, GetState, CanAttemptReset
  <2> QED
    BY <2>1, <2>3, <2>4 DEF IInv, StreakInv, AllFailed, N
<1>2. CASE \E c \in Calls : Report(c)
  <2> PICK c \in Calls : Report(c)
    BY <1>2
  <2>1. /\ call' = [call EXCEPT ![c] = Quiet]
        /\ blocked' \in {blocked, blocked + 1}
        /\ UNCHANGED <<state, consecutiveFailures, age, trips, recent>>
    BY DEF Report
  <2>2. Quiet \in Call /\ Quiet.pc = "idle"
    BY DEF Quiet, Call, CircuitState
  <2>3. TypeOK'
    BY <2>1, <2>2 DEF IInv, TypeOK
  <2>4. TripInv'
    BY <2>1, <2>2 DEF IInv, TypeOK, TripInv, GetState, CanAttemptReset
  <2> QED
    BY <2>1, <2>3, <2>4 DEF IInv, StreakInv, AllFailed, N
<1>3. CASE Tick
  <2>1. /\ age # None /\ age < ResetTimeout /\ age' = age + 1
        /\ UNCHANGED <<state, consecutiveFailures, call, blocked, trips, recent>>
    BY <1>3 DEF Tick
  <2>2. age' \in 0..ResetTimeout /\ age' # None
    BY <2>1, BreakerOptions DEF IInv, TypeOK, None
  <2>3. GetState # "OPEN" => GetState' # "OPEN"
    BY <2>1, <2>2, BreakerOptions DEF GetState, CanAttemptReset, IInv, TypeOK, None
  <2> QED
    BY <2>1, <2>2, <2>3 DEF IInv, TypeOK, StreakInv, TripInv, AllFailed, N
<1>4. CASE UNCHANGED vars
  BY <1>4 DEF vars, IInv, TypeOK, StreakInv, TripInv, AllFailed, N, GetState,
     CanAttemptReset
<1> QED
  BY <1>1, <1>2, <1>3, <1>4

LEMMA NextIInv == IInv /\ [Next]_vars => IInv'
  BY SuccessStep, RetryStep, FailureStep, OtherStep DEF Next

\* The fields keep their types; the history window never outgrows the threshold.
THEOREM TypeCorrect == Spec => []TypeOK
<1>1. IInv => TypeOK
  BY DEF IInv
<1> QED
  BY <1>1, InitIInv, NextIInv, PTL DEF Spec

\* The circuit is OPEN exactly when the last failureThreshold settled calls all
\* failed, in whatever order concurrent calls settle.
THEOREM OpensOnStreak == Spec => []OpenIffStreak
<1>1. IInv => OpenIffStreak
  <2> SUFFICES ASSUME IInv, state # "OPEN" PROVE ~AllFailed
    BY DEF IInv, StreakInv, OpenIffStreak
  <2>1. /\ consecutiveFailures \in Nat /\ FailureThreshold \in Nat \ {0}
        /\ consecutiveFailures < FailureThreshold /\ N \in Nat
        /\ N = consecutiveFailures \/ recent[N - consecutiveFailures] = "delivered"
        /\ consecutiveFailures <= N
    BY BreakerOptions DEF IInv, TypeOK, StreakInv, N
  <2> QED
    BY <2>1 DEF AllFailed, N
<1> QED
  BY <1>1, InitIInv, NextIInv, PTL DEF Spec

\* INTEGRATION_BLOCKED is recorded only by a call during which the circuit opened.
THEOREM BlockedMeansTripped == Spec => BlockedAfterTrip
<1> DEFINE Justified == \A c \in Calls :
                           blocked' # blocked /\ call'[c] # call[c] => call[c].tripped
<1>1. ASSUME IInv, [Next]_vars PROVE [Justified]_vars
  <2>1. CASE \E c \in Calls : Report(c)
    <3> PICK c \in Calls : Report(c)
      BY <2>1
    <3>1. blocked' # blocked => call[c].tripped
      <4> SUFFICES ASSUME blocked' # blocked PROVE call[c].tripped
        OBVIOUS
      <4>1. call[c].pc = "report" /\ call[c].before # "OPEN" /\ GetState = "OPEN"
        BY DEF Report, NewlyBlocked
      <4> QED
        BY <1>1, <4>1, Zenon DEF IInv, TripInv
    <3>2. \A d \in Calls : call'[d] # call[d] => d = c
      BY DEF Report, IInv, TypeOK
    <3> QED
      BY <3>1, <3>2
  <2>2. CASE ~\E c \in Calls : Report(c)
    <3>1. blocked' = blocked
      BY <1>1, <2>2 DEF Next, vars, Execute, AttemptSucceeds, AttemptFails, Tick
    <3> QED
      BY <3>1
  <2> QED
    BY <2>1, <2>2
<1> QED
  BY <1>1, InitIInv, NextIInv, PTL DEF Spec, BlockedAfterTrip

==============================================================================
