--------------------------- MODULE CircuitBreaker ---------------------------
(***************************************************************************)
(* The three-state circuit breaker of themis-orchestrator                  *)
(* (crates/themis-orchestrator/src/circuit_breaker.rs).                    *)
(*                                                                         *)
(* A breaker is shared by concurrent callers.  One call() is not atomic:   *)
(* the gate is decided under the state mutex, the protected function runs  *)
(* with no lock held, a failure is counted with an atomic fetch_add, and   *)
(* only then is the mutex taken again to apply the result.  Each of these  *)
(* is a step here.  (The success path holds the mutex over its two writes; *)
(* a fetch_add that falls between them commutes to before the lock, so it  *)
(* is one step.)                                                           *)
(*                                                                         *)
(* The code only ever asks whether the time since opening has reached the  *)
(* timeout and whether a count has reached the threshold, so both are kept *)
(* as counters that saturate there; no behaviour is cut off by a bound.    *)
(***************************************************************************)
EXTENDS Naturals, FiniteSets, TLAPS

CONSTANTS
    Callers,        \* threads that share the breaker
    Threshold,      \* failures before the breaker opens
    Timeout         \* clock ticks the breaker stays open

ASSUME ThresholdAssumption == Threshold \in Nat \ {0}
ASSUME TimeoutAssumption == Timeout \in Nat

VARIABLES
    state,      \* CircuitState: "Closed", "Open" or "HalfOpen"
    age,        \* time since opened_at, saturating at Timeout
    failures,   \* the AtomicU32 counter, saturating at Threshold
    pc,         \* where each caller is inside call()
    counted,    \* fetch_add's result plus one, per caller
    trial,      \* callers the gate let through in the HalfOpen state
    reported,   \* the state a Rejected error carries, per caller
    healthy     \* the protected function has stopped failing for good

vars == <<state, age, failures, pc, counted, trial, reported, healthy>>

States == {"Closed", "Open", "HalfOpen"}
Steps  == {"idle", "running", "failing", "rejecting", "rejected"}

\* The fields and the callers' local variables keep their types.
TypeOK ==
    /\ state \in States
    /\ age \in 0..Timeout
    /\ failures \in 0..Threshold
    /\ pc \in [Callers -> Steps]
    /\ counted \in [Callers -> 0..Threshold]
    /\ trial \in SUBSET Callers
    /\ reported \in [Callers -> States]
    /\ healthy \in BOOLEAN

\* CircuitBreaker::with_params
Init ==
    /\ state = "Closed"
    /\ age = 0
    /\ failures = 0
    /\ pc = [c \in Callers |-> "idle"]
    /\ counted = [c \in Callers |-> 0]
    /\ trial = {}
    /\ reported = [c \in Callers |-> "Closed"]
    /\ healthy = FALSE
-----------------------------------------------------------------------------
Elapsed == age >= Timeout

\* The gate lets the call through: Closed and HalfOpen always do.
Admit(c) ==
    /\ pc[c] = "idle"
    /\ state \in {"Closed", "HalfOpen"}
    /\ pc' = [pc EXCEPT ![c] = "running"]
    /\ trial' = IF state = "HalfOpen" THEN trial \cup {c} ELSE trial
    /\ UNCHANGED <<state, age, failures, counted, reported, healthy>>

\* The recovery window has elapsed: move to HalfOpen and run the trial.
AdmitTrial(c) ==
    /\ pc[c] = "idle"
    /\ state = "Open"
    /\ Elapsed
    /\ state' = "HalfOpen"
    /\ pc' = [pc EXCEPT ![c] = "running"]
    /\ trial' = trial \cup {c}
    /\ UNCHANGED <<age, failures, counted, reported, healthy>>

\* A mutant of Refuse: a rejected call restarts the recovery window.
RefuseRestartingWindow(c) ==
    /\ pc[c] = "idle"
    /\ state = "Open"
    /\ ~Elapsed
    /\ age' = 0
    /\ pc' = [pc EXCEPT ![c] = "rejecting"]
    /\ UNCHANGED <<state, failures, counted, trial, reported, healthy>>

\* The gate decides to reject, and releases the mutex.
Refuse(c) ==
    /\ pc[c] = "idle"
    /\ state = "Open"
    /\ ~Elapsed
    /\ pc' = [pc EXCEPT ![c] = "rejecting"]
    /\ UNCHANGED <<state, age, failures, counted, trial, reported, healthy>>

\* The error is built from a second, separate read of the state.
ReportRejection(c) ==
    /\ pc[c] = "rejecting"
    /\ reported' = [reported EXCEPT ![c] = state]
    /\ pc' = [pc EXCEPT ![c] = "rejected"]
    /\ UNCHANGED <<state, age, failures, counted, trial, healthy>>

\* A mutant of Succeed: the trial's success closes the breaker but leaves the
\* failure counter where it was.
SucceedKeepingCount(c) ==
    /\ pc[c] = "running"
    /\ state' = IF state = "HalfOpen" THEN "Closed" ELSE state
    /\ pc' = [pc EXCEPT ![c] = "idle"]
    /\ trial' = trial \ {c}
    /\ UNCHANGED <<age, failures, counted, reported, healthy>>

\* The inner call succeeded.  Only in HalfOpen is anything changed: in
\* Closed the failure counter is left alone.
Succeed(c) ==
    /\ pc[c] = "running"
    /\ IF state = "HalfOpen"
       THEN state' = "Closed" /\ failures' = 0
       ELSE UNCHANGED <<state, failures>>
    /\ pc' = [pc EXCEPT ![c] = "idle"]
    /\ trial' = trial \ {c}
    /\ UNCHANGED <<age, counted, reported, healthy>>

BumpedCount == IF failures < Threshold THEN failures + 1 ELSE Threshold

\* The inner call failed: fetch_add on the counter, no lock held.
CountFailure(c) ==
    /\ pc[c] = "running"
    /\ ~healthy
    /\ failures' = BumpedCount
    /\ counted' = [counted EXCEPT ![c] = BumpedCount]
    /\ pc' = [pc EXCEPT ![c] = "failing"]
    /\ UNCHANGED <<state, age, trial, reported, healthy>>

\* A mutant of ApplyFailure: only the counter is consulted.  A trial that had
\* not reached the threshold (a stale success reset it) leaves HalfOpen as is.
ApplyFailureByCountOnly(c) ==
    /\ pc[c] = "failing"
    /\ IF state # "HalfOpen" /\ counted[c] >= Threshold
       THEN state' = "Open" /\ age' = 0
       ELSE UNCHANGED <<state, age>>
    /\ pc' = [pc EXCEPT ![c] = "idle"]
    /\ trial' = trial \ {c}
    /\ counted' = [counted EXCEPT ![c] = 0]
    /\ UNCHANGED <<failures, reported, healthy>>

\* The failed call takes the mutex and opens the breaker if it should.
ApplyFailure(c) ==
    /\ pc[c] = "failing"
    /\ IF state = "HalfOpen" \/ counted[c] >= Threshold
       THEN state' = "Open" /\ age' = 0
       ELSE UNCHANGED <<state, age>>
    /\ pc' = [pc EXCEPT ![c] = "idle"]
    /\ trial' = trial \ {c}
    /\ counted' = [counted EXCEPT ![c] = 0]
    /\ UNCHANGED <<failures, reported, healthy>>

\* The rejected caller returns to its own code and may call again.
Return(c) ==
    /\ pc[c] = "rejected"
    /\ pc' = [pc EXCEPT ![c] = "idle"]
    /\ reported' = [reported EXCEPT ![c] = "Closed"]
    /\ UNCHANGED <<state, age, failures, counted, trial, healthy>>

\* Time passes: only the age of an open breaker is ever read.
Tick ==
    /\ state = "Open"
    /\ ~Elapsed
    /\ age' = age + 1
    /\ UNCHANGED <<state, failures, pc, counted, trial, reported, healthy>>

\* The protected function recovers.
Heal ==
    /\ ~healthy
    /\ healthy' = TRUE
    /\ UNCHANGED <<state, age, failures, pc, counted, trial, reported>>

Call(c) ==
    \/ Admit(c) \/ AdmitTrial(c) \/ Refuse(c) \/ ReportRejection(c)
    \/ Succeed(c) \/ CountFailure(c) \/ ApplyFailure(c) \/ Return(c)

Next == Tick \/ Heal \/ \E c \in Callers : Call(c)

Spec == Init /\ [][Next]_vars

\* Every thread is scheduled, the protected function returns, callers keep
\* calling, and time passes.  Heal is not forced.
Fairness == WF_vars(Tick) /\ \A c \in Callers : WF_vars(Call(c))

FairSpec == Spec /\ Fairness
-----------------------------------------------------------------------------
\* No trip is lost between the unlocked fetch_add and the mutex: whenever the
\* counter has reached the threshold while the breaker still lets calls
\* through, some failed call is about to take the mutex and open it.
NoMissedTrip ==
    state = "Closed" /\ failures >= Threshold =>
        \E c \in Callers : pc[c] = "failing" /\ counted[c] >= Threshold

\* HalfOpen is never abandoned: some trial is still in flight and will settle
\* it, whatever late results of older calls arrive in between.
HalfOpenIsOnTrial == state = "HalfOpen" => trial # {}

\* While callers keep calling, an open breaker does not stay open for ever,
\* however rejections and late failures interleave.
Recovers == state = "Open" ~> state # "Open"

\* Once the protected function has recovered, the breaker ends up closed and
\* stays closed: late failures of earlier calls cannot wedge it.
ClosesWhenHealthy == healthy ~> [](state = "Closed")

\* The breaker is no trap: open it is left, and healthy it closes.
Settles == Recovers /\ ClosesWhenHealthy
-----------------------------------------------------------------------------
\* Every step of call(), of the clock and of the protected function keeps the
\* types.
THEOREM TypeCorrect == Spec => []TypeOK
<1>1. Init => TypeOK
  <2> SUFFICES ASSUME Init PROVE TypeOK
    OBVIOUS
  <2>1. healthy \in BOOLEAN
    BY DEF Init
  <2>2. age \in 0..Timeout /\ failures \in 0..Threshold
    BY ThresholdAssumption, TimeoutAssumption DEF Init
  <2>3. counted \in [Callers -> 0..Threshold]
    BY ThresholdAssumption DEF Init
  <2>4. QED
    BY <2>1, <2>2, <2>3, Zenon DEF Init, TypeOK, States, Steps
<1>2. TypeOK /\ [Next]_vars => TypeOK'
  <2> SUFFICES ASSUME TypeOK, [Next]_vars PROVE TypeOK'
    OBVIOUS
  <2> USE ThresholdAssumption, TimeoutAssumption DEF TypeOK, States, Steps
  <2>1. CASE Tick
    BY <2>1 DEF Tick, Elapsed
  <2>2. CASE Heal
    BY <2>2 DEF Heal
  <2>3. ASSUME NEW c \in Callers, Call(c) PROVE TypeOK'
    <3>1. CASE Admit(c)
      BY <3>1 DEF Admit
    <3>2. CASE AdmitTrial(c)
      BY <3>2 DEF AdmitTrial
    <3>3. CASE Refuse(c)
      BY <3>3 DEF Refuse
    <3>4. CASE ReportRejection(c)
      BY <3>4 DEF ReportRejection
    <3>5. CASE Succeed(c)
      BY <3>5 DEF Succeed
    <3>6. CASE CountFailure(c)
      <4>1. BumpedCount \in 0..Threshold
        BY DEF BumpedCount
      <4>2. QED
        BY <3>6, <4>1 DEF CountFailure
    <3>7. CASE ApplyFailure(c)
      BY <3>7 DEF ApplyFailure
    <3>8. CASE Return(c)
      BY <3>8 DEF Return
    <3>9. QED
      BY <2>3, <3>1, <3>2, <3>3, <3>4, <3>5, <3>6, <3>7, <3>8 DEF Call
  <2>4. CASE UNCHANGED vars
    BY <2>4 DEF vars
  <2>5. QED
    BY <2>1, <2>2, <2>3, <2>4 DEF Next
<1>3. QED
  BY <1>1, <1>2, PTL DEF Spec

\* The counter and the breaker cannot drift apart in the unlocked gap of the
\* failure path: a closed breaker whose counter has reached the threshold has
\* a failed call on its way to open it.
THEOREM TripNotMissed == Spec => []NoMissedTrip
<1>1. Init => NoMissedTrip
  BY ThresholdAssumption DEF Init, NoMissedTrip
<1>2. TypeOK /\ NoMissedTrip /\ [Next]_vars => NoMissedTrip'
  <2> SUFFICES ASSUME TypeOK, NoMissedTrip, [Next]_vars PROVE NoMissedTrip'
    OBVIOUS
  <2> USE ThresholdAssumption, TimeoutAssumption DEF TypeOK, NoMissedTrip
  <2>1. CASE Tick
    BY <2>1 DEF Tick
  <2>2. CASE Heal
    BY <2>2 DEF Heal
  <2>3. ASSUME NEW c \in Callers, Call(c) PROVE NoMissedTrip'
    <3>1. CASE Admit(c)
      BY <3>1 DEF Admit
    <3>2. CASE AdmitTrial(c)
      BY <3>2 DEF AdmitTrial
    <3>3. CASE Refuse(c)
      BY <3>3 DEF Refuse
    <3>4. CASE ReportRejection(c)
      BY <3>4 DEF ReportRejection
    <3>5. CASE Succeed(c)
      BY <3>5 DEF Succeed
    <3>6. CASE CountFailure(c)
      \* The caller that brings the counter to the threshold is itself the
      \* witness; any earlier witness is another caller and is left alone.
      BY <3>6 DEF CountFailure, BumpedCount
    <3>7. CASE ApplyFailure(c)
      \* If c was the witness it opens the breaker.
      BY <3>7 DEF ApplyFailure
    <3>8. CASE Return(c)
      BY <3>8 DEF Return
    <3>9. QED
      BY <2>3, <3>1, <3>2, <3>3, <3>4, <3>5, <3>6, <3>7, <3>8 DEF Call
  <2>4. CASE UNCHANGED vars
    BY <2>4 DEF vars
  <2>5. QED
    BY <2>1, <2>2, <2>3, <2>4 DEF Next
<1>3. QED
  BY <1>1, <1>2, TypeCorrect, PTL DEF Spec

\* HalfOpen always has a trial in flight, so it is always left again by a
\* result and never by accident of scheduling.  The strengthening says that a
\* trial caller is inside call().
THEOREM HalfOpenSettles == Spec => []HalfOpenIsOnTrial
<1> DEFINE Inv == /\ HalfOpenIsOnTrial
                  /\ \A c \in trial : pc[c] \in {"running", "failing"}
<1>1. Init => Inv
  BY DEF Init, HalfOpenIsOnTrial
<1>2. TypeOK /\ Inv /\ [Next]_vars => Inv'
  <2> SUFFICES ASSUME TypeOK, Inv, [Next]_vars PROVE Inv'
    OBVIOUS
  <2> USE DEF TypeOK, HalfOpenIsOnTrial
  <2>1. CASE Tick
    BY <2>1 DEF Tick
  <2>2. CASE Heal
    BY <2>2 DEF Heal
  <2>3. ASSUME NEW c \in Callers, Call(c) PROVE Inv'
    <3>1. CASE Admit(c)
      BY <3>1 DEF Admit
    <3>2. CASE AdmitTrial(c)
      BY <3>2 DEF AdmitTrial
    <3>3. CASE Refuse(c)
      BY <3>3 DEF Refuse
    <3>4. CASE ReportRejection(c)
      BY <3>4 DEF ReportRejection
    <3>5. CASE Succeed(c)
      BY <3>5 DEF Succeed
    <3>6. CASE CountFailure(c)
      BY <3>6 DEF CountFailure
    <3>7. CASE ApplyFailure(c)
      BY <3>7 DEF ApplyFailure
    <3>8. CASE Return(c)
      BY <3>8 DEF Return
    <3>9. QED
      BY <2>3, <3>1, <3>2, <3>3, <3>4, <3>5, <3>6, <3>7, <3>8 DEF Call
  <2>4. CASE UNCHANGED vars
    BY <2>4 DEF vars
  <2>5. QED
    BY <2>1, <2>2, <2>3, <2>4 DEF Next
<1>3. QED
  BY <1>1, <1>2, TypeCorrect, PTL DEF Spec
=============================================================================
