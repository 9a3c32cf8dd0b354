---------------------------- MODULE StateMachine ----------------------------
(***************************************************************************)
(* Transition and StateMachine of themis-orchestrator                      *)
(* (crates/themis-orchestrator/src/state.rs): the pure state machines that *)
(* the invoices of an orchestrator move through, one machine per run.      *)
(***************************************************************************)
CONSTANTS
    Runs,
    Terminal,       \* the states without a way out
    NextState(_)    \* InvoiceState::next, for the others

VARIABLE state      \* StateMachine::state of each run

Init == state = [r \in Runs |-> "Received"]

\* transition(Advance).  On a terminal state it is an error and no step.
Advance(r) ==
    /\ state[r] \notin Terminal
    /\ state' = [state EXCEPT ![r] = NextState(state[r])]

\* transition(Halt(_)) and transition(Fail(_)).
Stop(r) ==
    /\ state[r] \notin Terminal
    /\ state' = [state EXCEPT ![r] = "Halted"]

Next == \E r \in Runs : Advance(r) \/ Stop(r)

Spec == Init /\ [][Next]_state
=============================================================================
