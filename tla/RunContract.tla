----------------------------- MODULE RunContract -----------------------------
(***************************************************************************)
(* What a run of the invoice pipeline promises its caller, whatever agents *)
(* fail and whatever other runs do (the contract of                        *)
(* Orchestrator::process_invoice and process_invoice_sealed in             *)
(* crates/themis-orchestrator/src/orchestrator.rs).                        *)
(*                                                                         *)
(* The Fraud Auditor speaks at most once.  The run is answered once, with  *)
(* an error or with a packet, and the packet's outcome is Halt exactly if  *)
(* the Fraud Auditor's decision trips the BAAAR gate.                      *)
(***************************************************************************)
CONSTANT Runs

VARIABLES
    verdict,    \* "none", or what the gate makes of the auditor's decision
    answer      \* "none", "error", or the outcome of the packet returned

Init ==
    /\ verdict = [r \in Runs |-> "none"]
    /\ answer = [r \in Runs |-> "none"]

Audit(r) ==
    /\ answer[r] = "none"
    /\ verdict[r] = "none"
    /\ \E v \in {"Approve", "Halt"} : verdict' = [verdict EXCEPT ![r] = v]
    /\ UNCHANGED answer

Release(r) ==
    /\ answer[r] = "none"
    /\ answer' = [answer EXCEPT ![r] =
                     IF verdict[r] = "Halt" THEN "Halt" ELSE "Approve"]
    /\ UNCHANGED verdict

Fail(r) ==
    /\ answer[r] = "none"
    /\ answer' = [answer EXCEPT ![r] = "error"]
    /\ UNCHANGED verdict

Next == \E r \in Runs : Audit(r) \/ Release(r) \/ Fail(r)

Spec == Init /\ [][Next]_<<verdict, answer>>
=============================================================================
